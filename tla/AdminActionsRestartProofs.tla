---------------------- MODULE AdminActionsRestartProofs ----------------------
(***************************************************************************)
(* Proofs about AdminActionsRestart: what survives the end of the process, *)
(* for any number of restarts and whatever a failing write leaves behind.  *)
(***************************************************************************)
EXTENDS AdminActionsRestart, AdminActionsProofs

-----------------------------------------------------------------------------
(* Sets of line numbers *)

\* A set of natural numbers has a smallest member.
LEMMA Least ==
    ASSUME NEW T \in SUBSET Nat, T # {}
    PROVE  \E x \in T : \A y \in T : x <= y
<1>. DEFINE R == OpToRel(<, Nat)
<1>1. IsWellFoundedOn(R, Nat)
    BY NatLessThanWellFounded
<1>2. \A x, y \in T : y < x => <<y, x>> \in R
    BY DEF OpToRel
<1>. HIDE DEF R
<1>3. PICK x \in T : \A y \in T : ~(<<y, x>> \in R)
    BY <1>1, WFMin
<1>4. ASSUME NEW y \in T PROVE x <= y
    <2>1. ~(y < x)
        BY <1>2, <1>3
    <2>. QED BY <2>1
<1>. QED BY <1>4

\* If it has a bound, it also has a largest one.
LEMMA Greatest ==
    ASSUME NEW T \in SUBSET Nat, T # {}, NEW n \in Nat, \A x \in T : x <= n
    PROVE  \E x \in T : \A y \in T : y <= x
<1>. DEFINE U == {n - x : x \in T}
<1>1. U \in SUBSET Nat /\ U # {}
    <2>1. \A x \in T : n - x \in Nat
        OBVIOUS
    <2>. QED BY <2>1
<1>2. PICK u \in U : \A v \in U : u <= v
    BY <1>1, Least
<1>3. PICK x \in T : u = n - x
    OBVIOUS
<1>4. ASSUME NEW y \in T PROVE y <= x
    <2>1. n - x <= n - y
        BY <1>2, <1>3
    <2>. QED BY <2>1
<1>. QED BY <1>4

-----------------------------------------------------------------------------
(* The lines of a journal *)

LineSet(l) == Elements(Lines(l))

\* A line that the loader reads.
Tracked(x) == IdempotencyTracked(x.outcome)

LEMMA ElementsOfConcat ==
    ASSUME NEW S, NEW s \in Seq(S), NEW t \in Seq(S)
    PROVE  Elements(s \o t) = Elements(s) \cup Elements(t)
<1>1. ASSUME NEW i \in DOMAIN (s \o t) PROVE (s \o t)[i] \in Elements(s) \cup Elements(t)
    <2>1. \/ i \in DOMAIN s /\ (s \o t)[i] = s[i]
          \/ i - Len(s) \in DOMAIN t /\ (s \o t)[i] = t[i - Len(s)]
        OBVIOUS
    <2>. QED BY <2>1 DEF Elements
<1>2. ASSUME NEW i \in DOMAIN s PROVE s[i] \in Elements(s \o t)
    <2>1. i \in DOMAIN (s \o t) /\ (s \o t)[i] = s[i]
        OBVIOUS
    <2>. QED BY <2>1 DEF Elements
<1>3. ASSUME NEW i \in DOMAIN t PROVE t[i] \in Elements(s \o t)
    <2>1. i + Len(s) \in DOMAIN (s \o t) /\ (s \o t)[i + Len(s)] = t[i]
        OBVIOUS
    <2>. QED BY <2>1 DEF Elements
<1>. QED BY <1>1, <1>2, <1>3 DEF Elements

LEMMA ElementsOfAppend ==
    ASSUME NEW S, NEW s \in Seq(S), NEW e \in S
    PROVE  Elements(Append(s, e)) = Elements(s) \cup {e}
<1>1. \A i \in DOMAIN s : i \in DOMAIN Append(s, e) /\ Append(s, e)[i] = s[i]
    OBVIOUS
<1>2. Len(s) + 1 \in DOMAIN Append(s, e) /\ Append(s, e)[Len(s) + 1] = e
    OBVIOUS
<1>. QED BY <1>1, <1>2, AppendFacts DEF Elements

LEMMA LinesOfLog ==
    ASSUME NEW l \in Log
    PROVE  /\ LineSet(l) = Elements(l.backup) \cup Elements(l.current)
           /\ LineSet(l) \subseteq Line
           /\ Lines(l) \in Seq(Line)
<1>1. l.backup \in Seq(Line) /\ l.current \in Seq(Line)
    BY DEF Log
<1>2. LineSet(l) = Elements(l.backup) \cup Elements(l.current)
    BY <1>1, ElementsOfConcat DEF LineSet, Lines
<1>3. Lines(l) \in Seq(Line)
    BY <1>1 DEF Lines
<1>4. \A i \in DOMAIN Lines(l) : Lines(l)[i] \in Line
    BY <1>3
<1>. QED BY <1>2, <1>3, <1>4 DEF LineSet, Elements

\* What a write leaves of the lines that were there, and adds to them.
LEMMA LinesOfWrites ==
    ASSUME NEW l \in Log
    PROVE  /\ \A m \in FailedWrites(l) : LineSet(m) \subseteq LineSet(l)
           /\ \A line \in Line :
                 /\ LineSet(Appended(l, line)) \subseteq LineSet(l) \cup {Glue(Writable(l), line)}
                 /\ Glue(Writable(l), line) \in LineSet(Appended(l, line))
<1>1. Elements(<<>>) = {}
    BY DEF Elements
<1>2. /\ Rotated(l) \in Log /\ Writable(l) \in Log
      /\ LineSet(Rotated(l)) \subseteq LineSet(l) /\ LineSet(Writable(l)) \subseteq LineSet(l)
    <2>1. Rotated(l) \in Log
        BY DEF Rotated, Log
    <2>2. LineSet(Rotated(l)) \subseteq LineSet(l)
        BY <1>1, <2>1, LinesOfLog DEF Rotated
    <2>. QED BY <2>1, <2>2 DEF Writable
<1>3. ASSUME NEW m \in FailedWrites(l) PROVE LineSet(m) \subseteq LineSet(l)
    <2>1. [l EXCEPT !.backup = <<>>] \in Log /\ [Writable(l) EXCEPT !.torn = TRUE] \in Log
        <3>1. <<>> \in Seq(Line)
            OBVIOUS
        <3>. QED BY <1>2, <3>1 DEF Log
    <2>2. LineSet([l EXCEPT !.backup = <<>>]) \subseteq LineSet(l)
        <3>1. /\ [l EXCEPT !.backup = <<>>].backup = <<>>
              /\ [l EXCEPT !.backup = <<>>].current = l.current
            BY DEF Log
        <3>. QED BY <1>1, <2>1, <3>1, LinesOfLog
    <2>3. LineSet([Writable(l) EXCEPT !.torn = TRUE]) \subseteq LineSet(l)
        <3>1. /\ [Writable(l) EXCEPT !.torn = TRUE].backup = Writable(l).backup
              /\ [Writable(l) EXCEPT !.torn = TRUE].current = Writable(l).current
            BY <1>2 DEF Log
        <3>. QED BY <1>2, <2>1, <3>1, LinesOfLog
    <2>. QED BY <1>2, <1>3, <2>2, <2>3 DEF FailedWrites
<1>4. ASSUME NEW line \in Line
      PROVE  LineSet(Appended(l, line)) = LineSet(Writable(l)) \cup {Glue(Writable(l), line)}
    <2>. DEFINE w == Writable(l)
                g == Glue(w, line)
    <2>1. g \in Line /\ w \in Log
        <3>1. [line EXCEPT !.outcome = "unreadable"] \in Line
            BY DEF Line, LineOutcomes
        <3>. QED BY <1>2, <3>1 DEF Glue
    <2>2. Appended(l, line) = [w EXCEPT !.current = Append(@, g), !.torn = FALSE]
        BY DEF Appended, Glue
    <2>. HIDE DEF w, g
    <2>3. /\ Appended(l, line).backup = w.backup
          /\ Appended(l, line).current = Append(w.current, g)
        BY <2>1, <2>2 DEF Log
    <2>4. Appended(l, line) \in Log
        BY AppendedIsLog
    <2>5. Elements(Append(w.current, g)) = Elements(w.current) \cup {g}
        BY <2>1, ElementsOfAppend DEF Log
    <2>. QED BY <2>1, <2>3, <2>4, <2>5, LinesOfLog DEF w, g
<1>. QED BY <1>2, <1>3, <1>4

\* The identifiers the loader retains, and the history variable records.
LEMMA RetainedFromLines ==
    ASSUME NEW l \in Log
    PROVE  /\ RetainedIds(l) = {x.id : x \in {y \in LineSet(l) : Tracked(y)}}
           /\ RecordedIds(l) = RetainedIds(l)
<1>1. \A x \in LineSet(l) : x \in Line
    BY LinesOfLog
<1>2. \A i \in DOMAIN Lines(l) : Lines(l)[i] \in LineSet(l)
    BY DEF LineSet, Elements
<1>3. \A x \in Line : Tracked(x) <=> x.outcome \in Answers \cup {"requested"}
    BY AdminActionsAssumption DEF Tracked, IdempotencyTracked, Line, LineOutcomes, Replies,
       Untracked, Answers, Refusals, ExecutionOutcomes
<1>4. RetainedIds(l) = {x.id : x \in {y \in LineSet(l) : Tracked(y)}}
    BY DEF RetainedIds, TrackedLines, Tracked, LineSet, Elements
<1>5. RecordedIds(l) = RetainedIds(l)
    <2>1. {j \in DOMAIN Lines(l) : Lines(l)[j].outcome \in Answers \cup {"requested"}}
            = TrackedLines(l)
        BY <1>1, <1>2, <1>3 DEF TrackedLines, Tracked
    <2>. QED BY <2>1 DEF RecordedIds, RetainedIds
<1>. QED BY <1>4, <1>5

-----------------------------------------------------------------------------
(* Loading *)

\* Every retained identifier has a first and a last line.
LEMMA LinesOfId ==
    ASSUME NEW l \in Log, NEW id \in RetainedIds(l)
    PROVE  /\ FirstMention(l, id) \in Nat
           /\ \E x \in LinesOf(l, id) :
                 LastLine(l, id) = Lines(l)[x] /\ \A y \in LinesOf(l, id) : y <= x
<1>. DEFINE T == LinesOf(l, id)
<1>1. Lines(l) \in Seq(Line)
    BY LinesOfLog
<1>2. T \in SUBSET Nat /\ \A x \in T : x <= Len(Lines(l))
    BY <1>1 DEF LinesOf, TrackedLines
<1>3. T # {}
    BY DEF RetainedIds, LinesOf
<1>4. \E x \in T : \A y \in T : x <= y
    BY <1>2, <1>3, Least
<1>5. \E x \in T : \A y \in T : y <= x
    <2>1. Len(Lines(l)) \in Nat
        BY <1>1
    <2>. QED BY <1>2, <1>3, <2>1, Greatest
<1>. HIDE DEF T
<1>6. (CHOOSE x \in T : \A y \in T : x <= y) \in T
    BY <1>4
<1>7. /\ (CHOOSE x \in T : \A y \in T : y <= x) \in T
      /\ \A y \in T : y <= (CHOOSE x \in T : \A z \in T : z <= x)
    BY <1>5
<1>. QED BY <1>2, <1>6, <1>7 DEF FirstMention, LastLine, T

\* The last one is one of the journal's readable lines and names the identifier.
LEMMA LastLineOfId ==
    ASSUME NEW l \in Log, NEW id \in RetainedIds(l)
    PROVE  LastLine(l, id) \in LineSet(l) /\ Tracked(LastLine(l, id)) /\ LastLine(l, id).id = id
<1>1. PICK x \in LinesOf(l, id) : LastLine(l, id) = Lines(l)[x]
    BY LinesOfId
<1>. QED BY <1>1 DEF LinesOf, TrackedLines, Tracked, LineSet, Elements

\* The journal retains finitely many identifiers.
LEMMA RetainedIsFinite ==
    ASSUME NEW l \in Log
    PROVE  IsFiniteSet(RetainedIds(l)) /\ Cardinality(RetainedIds(l)) \in Nat
<1>. DEFINE S == TrackedLines(l)
            f == [i \in S |-> Lines(l)[i].id]
<1>1. Lines(l) \in Seq(Line)
    BY LinesOfLog
<1>2. S \in SUBSET (1..Len(Lines(l)))
    BY <1>1 DEF TrackedLines
<1>3. IsFiniteSet(S)
    BY <1>1, <1>2, FS_Interval, FS_Subset
<1>4. f \in Surjection(S, RetainedIds(l))
    BY DEF Surjection, RetainedIds
<1>. QED BY <1>3, <1>4, FS_Surjection, FS_CardinalityType

\* The order they are loaded in names each of them once.
LEMMA LoadOrder ==
    ASSUME NEW l \in Log, NEW o \in LoadOrders(l)
    PROVE  /\ o \in Seq(RetainedIds(l)) /\ Len(o) = Cardinality(RetainedIds(l))
           /\ \A i, j \in DOMAIN o : o[i] = o[j] => i = j
           /\ Elements(o) = RetainedIds(l)
<1>. DEFINE R == RetainedIds(l)
            n == Cardinality(R)
            S == 1..n
<1>1. IsFiniteSet(R) /\ n \in Nat
    BY RetainedIsFinite
<1>2. /\ o \in [S -> R]
      /\ \A i, j \in DOMAIN o : i < j => FirstMention(l, o[i]) < FirstMention(l, o[j])
    BY DEF LoadOrders
<1>3. \A r \in R : FirstMention(l, r) \in Nat
    BY LinesOfId
<1>. HIDE DEF R
<1>4. \A i, j \in S : i < j => o[i] # o[j]
    BY <1>2, <1>3
<1>5. \A i, j \in S : o[i] = o[j] => i = j
    <2>. SUFFICES ASSUME NEW i \in S, NEW j \in S, o[i] = o[j] PROVE i = j
        OBVIOUS
    <2>1. ~(i < j) /\ ~(j < i) /\ i \in Int /\ j \in Int
        BY <1>1, <1>4
    <2>. QED BY <2>1
<1>6. o \in Injection(S, R)
    BY <1>2, <1>5 DEF Injection, IsInjective
<1>7. Cardinality(S) = n
    <2>1. \A k \in Nat : Cardinality(1..k) = k
        BY FS_Interval
    <2>. QED BY <1>1, <2>1
<1>8. o \in Surjection(S, R)
    BY <1>1, <1>6, <1>7, FS_Injection
<1>9. Elements(o) = R
    BY <1>2, <1>8 DEF Surjection, Elements
<1>10. o \in Seq(R) /\ Len(o) = n
    BY <1>1, <1>2
<1>. QED BY <1>2, <1>5, <1>9, <1>10 DEF R

\* Trimming keeps the newest, and all of them if there is room.
LEMMA NewestFacts ==
    ASSUME NEW S, NEW o \in Seq(S), \A i, j \in DOMAIN o : o[i] = o[j] => i = j
    PROVE  /\ Newest(o) \in Seq(S) /\ Len(Newest(o)) <= MaxIdempotencyRecords
           /\ \A i, j \in DOMAIN Newest(o) : Newest(o)[i] = Newest(o)[j] => i = j
           /\ Elements(Newest(o)) \subseteq Elements(o)
           /\ Len(o) <= MaxIdempotencyRecords => Newest(o) = o
<1>1. MaxIdempotencyRecords \in Nat /\ MaxIdempotencyRecords > 0
    BY AdminActionsAssumption
<1>2. CASE Len(o) <= MaxIdempotencyRecords
    BY <1>1, <1>2 DEF Newest
<1>3. CASE Len(o) > MaxIdempotencyRecords
    <2>. DEFINE k == Len(o) - MaxIdempotencyRecords
                n == SubSeq(o, k + 1, Len(o))
    <2>1. Newest(o) = n
        BY <1>3 DEF Newest
    <2>2. /\ k \in Nat /\ n \in Seq(S) /\ Len(n) = MaxIdempotencyRecords
          /\ \A i \in DOMAIN n : i \in Nat /\ i + k \in DOMAIN o /\ n[i] = o[i + k]
        BY <1>1, <1>3
    <2>. HIDE DEF k, n
    <2>3. \A i, j \in DOMAIN n : n[i] = n[j] => i = j
        <3>. SUFFICES ASSUME NEW i \in DOMAIN n, NEW j \in DOMAIN n, n[i] = n[j] PROVE i = j
            OBVIOUS
        <3>1. i + k = j + k
            BY <2>2
        <3>. QED BY <2>2, <3>1
    <2>4. Elements(n) \subseteq Elements(o)
        BY <2>2 DEF Elements
    <2>. QED BY <1>1, <1>3, <2>1, <2>2, <2>3, <2>4
<1>. QED BY <1>1, <1>2, <1>3

-----------------------------------------------------------------------------
(* The restart *)

\* The lines the loader reads are those of parsed requests.
LinesTyped ==
    \A x \in LineSet(log) : Tracked(x) => x.id \in RequestIds /\ x.payload \in Payloads

\* What the next life starts with: each entry of the ledger repeats a line.
Loaded(i, x) ==
    /\ x \in LineSet(log) /\ Tracked(x) /\ x.id = i /\ x = LastLine(log, i)
    /\ ledger'[i] = [payload |-> x.payload, cell |-> i]
    /\ shared'[i] = [FreshResult EXCEPT !.response = LoadedOutcome(x)]

LEMMA LoadEffect ==
    ASSUME IInv, LinesTyped, Load
    PROVE  /\ DOMAIN ledger' \subseteq RetainedIds(log) /\ DOMAIN ledger' \subseteq RequestIds
           /\ \A i \in DOMAIN ledger' : \E x : Loaded(i, x)
           /\ \A k \in Cells \ DOMAIN ledger' : shared'[k] = FreshResult
           /\ DOMAIN shared' = Cells
           /\ Cardinality(RetainedIds(log)) <= MaxIdempotencyRecords =>
                 DOMAIN ledger' = RetainedIds(log)
           /\ order' \in Seq(RequestIds) /\ LedgerMatchesOrder'
<1>1. PICK o \in LoadOrders(log) :
        /\ order' = Newest(o)
        /\ ledger' = [i \in Elements(Newest(o)) |->
                         [payload |-> LastLine(log, i).payload, cell |-> i]]
        /\ shared' = [k \in Cells |->
                         IF k \in Elements(Newest(o))
                         THEN [FreshResult EXCEPT !.response = LoadedOutcome(LastLine(log, k))]
                         ELSE FreshResult]
    BY DEF Load
<1>2. log \in Log
    BY DEF IInv, TypeOK
<1>. DEFINE R == RetainedIds(log)
<1>3. R \subseteq RequestIds
    BY <1>2, RetainedFromLines DEF LinesTyped
<1>4. /\ o \in Seq(R) /\ Len(o) = Cardinality(R) /\ Elements(o) = R
      /\ \A i, j \in DOMAIN o : o[i] = o[j] => i = j
    BY <1>2, LoadOrder
<1>. DEFINE n == Newest(o)
<1>. HIDE DEF R
<1>5. /\ n \in Seq(R) /\ Len(n) <= MaxIdempotencyRecords
      /\ \A i, j \in DOMAIN n : n[i] = n[j] => i = j
      /\ Elements(n) \subseteq R
      /\ Len(o) <= MaxIdempotencyRecords => n = o
    BY <1>4, NewestFacts
<1>. HIDE DEF n
<1>6. DOMAIN ledger' = Elements(n)
    BY <1>1 DEF n
<1>7. ASSUME NEW i \in DOMAIN ledger' PROVE \E x : Loaded(i, x)
    <2>1. i \in RetainedIds(log) /\ i \in Cells
        BY <1>3, <1>5, <1>6, <1>7 DEF Cells, R
    <2>2. /\ LastLine(log, i) \in LineSet(log) /\ Tracked(LastLine(log, i))
          /\ LastLine(log, i).id = i
        BY <1>2, <2>1, LastLineOfId
    <2>3. /\ ledger'[i] = [payload |-> LastLine(log, i).payload, cell |-> i]
          /\ shared'[i] = [FreshResult EXCEPT !.response = LoadedOutcome(LastLine(log, i))]
        BY <1>1, <1>6, <1>7, <2>1 DEF n
    <2>. QED BY <2>2, <2>3 DEF Loaded
<1>8. \A k \in Cells \ DOMAIN ledger' : shared'[k] = FreshResult
    BY <1>1, <1>6 DEF n
<1>9. DOMAIN shared' = Cells
    BY <1>1
<1>10. order' = n
    BY <1>1 DEF n
<1>11. order' \in Seq(RequestIds)
    <2>1. \A i \in DOMAIN n : n[i] \in RequestIds
        BY <1>3, <1>5
    <2>. QED BY <1>5, <1>10, <2>1
<1>12. LedgerMatchesOrder'
    BY <1>5, <1>6, <1>10 DEF LedgerMatchesOrder
<1>13. Cardinality(R) <= MaxIdempotencyRecords => Elements(n) = R
    BY <1>4, <1>5
<1>. QED BY <1>3, <1>5, <1>6, <1>7, <1>8, <1>9, <1>11, <1>12, <1>13 DEF R

\* The answer of an entry is that of a line, or unknown.
LEMMA LoadedAnswer ==
    ASSUME IInv, NEW i, NEW x, Loaded(i, x)
    PROVE  /\ LoadedOutcome(x) \in Answers
           /\ shared'[i].response = LoadedOutcome(x)
           /\ ~shared'[i].claimed /\ ~shared'[i].cancelled
           /\ LoadedOutcome(x) # "action_outcome_unknown" => x.outcome = LoadedOutcome(x)
<1>1. x \in Line
    BY LinesOfLog DEF IInv, TypeOK, Loaded
<1>2. x.outcome \in Answers \cup {"requested"}
    BY <1>1 DEF Loaded, Tracked, IdempotencyTracked, Line, LineOutcomes, Replies
<1>. QED BY <1>2 DEF Loaded, LoadedOutcome, FreshResult, Answers

\* The invariant of the service survives the end of the process.
LEMMA RestartKeepsInv ==
    ASSUME IInv, LinesTyped, Restart
    PROVE  IInv'
<1>1. /\ pc' = [c \in Calls |-> IF pc[c] \in {"idle", "done"} THEN pc[c] ELSE "lost"]
      /\ reply' = [c \in Calls |-> IF pc[c] = "done" THEN reply[c] ELSE None]
      /\ Load
      /\ pending' = <<>> /\ abandoned' = <<>> /\ stopping' = FALSE
      /\ gpc' = "idle" /\ current' = None /\ execution' = None /\ processed' = 0
      /\ request' = request /\ cell' = cell /\ log' = log /\ runs' = runs
    BY DEF Restart
<1>2. DOMAIN ledger' \subseteq RequestIds
    BY <1>1, LoadEffect
<1>3. ASSUME NEW c \in Calls PROVE shared'[c] = FreshResult
    BY <1>1, <1>2, LoadEffect, AdminActionsAssumption DEF Cells
<1>4. TypeOK'
    <2>1. \A i \in DOMAIN ledger' : ledger'[i] \in [payload : Payloads, cell : Cells]
        <3>. SUFFICES ASSUME NEW i \in DOMAIN ledger'
                      PROVE  ledger'[i] \in [payload : Payloads, cell : Cells]
            OBVIOUS
        <3>1. PICK x : Loaded(i, x)
            BY <1>1, LoadEffect
        <3>. QED BY <1>2, <3>1 DEF Loaded, LinesTyped, Cells
    <2>2. ledger' = [i \in DOMAIN ledger' |-> ledger'[i]]
        BY <1>1 DEF Load
    <2>3. ledger' \in [DOMAIN ledger' -> [payload : Payloads, cell : Cells]]
        BY <2>1, <2>2
    <2>4. ledger' \in Ledgers
        BY <1>2, <2>3 DEF Ledgers
    <2>5. shared' = [k \in Cells |-> shared'[k]]
        BY <1>1 DEF Load
    <2>a. /\ FreshResult \in SharedResults
          /\ \A a \in Answers : [FreshResult EXCEPT !.response = a] \in SharedResults
        BY DEF FreshResult, SharedResults
    <2>6. ASSUME NEW k \in Cells PROVE shared'[k] \in SharedResults
        <3>1. CASE k \in DOMAIN ledger'
            <4>1. PICK x : Loaded(k, x)
                BY <1>1, <3>1, LoadEffect
            <4>2. LoadedOutcome(x) \in Answers
                BY <4>1, LoadedAnswer
            <4>. QED BY <2>a, <4>1, <4>2 DEF Loaded
        <3>2. CASE k \notin DOMAIN ledger'
            BY <1>1, <2>a, <3>2, LoadEffect
        <3>. QED BY <3>1, <3>2
    <2>7. shared' \in [Cells -> SharedResults]
        BY <2>5, <2>6
    <2>8. order' \in Seq(RequestIds)
        BY <1>1, LoadEffect
    <2>9. pc' \in [Calls -> Labels] /\ reply' \in [Calls -> Replies \cup {None}]
        BY <1>1 DEF IInv, TypeOK, Labels
    <2>10. processed' \in 0..MaxActions
        BY <1>1, AdminActionsAssumption
    <2>11. /\ request \in [Calls -> Requests \cup {None}] /\ cell \in [Calls -> Cells \cup {None}]
           /\ log \in Log /\ runs \in [Calls -> Seq(ExecutionOutcomes)]
        BY DEF IInv, TypeOK
    <2>12. /\ request' \in [Calls -> Requests \cup {None}] /\ cell' \in [Calls -> Cells \cup {None}]
           /\ log' \in Log /\ runs' \in [Calls -> Seq(ExecutionOutcomes)]
        BY <1>1, <2>11
    <2>13. /\ pending' \in Seq(Calls) /\ abandoned' \in Seq(Calls) /\ stopping' \in BOOLEAN
           /\ gpc' \in {"idle", "pop", "claim", "execute", "complete"}
           /\ current' \in Calls \cup {None} /\ execution' \in ExecutionOutcomes \cup {None}
        <3>1. <<>> \in Seq(Calls)
            OBVIOUS
        <3>. QED BY <1>1, <3>1
    <2>. QED BY <2>4, <2>7, <2>8, <2>9, <2>10, <2>12, <2>13 DEF TypeOK
<1>5. WellFormed'
    BY <1>1 DEF IInv, WellFormed, TypeOK
<1>6. CellsOwned'
    <2>1. ASSUME NEW c \in Calls PROVE OwnsCell(c)'
        BY <1>1 DEF IInv, CellsOwned, OwnsCell
    <2>2. ASSUME NEW i \in DOMAIN ledger' PROVE EntryOwned(i)'
        <3>1. PICK x : Loaded(i, x)
            BY <1>1, LoadEffect
        <3>. QED BY <3>1 DEF Loaded, EntryOwned
    <2>. QED BY <2>1, <2>2 DEF CellsOwned
<1>7. UntouchedBeforeDispatch'
    BY <1>1, <1>3 DEF IInv, UntouchedBeforeDispatch
<1>8. QueuesHoldUnstarted'
    BY <1>1 DEF QueuesHoldUnstarted
<1>9. InHand'
    BY <1>1 DEF InHand
<1>10. CellsTruthful'
    BY <1>1, <1>3, AdminActionsAssumption DEF CellsTruthful, CellTruthful, FreshResult, LineOutcomes,
       Replies, Answers
<1>11. RepliesFollowCells'
    <2>. SUFFICES ASSUME NEW c \in Calls PROVE ReplyFollowsCell(c)'
        BY DEF RepliesFollowCells
    <2>1. CASE reply'[c] = None
        BY <2>1, AdminActionsAssumption DEF ReplyFollowsCell, LineOutcomes, Replies
    <2>2. CASE reply'[c] = reply[c]
        <3>1. ReplyFollowsCell(c)
            BY DEF IInv, RepliesFollowCells
        <3>2. cell[c] \in Calls => Over(cell[c])'
            <4>. SUFFICES ASSUME cell[c] \in Calls PROVE Over(cell[c])'
                OBVIOUS
            <4>1. cell[cell[c]] = cell[c] /\ cell[c] # None
                BY AdminActionsAssumption DEF IInv, CellsOwned, OwnsCell
            <4>2. pc[cell[c]] # "idle"
                BY <4>1 DEF IInv, CellsOwned, OwnsCell
            <4>. QED BY <1>1, <1>3, <4>2 DEF Over, FreshResult
        <3>. QED BY <1>1, <2>2, <3>1, <3>2 DEF ReplyFollowsCell
    <2>. QED BY <1>1, <2>1, <2>2
<1>. QED BY <1>4, <1>5, <1>6, <1>7, <1>8, <1>9, <1>10, <1>11 DEF IInv

-----------------------------------------------------------------------------
(* What a step within one life forgets *)

Forgets ==
    /\ forgettable \subseteq forgettable'
    /\ DOMAIN ledger \ DOMAIN ledger' \subseteq forgettable'
    /\ RetainedIds(log) \ RetainedIds(log)' \subseteq forgettable'
    /\ \A c \in Calls : Accept(c) /\ log.torn /\ ~Full(log) => request[c].id \in forgettable'

Lives == [Next]_vars /\ Forgets

LEMMA StepsLive ==
    ASSUME IInv, (Next /\ ForgetBetweenRestarts) \/ UNCHANGED allVars
    PROVE  Lives
<1>1. CASE UNCHANGED allVars
    BY <1>1 DEF allVars, vars, ledgerVars, callVars, Lives, Forgets, Accept, Goto, IInv, TypeOK
<1>2. CASE Next /\ ForgetBetweenRestarts
    <2>1. log \in Log /\ log' \in Log
        BY <1>2, NextKeepsInv DEF IInv, TypeOK
    <2>2. RecordedIds(log) = RetainedIds(log) /\ RecordedIds(log') = RetainedIds(log')
        BY <2>1, RetainedFromLines
    <2>3. \A c \in Calls : Accept(c) => pc[c] = "accept" /\ pc'[c] = "enqueue"
        BY DEF Accept, Goto, IInv, TypeOK
    <2>. QED BY <1>2, <2>2, <2>3 DEF ForgetBetweenRestarts, Glued, Lives, Forgets
<1>. QED BY <1>1, <1>2

\* The lines the loader will read are those it would have read, and the one
\* that is written now.
LEMMA NewLines ==
    ASSUME IInv, [Next]_vars, NEW x \in LineSet(log)', Tracked(x)
    PROVE  \/ x \in LineSet(log)
           \/ \E c \in Calls :
                 x = [id |-> request[c].id, payload |-> request[c].payload, outcome |-> x.outcome]
                 /\ (\/ (Accept(c) /\ x.outcome = "requested")
                     \/ (AuditReply(c) /\ x.outcome = reply[c]))
<1>1. log \in Log
    BY DEF IInv, TypeOK
<1>2. CASE log' = log
    BY <1>2
<1>3. CASE log' # log
    <2>1. \/ log' \in FailedWrites(log)
          \/ \E c \in Calls, line \in Line : log' = Appended(log, line) /\ LineOf(c, line)
        BY <1>3, LogStep
    <2>2. CASE log' \in FailedWrites(log)
        BY <1>1, <2>2, LinesOfWrites
    <2>3. ASSUME NEW c \in Calls, NEW line \in Line, log' = Appended(log, line), LineOf(c, line),
                 x \notin LineSet(log)
          PROVE  x = [id |-> request[c].id, payload |-> request[c].payload, outcome |-> x.outcome]
                 /\ (\/ (Accept(c) /\ x.outcome = "requested")
                     \/ (AuditReply(c) /\ x.outcome = reply[c]))
        <3>1. x = Glue(Writable(log), line)
            BY <1>1, <2>3, LinesOfWrites
        <3>2. x = line
            BY <3>1 DEF Glue, Tracked, IdempotencyTracked, Line
        <3>3. line.outcome \notin Untracked
            BY <3>2 DEF Tracked, IdempotencyTracked
        <3>. QED BY <2>3, <3>2, <3>3 DEF LineOf
    <2>. QED BY <2>1, <2>2, <2>3
<1>. QED BY <1>2, <1>3

\* What AuditReply and Accept know of the call that writes.
LEMMA Writer ==
    ASSUME IInv, NEW c \in Calls, Accept(c) \/ AuditReply(c)
    PROVE  /\ request[c] \in Requests /\ cell[c] # None
           /\ Accept(c) => pc[c] = "accept" /\ cell[c] = c
           /\ AuditReply(c) => pc[c] = "audit" /\ reply[c] \in Answers
BY AdminActionsAssumption DEF Accept, AuditReply, IInv, WellFormed, CellsOwned, OwnsCell

LEMMA NextKeepsLinesTyped ==
    ASSUME IInv, LinesTyped, [Next]_vars
    PROVE  LinesTyped'
<1>. SUFFICES ASSUME NEW x \in LineSet(log)', Tracked(x)
              PROVE  x.id \in RequestIds /\ x.payload \in Payloads
    BY DEF LinesTyped, Tracked, IdempotencyTracked
<1>1. CASE x \in LineSet(log)
    BY <1>1 DEF LinesTyped
<1>2. ASSUME NEW c \in Calls, Accept(c) \/ AuditReply(c),
             x = [id |-> request[c].id, payload |-> request[c].payload, outcome |-> x.outcome]
      PROVE  x.id \in RequestIds /\ x.payload \in Payloads
    <2>1. request[c] \in Requests
        BY <1>2, Writer
    <2>. QED BY <1>2, <2>1 DEF Requests
<1>. QED BY <1>1, <1>2, NewLines

-----------------------------------------------------------------------------
(* The ledger knows what the journal tells, or had to forget it *)

\* A call that may still be answered, or whose request may still be run.
Busy(c) ==
    pc[c] \in {"gates", "accept", "enqueue", "waiting", "replaying", "audit"} \/ InPlay(c)

LEMMA BusyOwnsCell ==
    ASSUME IInv, NEW c \in Calls, Busy(c)
    PROVE  /\ cell[c] # None /\ pc[c] \notin {"idle", "lookup"}
           /\ InPlay(c) => cell[c] = c
<1>1. ASSUME InPlay(c) PROVE cell[c] = c
    <2>1. CASE pc[c] \in {"enqueue", "waiting"}
        BY <2>1 DEF IInv, CellsOwned, OwnsCell
    <2>2. CASE c \in Elements(pending) \cup Elements(abandoned)
        BY <2>2 DEF Elements, IInv, QueuesHoldUnstarted, Dispatched
    <2>3. CASE c = current
        BY <2>3, AdminActionsAssumption DEF IInv, InHand, Dispatched, WellFormed, TypeOK
    <2>. QED BY <1>1, <2>1, <2>2, <2>3 DEF InPlay
<1>2. None \notin Calls
    BY AdminActionsAssumption
<1>3. cell[c] # None
    BY <1>1, <1>2 DEF Busy, IInv, CellsOwned, OwnsCell
<1>. QED BY <1>1, <1>3 DEF IInv, CellsOwned, OwnsCell

\* A call becomes busy when it is given a cell, and in no other way.
LEMMA BusyFromLedger ==
    ASSUME IInv, LedgerMatchesOrder, [Next]_vars, NEW c \in Calls, Busy(c)'
    PROVE  Busy(c) \/ HoldsEntry(c)'
<1>1. CASE cell'[c] # cell[c]
    BY <1>1, CellsFromLedger
<1>2. CASE cell'[c] = cell[c] /\ InPlay(c)'
    BY <1>2, InPlayFromAccept DEF Busy, Accept
<1>3. CASE cell'[c] = cell[c] /\ ~Busy(c)
          /\ pc'[c] \in {"gates", "accept", "enqueue", "waiting", "replaying", "audit"}
    <2>1. cell'[c] # None
        BY <1>3, NextKeepsInv, BusyOwnsCell, AdminActionsAssumption DEF IInv, CellsOwned, OwnsCell
    <2>2. pc[c] \notin {"idle", "lookup"}
        BY <1>3, <2>1 DEF IInv, CellsOwned, OwnsCell
    <2>3. pc[c] \in {"done", "lost"}
        BY <1>3, <2>2 DEF Busy, IInv, TypeOK, Labels
    <2>4. ASSUME NEW d \in Calls, Handle(d) PROVE d # c
        BY <2>3, <2>4 DEF Handle, RejectUnauthenticated, RejectMalformed, Parse, RejectConflict,
           JoinOriginal, Admit, RefuseDisabled, RefuseUnsupported, PassGates, Accept,
           RefuseUnaudited, Enqueue, RefuseStopping, Answered, TimeOut, ReplayAnswer, AuditReply
    <2>5. pc'[c] = pc[c]
        <3>1. ASSUME NEW d \in Calls, Handle(d) PROVE pc'[c] = pc[c]
            BY <2>4, <3>1, OneCallMoves
        <3>2. CASE pc' = pc
            BY <3>2
        <3>. QED BY <3>1, <3>2 DEF Next, BeginTick, GameThread, EndTick, Pop, Skip, Claim,
           Execute, Publish, StopAccepting, AnswerAbandoned, callVars, vars
    <2>. QED BY <1>3, <2>3, <2>5
<1>. QED BY <1>1, <1>2, <1>3 DEF Busy

\* The parts of the invariant that relate ledger, journal and history.
RetainedKnown == RetainedIds(log) \subseteq DOMAIN ledger \cup forgettable
BusyHeld(c) == Busy(c) => request[c].id \in forgettable \/ HoldsEntry(c)
PlayRecorded(c) == InPlay(c) => request[c].id \in forgettable \cup RetainedIds(log)
RunRecorded(c) ==
    runs[c] # <<>> =>
        \/ request[c].id \in forgettable
        \/ /\ request[c].id \in DOMAIN ledger \cap RetainedIds(log)
           /\ ledger[request[c].id].cell \in {c, request[c].id}

Remembered ==
    /\ LedgerMatchesOrder
    /\ LinesTyped
    /\ RetainedKnown
    /\ \A c \in Calls : BusyHeld(c) /\ PlayRecorded(c) /\ RunRecorded(c)

\* A line that is written now makes its identifier retained, unless it is glued.
LEMMA AcceptRecords ==
    ASSUME IInv, Lives, NEW c \in Calls, Accept(c)
    PROVE  request[c].id \in forgettable' \cup RetainedIds(log)'
<1>. DEFINE line == [id |-> request[c].id, payload |-> request[c].payload, outcome |-> "requested"]
<1>1. log' = Appended(log, line) /\ log \in Log /\ log' \in Log
    BY NextKeepsInv DEF Accept, AuditSucceeds, IInv, TypeOK, Lives
<1>2. line \in Line
    <2>1. request[c] \in Requests
        BY Writer
    <2>. QED BY <2>1 DEF Requests, Line, LineOutcomes
<1>3. CASE log.torn /\ ~Full(log)
    BY <1>3 DEF Lives, Forgets
<1>4. CASE ~(log.torn /\ ~Full(log))
    <2>1. Glue(Writable(log), line) = line
        BY <1>4 DEF Glue, Writable, Rotated
    <2>2. line \in LineSet(log')
        BY <1>1, <1>2, <2>1, LinesOfWrites
    <2>3. Tracked(line) /\ line.id = request[c].id
        BY DEF Tracked, IdempotencyTracked, Untracked
    <2>4. request[c].id \in RetainedIds(log')
        BY <1>1, <2>2, <2>3, RetainedFromLines
    <2>. QED BY <2>4
<1>. QED BY <1>3, <1>4

LEMMA StepRemembers ==
    ASSUME IInv, Remembered, Lives
    PROVE  Remembered'
<1>0. /\ [Next]_vars /\ Forgets /\ LedgerMatchesOrder /\ LinesTyped /\ RetainedKnown
      /\ \A c \in Calls : BusyHeld(c) /\ PlayRecorded(c) /\ RunRecorded(c)
    BY DEF Lives, Remembered
<1>1. LedgerMatchesOrder' /\ LinesTyped'
    BY <1>0, NextKeepsLedger, NextKeepsLinesTyped
<1>a. log \in Log /\ log' \in Log
    BY <1>0, NextKeepsInv DEF IInv, TypeOK
<1>2. RetainedKnown'
    <2>. SUFFICES ASSUME NEW i \in RetainedIds(log') PROVE i \in DOMAIN ledger' \cup forgettable'
        BY DEF RetainedKnown
    <2>1. CASE i \in RetainedIds(log)
        BY <1>0, <2>1 DEF RetainedKnown, Forgets
    <2>2. CASE i \notin RetainedIds(log)
        <3>1. PICK x \in LineSet(log') : Tracked(x) /\ x.id = i
            BY <1>a, RetainedFromLines
        <3>2. x \notin LineSet(log)
            BY <1>a, <2>2, <3>1, RetainedFromLines
        <3>3. PICK c \in Calls : i = request[c].id /\ (Accept(c) \/ AuditReply(c))
            BY <1>0, <3>1, <3>2, NewLines
        <3>4. BusyHeld(c) /\ Busy(c)
            BY <1>0, <3>3 DEF Accept, AuditReply, Busy
        <3>. QED BY <1>0, <3>3, <3>4 DEF BusyHeld, HoldsEntry, Forgets
    <2>. QED BY <2>1, <2>2
<1>3. ASSUME NEW c \in Calls PROVE BusyHeld(c)'
    <2>1. CASE Busy(c)
        <3>1. cell[c] # None /\ pc[c] \notin {"idle", "lookup"}
            BY <2>1, BusyOwnsCell
        <3>2. request'[c] = request[c]
            BY <1>0, <3>1, RequestStays
        <3>3. CASE request[c].id \in forgettable
            BY <1>0, <3>2, <3>3 DEF BusyHeld, Forgets
        <3>4. CASE HoldsEntry(c)
            BY <1>0, <3>1, <3>2, <3>4, EntryHeld DEF BusyHeld, Forgets, HoldsEntry
        <3>. QED BY <1>0, <2>1, <3>3, <3>4 DEF BusyHeld
    <2>2. CASE ~Busy(c)
        BY <1>0, <2>2, BusyFromLedger DEF BusyHeld
    <2>. QED BY <2>1, <2>2
<1>4. ASSUME NEW c \in Calls PROVE PlayRecorded(c)'
    <2>1. CASE InPlay(c)
        <3>1. pc[c] # "idle"
            BY <2>1, BusyOwnsCell DEF Busy
        <3>2. request'[c] = request[c]
            BY <1>0, <3>1, RequestStays
        <3>. QED BY <1>0, <2>1, <3>2 DEF PlayRecorded, Forgets
    <2>2. CASE Accept(c)
        <3>1. request' = request
            BY <2>2 DEF Accept
        <3>. QED BY <2>2, <3>1, AcceptRecords DEF PlayRecorded
    <2>3. CASE ~InPlay(c)'
        BY <2>3 DEF PlayRecorded
    <2>. QED BY <1>0, <2>1, <2>2, <2>3, InPlayFromAccept
<1>5. ASSUME NEW c \in Calls PROVE RunRecorded(c)'
    <2>1. CASE runs'[c] = runs[c] /\ runs[c] # <<>>
        <3>1. pc[c] # "idle"
            BY <2>1, AdminActionsAssumption DEF IInv, UntouchedBeforeDispatch, CellsOwned, OwnsCell
        <3>2. request'[c] = request[c]
            BY <1>0, <3>1, RequestStays
        <3>. QED BY <1>0, <2>1, <3>2, EntriesStay DEF RunRecorded, Forgets
    <2>2. CASE runs'[c] # runs[c]
        <3>1. Execute /\ InPlay(c) /\ c = current
            BY <1>0, <2>2, RunInPlay
        <3>2. UNCHANGED <<request, ledger, log>>
            BY <3>1 DEF Execute, callVars, ledgerVars
        <3>3. Busy(c) /\ cell[c] = c
            BY <3>1, BusyOwnsCell DEF Busy
        <3>4. \/ request[c].id \in forgettable
              \/ HoldsEntry(c) /\ request[c].id \in RetainedIds(log)
            BY <1>0, <3>1, <3>3 DEF BusyHeld, PlayRecorded
        <3>. QED BY <1>0, <3>2, <3>3, <3>4 DEF RunRecorded, HoldsEntry, Forgets
    <2>3. CASE runs'[c] = <<>>
        BY <2>3 DEF RunRecorded
    <2>. QED BY <2>1, <2>2, <2>3
<1>. QED BY <1>1, <1>2, <1>3, <1>4, <1>5 DEF Remembered

\* Loading a journal leaves nothing out, unless it holds too many identifiers.
LEMMA RestartRemembers ==
    ASSUME IInv, Remembered, Restart, ForgetAtRestart
    PROVE  Remembered'
<1>1. /\ pc' = [c \in Calls |-> IF pc[c] \in {"idle", "done"} THEN pc[c] ELSE "lost"]
      /\ Load
      /\ pending' = <<>> /\ abandoned' = <<>> /\ current' = None
      /\ request' = request /\ log' = log /\ runs' = runs
    BY DEF Restart
<1>2. /\ LinesTyped /\ \A c \in Calls : RunRecorded(c)
    BY DEF Remembered
<1>3. /\ DOMAIN ledger' \subseteq RetainedIds(log)
      /\ \A i \in DOMAIN ledger' : \E x : Loaded(i, x)
      /\ Cardinality(RetainedIds(log)) <= MaxIdempotencyRecords =>
            DOMAIN ledger' = RetainedIds(log)
      /\ LedgerMatchesOrder'
    BY <1>1, <1>2, LoadEffect
<1>4. LinesTyped'
    BY <1>1, <1>2 DEF LinesTyped
<1>5. forgettable \subseteq forgettable'
    BY DEF ForgetAtRestart
<1>6. RetainedIds(log) \subseteq DOMAIN ledger' \cup forgettable'
    <2>1. Cardinality(RetainedIds(log)) \in Nat /\ MaxIdempotencyRecords \in Nat
        BY RetainedIsFinite, AdminActionsAssumption DEF IInv, TypeOK
    <2>2. CASE Cardinality(RetainedIds(log)) > MaxIdempotencyRecords
        BY <2>2 DEF ForgetAtRestart
    <2>. QED BY <1>3, <2>1, <2>2
<1>7. RetainedKnown'
    BY <1>1, <1>6 DEF RetainedKnown
<1>8. ASSUME NEW c \in Calls PROVE ~Busy(c)'
    <2>1. pc'[c] \in {"idle", "done", "lost"}
        BY <1>1
    <2>2. Elements(<<>>) = {} /\ c # None
        BY AdminActionsAssumption DEF Elements
    <2>. QED BY <1>1, <2>1, <2>2 DEF Busy, InPlay
<1>9. ASSUME NEW c \in Calls PROVE RunRecorded(c)'
    <2>1. ASSUME NEW i \in RetainedIds(log) PROVE i \in forgettable' \/ ledger'[i].cell = i
        <3>1. CASE i \in DOMAIN ledger'
            <4>1. PICK x : Loaded(i, x)
                BY <1>3, <3>1
            <4>. QED BY <4>1 DEF Loaded
        <3>. QED BY <1>6, <3>1
    <2>. QED BY <1>1, <1>2, <1>5, <1>6, <2>1 DEF RunRecorded
<1>. QED BY <1>3, <1>4, <1>7, <1>8, <1>9 DEF Remembered, BusyHeld, PlayRecorded, Busy

\* What was loaded is an answer: nobody waits for it.
LEMMA RestartKeepsCellsLive ==
    ASSUME IInv, LinesTyped, Restart
    PROVE  CellsLive'
<1>1. \A i \in DOMAIN ledger' : \E x : Loaded(i, x)
    BY LoadEffect DEF Restart
<1>2. ASSUME NEW i \in DOMAIN ledger' PROVE LiveCell(ledger[i].cell)'
    <2>1. PICK x : Loaded(i, x)
        BY <1>1
    <2>2. shared'[i].response \in Answers /\ ledger'[i].cell = i
        BY <2>1, LoadedAnswer DEF Loaded
    <2>3. shared'[i].response # None
        BY <2>2, AdminActionsAssumption DEF LineOutcomes, Replies
    <2>. QED BY <2>2, <2>3 DEF LiveCell
<1>3. \A c \in Calls : pc'[c] # "replaying"
    BY DEF Restart
<1>. QED BY <1>2, <1>3 DEF CellsLive

-----------------------------------------------------------------------------
(* At most once, over all lives *)

\* A call whose request was run has its own cell and keeps its request.
LEMMA RunKeepsRequest ==
    ASSUME IInv, NEW c \in Calls, runs[c] # <<>>
    PROVE  /\ cell[c] = c /\ pc[c] # "idle" /\ request[c] \in Requests
           /\ [Next]_vars => request'[c] = request[c]
<1>1. cell[c] = c /\ c # None
    BY AdminActionsAssumption DEF IInv, UntouchedBeforeDispatch
<1>2. pc[c] # "idle" /\ request[c] \in Requests
    BY <1>1 DEF IInv, CellsOwned, OwnsCell
<1>. QED BY <1>1, <1>2, RequestStays

\* A second run of an identifier would need an entry that the first one holds.
LEMMA StepKeepsAtMostOnce ==
    ASSUME IInv, Remembered, RanOnce, AtMostOnceUnlessForgotten, Lives
    PROVE  AtMostOnceUnlessForgotten'
<1>0. [Next]_vars /\ forgettable \subseteq forgettable'
    BY DEF Lives, Forgets
<1>1. ASSUME NEW c \in Calls, NEW d \in Calls, c # d, runs[c] # <<>>, runs'[d] # <<>>,
             request'[c].id = request'[d].id
      PROVE  request'[c].id \in forgettable'
    <2>1. request'[c] = request[c] /\ request[c].id \in RequestIds
        BY <1>0, <1>1, RunKeepsRequest DEF Requests
    <2>2. CASE runs'[d] = runs[d]
        <3>1. request'[d] = request[d]
            BY <1>0, <1>1, <2>2, RunKeepsRequest
        <3>. QED BY <1>0, <1>1, <2>1, <2>2, <3>1 DEF AtMostOnceUnlessForgotten
    <2>3. CASE runs'[d] # runs[d]
        <3>1. Execute /\ InPlay(d)
            BY <1>0, <2>3, RunInPlay
        <3>2. request'[d] = request[d]
            BY <3>1 DEF Execute, callVars
        <3>3. Busy(d) /\ cell[d] = d
            BY <3>1, BusyOwnsCell DEF Busy
        <3>4. request[d].id \in forgettable \/ ledger[request[d].id].cell = d
            BY <3>3 DEF Remembered, BusyHeld, HoldsEntry
        <3>5. request[c].id \in forgettable \/ ledger[request[c].id].cell \in {c, request[c].id}
            BY <1>1 DEF Remembered, RunRecorded
        <3>6. d # request[c].id
            BY <2>1, AdminActionsAssumption
        <3>. QED BY <1>0, <1>1, <2>1, <3>2, <3>4, <3>5, <3>6
    <2>. QED BY <2>2, <2>3
<1>2. ASSUME NEW c \in Calls, NEW d \in Calls, c # d, runs'[c] # runs[c], runs'[d] # runs[d]
      PROVE  FALSE
    BY <1>0, <1>2, RunInPlay
<1>3. RanOnce'
    BY <1>0, NextKeepsRanOnce
<1>4. ASSUME NEW c \in Calls, NEW d \in Calls, c # d, runs'[c] # <<>>, runs'[d] # <<>>,
             request'[c].id = request'[d].id
      PROVE  request'[c].id \in forgettable'
    BY <1>1, <1>2, <1>4
<1>. QED BY <1>3, <1>4 DEF AtMostOnceUnlessForgotten, RanOnce

-----------------------------------------------------------------------------
(* The invariant over all lives *)

RInv == IInv /\ Remembered /\ CellsLive /\ RanOnce /\ AtMostOnceUnlessForgotten

LEMMA RestartInitHasInv == RestartInit => RInv
<1>. SUFFICES ASSUME RestartInit PROVE RInv
    OBVIOUS
<1>1. Init
    BY DEF RestartInit
<1>2. IInv
    BY <1>1, InitHasInv
<1>3. CellsLive /\ RanOnce /\ AtMostOnceUnlessForgotten
    BY <1>1 DEF Init, CellsLive, RanOnce, AtMostOnceUnlessForgotten
<1>4. LedgerMatchesOrder
    BY <1>1, AdminActionsAssumption DEF Init, LedgerMatchesOrder, Elements
<1>5. LineSet(log) = {}
    BY <1>1 DEF Init, EmptyLog, LineSet, Lines, Elements
<1>6. RetainedIds(log) = {} /\ LinesTyped
    <2>1. log \in Log
        BY <1>2 DEF IInv, TypeOK
    <2>. QED BY <1>5, <2>1, RetainedFromLines DEF LinesTyped
<1>7. ASSUME NEW c \in Calls PROVE ~Busy(c) /\ runs[c] = <<>>
    <2>1. Elements(<<>>) = {} /\ c # None
        BY AdminActionsAssumption DEF Elements
    <2>. QED BY <1>1, <2>1 DEF Init, Busy, InPlay
<1>8. Remembered
    BY <1>4, <1>6, <1>7 DEF Remembered, RetainedKnown, BusyHeld, PlayRecorded, RunRecorded, Busy
<1>. QED BY <1>2, <1>3, <1>8 DEF RInv

LEMMA RestartNextKeepsInv == RInv /\ [RestartNext]_allVars => RInv'
<1>. SUFFICES ASSUME RInv, [RestartNext]_allVars PROVE RInv'
    OBVIOUS
<1>0. IInv /\ Remembered /\ LedgerMatchesOrder /\ LinesTyped
    BY DEF RInv, Remembered
<1>1. CASE (Next /\ ForgetBetweenRestarts) \/ UNCHANGED allVars
    <2>1. Lives /\ [Next]_vars
        BY <1>0, <1>1, StepsLive DEF Lives
    <2>. QED BY <1>0, <2>1, NextKeepsInv, StepRemembers, NextKeepsCellsLive, NextKeepsRanOnce,
       StepKeepsAtMostOnce DEF RInv
<1>2. CASE Restart /\ ForgetAtRestart
    <2>1. UNCHANGED <<request, runs>> /\ forgettable \subseteq forgettable'
        BY <1>2 DEF Restart, ForgetAtRestart
    <2>2. RanOnce' /\ AtMostOnceUnlessForgotten'
        BY <2>1 DEF RInv, RanOnce, AtMostOnceUnlessForgotten
    <2>. QED BY <1>0, <1>2, <2>2, RestartKeepsInv, RestartRemembers, RestartKeepsCellsLive DEF RInv
<1>. QED BY <1>1, <1>2 DEF RestartNext

\* What the service knows and does stays consistent over any number of crashes
\* and restarts, with writes that fail in the middle of a line and files that
\* are rotated away.
THEOREM RestartInvariantHolds == RestartSpec => []RInv
BY RestartInitHasInv, RestartNextKeepsInv, PTL DEF RestartSpec

\* A loaded ledger and its order agree as those of a single life do.
THEOREM LedgerHoldsOverRestarts == RestartSpec => []LedgerMatchesOrder
<1>1. RInv => LedgerMatchesOrder
    BY DEF RInv, Remembered
<1>. QED BY <1>1, RestartInvariantHolds, PTL

\* No repeat waits for a call of an earlier life.
THEOREM RepeatsHoldOverRestarts == RestartSpec => []RepeatsHaveALiveOriginal
<1>1. RInv => RepeatsHaveALiveOriginal
    BY DEF RInv, CellsLive, LiveCell, RepeatsHaveALiveOriginal
<1>. QED BY <1>1, RestartInvariantHolds, PTL

\* An identifier is run a second time only if a limit made the service forget
\* it: no crash, no restart and no failed write does that.
THEOREM AtMostOnceOverRestarts == RestartSpec => []AtMostOnceUnlessForgotten
<1>1. RInv => AtMostOnceUnlessForgotten
    BY DEF RInv
<1>. QED BY <1>1, RestartInvariantHolds, PTL

\* Whatever the game thread may still run, or has run in any life, has a line in
\* the journal, unless a limit or a fragment made the service forget it: what
\* AuditedBeforeExecution says, with no hypothesis about room or torn writes.
THEOREM AcceptedAreRecorded ==
    RestartSpec => [](\A c \in Calls : InPlay(c) \/ runs[c] # <<>> =>
                          request[c].id \in forgettable \cup RetainedIds(log))
<1>1. RInv => \A c \in Calls : InPlay(c) \/ runs[c] # <<>> =>
                  request[c].id \in forgettable \cup RetainedIds(log)
    BY DEF RInv, Remembered, PlayRecorded, RunRecorded
<1>. QED BY <1>1, RestartInvariantHolds, PTL

\* An identifier with a line in the journal is not taken for a new one.
THEOREM RetainedAreKnown == RestartSpec => RetainedIdsAreKnown
<1>. DEFINE Admitted(c) == pc[c] = "lookup" /\ pc'[c] = "gates"
            Known1 == \A c \in Calls : Admitted(c) => request[c].id \notin RetainedIds(log) \ forgettable
<1>1. ASSUME RInv, [RestartNext]_allVars PROVE [Known1]_allVars
    <2>. SUFFICES ASSUME RestartNext, NEW c \in Calls, Admitted(c)
                  PROVE  request[c].id \notin RetainedIds(log) \ forgettable
        BY <1>1
    <2>1. Next
        BY DEF RestartNext, Restart
    <2>2. PICK d \in Calls : Handle(d)
        BY <2>1 DEF Next, BeginTick, GameThread, EndTick, Pop, Skip, Claim, Execute, Publish,
           StopAccepting, AnswerAbandoned, callVars
    <2>3. d = c
        BY <1>1, <2>2, OneCallMoves DEF RInv
    <2>4. Admit(c)
        BY <1>1, <2>2, <2>3 DEF RInv, IInv, TypeOK, Goto, Handle, RejectUnauthenticated, RejectMalformed, Parse, RejectConflict,
           JoinOriginal, RefuseDisabled, RefuseUnsupported, PassGates, Accept, Refuse,
           RefuseUnaudited, Enqueue, RefuseStopping, Answered, TimeOut, ReplayAnswer, AuditReply
    <2>. QED BY <1>1, <2>4 DEF Admit, Known, RInv, Remembered, RetainedKnown
<1>. QED BY <1>1, RestartInvariantHolds, PTL DEF RestartSpec, RetainedIdsAreKnown

-----------------------------------------------------------------------------
(* What the journal says is what happened *)

\* Only a call's own cell is ever answered, once with what its request did,
\* otherwise with a refusal.
LEMMA CellsChange ==
    ASSUME IInv, [Next]_vars, NEW k \in Cells
    PROVE  \/ shared'[k].response = shared[k].response
           \/ k \in Calls /\ shared'[k].response \in Refusals
           \/ /\ k \in Calls /\ shared[k].response = None
              /\ shared'[k].response \in ExecutionOutcomes
<1>. DEFINE Kept(j) == \/ shared'[j].response = shared[j].response
                       \/ j \in Calls /\ shared'[j].response \in Refusals
                       \/ /\ j \in Calls /\ shared[j].response = None
                          /\ shared'[j].response \in ExecutionOutcomes
<1>1. ASSUME NEW c \in Calls, NEW a \in Answers, Complete(c, a)
      PROVE  shared'[c].response = a /\ \A j \in Cells \ {c} : shared'[j] = shared[j]
    <2>1. /\ shared'[c] = [shared[c] EXCEPT !.response = a] /\ shared[c] \in SharedResults
          /\ \A j \in Cells \ {c} : shared'[j] = shared[j]
        BY <1>1, CompleteEffect DEF IInv, TypeOK, Cells
    <2>. QED BY <2>1 DEF SharedResults
<1>2. ASSUME NEW c \in Calls, NEW a \in Refusals, Complete(c, a) PROVE Kept(k)
    BY <1>1, <1>2 DEF Answers
<1>3. ASSUME NEW c \in Calls, Handle(c) PROVE Kept(k)
    <2>1. CASE \E a \in Refusals : Complete(c, a)
        BY <1>2, <2>1
    <2>2. CASE TimeOut(c)
        BY <2>2 DEF TimeOut, IInv, TypeOK, SharedResults, Refusals
    <2>3. CASE shared' = shared
        BY <2>3
    <2>. QED BY <1>3, <2>1, <2>2, <2>3 DEF Handle, RejectUnauthenticated,
       RejectMalformed, Parse, RejectConflict, JoinOriginal, Admit, RefuseDisabled,
       RefuseUnsupported, PassGates, Accept, RefuseUnaudited, Enqueue, RefuseStopping,
       Refuse, Answered, ReplayAnswer, AuditReply, Refusals
<1>4. CASE Claim
    BY <1>4 DEF Claim, IInv, TypeOK, WellFormed, SharedResults
<1>5. CASE Publish
    <2>1. current \in Calls /\ execution \in ExecutionOutcomes /\ shared[current].response = None
        BY <1>5 DEF Publish, IInv, WellFormed, InHand
    <2>. QED BY <1>1, <1>5, <2>1 DEF Publish, Answers
<1>6. CASE AnswerAbandoned
    <2>1. Head(abandoned) \in Calls
        BY <1>6 DEF AnswerAbandoned, IInv, TypeOK
    <2>. QED BY <1>2, <1>6, <2>1 DEF AnswerAbandoned, Refusals
<1>7. CASE shared' = shared
    BY <1>7
<1>. QED BY <1>3, <1>4, <1>5, <1>6, <1>7 DEF Next, GameThread, BeginTick, EndTick, Pop,
   Skip, Execute, StopAccepting, vars

\* The request r was run, with the outcome o.
Ran(r, o) == \E d \in Calls : request[d] = r /\ runs[d] = <<o>>

\* The identifier was refused: it was not run, and what is in the ledger for it
\* keeps it from being run, unless it had to be forgotten.
Dead(i) ==
    \/ i \in forgettable
    \/ /\ i \in DOMAIN ledger \cap RetainedIds(log)
       /\ ledger[i].cell = i \/ shared[ledger[i].cell].response \in Refusals
       /\ \A d \in Calls : runs[d] # <<>> => request[d].id # i

\* The answer o to the request r is true.
Settled(r, o) ==
    /\ o \in ExecutionOutcomes => Ran(r, o)
    /\ o \in Refusals => Dead(r.id)

TruthfulLines ==
    \A x \in LineSet(log) :
        Tracked(x) => Settled([id |-> x.id, payload |-> x.payload], x.outcome)

TruthfulEntries ==
    \A i \in DOMAIN ledger :
        ledger[i].cell = i => Settled([id |-> i, payload |-> ledger[i].payload], shared[i].response)

TruthfulReplies ==
    \A c \in Calls : cell[c] \in RequestIds =>
        /\ pc[c] = "replaying" => Settled(request[c], shared[cell[c]].response)
        /\ Settled(request[c], reply[c])

TInv == TruthfulLines /\ TruthfulEntries /\ TruthfulReplies

\* What is true stays true as long as the process lives ...
LEMMA SettledStays ==
    ASSUME RInv, Lives, NEW r, NEW o, Settled(r, o)
    PROVE  Settled(r, o)'
<1>0. IInv /\ Remembered /\ LedgerMatchesOrder /\ [Next]_vars /\ Forgets
    BY DEF RInv, Remembered, Lives
<1>1. ASSUME Ran(r, o) PROVE Ran(r, o)'
    <2>1. PICK d \in Calls : request[d] = r /\ runs[d] = <<o>>
        BY <1>1 DEF Ran
    <2>2. runs[d] # <<>>
        BY <2>1
    <2>3. runs'[d] = runs[d]
        BY <1>0, <2>2, RunInPlay
    <2>4. request'[d] = request[d]
        BY <1>0, <2>2, RunKeepsRequest
    <2>. QED BY <2>1, <2>3, <2>4 DEF Ran
<1>2. ASSUME NEW i, Dead(i), i \notin forgettable' PROVE Dead(i)'
    <2>1. /\ i \in DOMAIN ledger \cap RetainedIds(log)
          /\ ledger[i].cell = i \/ shared[ledger[i].cell].response \in Refusals
          /\ \A d \in Calls : runs[d] # <<>> => request[d].id # i
          /\ i \notin forgettable
        BY <1>0, <1>2 DEF Dead, Forgets
    <2>2. i \in DOMAIN ledger' /\ i \in RetainedIds(log')
        BY <1>0, <1>2, <2>1 DEF Forgets
    <2>3. ledger'[i] = ledger[i] /\ ledger[i].cell \in Cells
        BY <1>0, <2>1, <2>2, EntriesStay DEF IInv, TypeOK, Ledgers
    <2>4. shared[ledger[i].cell].response \in Refusals
            => shared'[ledger[i].cell].response \in Refusals
        BY <1>0, <2>3, CellsChange, AdminActionsAssumption DEF LineOutcomes, Replies, Answers
    <2>5. ASSUME NEW d \in Calls, runs'[d] # <<>> PROVE request'[d].id # i
        <3>1. CASE runs[d] # <<>>
            BY <1>0, <2>1, <3>1, RunKeepsRequest
        <3>2. CASE runs[d] = <<>>
            <4>1. Execute /\ InPlay(d) /\ d = current /\ gpc = "execute"
                BY <1>0, <2>5, <3>2, RunInPlay
            <4>2. request' = request /\ shared[d].response = None
                BY <1>0, <4>1 DEF Execute, callVars, IInv, InHand
            <4>3. Busy(d) /\ cell[d] = d
                BY <1>0, <4>1, BusyOwnsCell DEF Busy
            <4>4. request[d].id \in forgettable \/ ledger[request[d].id].cell = d
                BY <1>0, <4>3 DEF Remembered, BusyHeld, HoldsEntry
            <4>5. d # i
                BY <2>1, AdminActionsAssumption, <1>0 DEF IInv, TypeOK, Ledgers
            <4>6. None \notin Refusals
                BY AdminActionsAssumption DEF LineOutcomes, Replies, Answers
            <4>. QED BY <2>1, <4>2, <4>4, <4>5, <4>6
        <3>. QED BY <3>1, <3>2
    <2>. QED BY <2>1, <2>2, <2>3, <2>4, <2>5 DEF Dead
<1>3. \A i : Dead(i) => Dead(i)'
    BY <1>2 DEF Dead
<1>. QED BY <1>1, <1>3 DEF Settled

\* ... and when it ends.
LEMMA SettledOverRestart ==
    ASSUME RInv, Restart, ForgetAtRestart, NEW r, NEW o, Settled(r, o)
    PROVE  Settled(r, o)'
<1>1. UNCHANGED <<request, runs, log>> /\ forgettable \subseteq forgettable'
    BY DEF Restart, ForgetAtRestart
<1>2. Remembered'
    BY RestartRemembers DEF RInv
<1>3. \A i \in DOMAIN ledger' : ledger'[i].cell = i
    <2>1. \A i \in DOMAIN ledger' : \E x : Loaded(i, x)
        BY LoadEffect DEF Restart, RInv, Remembered
    <2>2. ASSUME NEW i \in DOMAIN ledger' PROVE ledger'[i].cell = i
        <3>1. PICK x : Loaded(i, x)
            BY <2>1
        <3>. QED BY <3>1 DEF Loaded
    <2>. QED BY <2>2
<1>4. \A i : Dead(i) => Dead(i)'
    BY <1>1, <1>2, <1>3 DEF Dead, Remembered, RetainedKnown
<1>5. Ran(r, o) => Ran(r, o)'
    BY <1>1 DEF Ran
<1>. QED BY <1>4, <1>5 DEF Settled

\* Nothing is claimed of an answer that is neither a report nor a refusal.
LEMMA NothingToSettle ==
    ASSUME NEW r, NEW o, o \notin ExecutionOutcomes \cup Refusals
    PROVE  Settled(r, o)
BY DEF Settled

LEMMA OtherWords ==
    /\ {"requested", "action_outcome_unknown", None} \cap (ExecutionOutcomes \cup Refusals) = {}
    /\ ExecutionOutcomes \cap Refusals = {}
BY AdminActionsAssumption DEF ExecutionOutcomes, Refusals, LineOutcomes, Replies, Answers

\* The answer that a call writes to the journal is true once it is written.
LEMMA WrittenIsTrue ==
    ASSUME RInv, TInv, Lives, NEW c \in Calls, AuditReply(c), request[c].id \in RetainedIds(log'),
           NEW r, NEW o, NEW i, r = request[c], o = reply[c], i = r.id
    PROVE  Settled(r, o)'
<1>0. /\ IInv /\ Remembered /\ CellsLive /\ [Next]_vars /\ Forgets
      /\ TruthfulReplies
    BY DEF RInv, Lives, TInv
<1>1. /\ pc[c] = "audit" /\ o \in Answers /\ cell[c] # None
      /\ UNCHANGED <<request, reply, ledger, shared, runs>>
    BY <1>0, Writer DEF AuditReply, ledgerVars
<1>2. CASE cell[c] \in RequestIds
    <2>1. Settled(r, o)
        BY <1>0, <1>2 DEF TruthfulReplies
    <2>. QED BY <2>1, SettledStays
<1>3. CASE cell[c] \in Calls
    <2>. DEFINE k == cell[c]
    <2>1. /\ o \in Refusals => runs[k] = <<>> /\ (shared[k].response \in Refusals \/ Over(k))
          /\ o \in ExecutionOutcomes => runs[k] = <<o>>
        BY <1>0, <1>1, <1>3 DEF IInv, RepliesFollowCells, ReplyFollowsCell
    <2>2. request[k] = r
        BY <1>0, <1>3 DEF IInv, CellsOwned, OwnsCell
    <2>3. o \in ExecutionOutcomes => Ran(r, o)'
        BY <1>1, <1>3, <2>1, <2>2 DEF Ran
    <2>4. ASSUME o \in Refusals, i \notin forgettable' PROVE Dead(i)'
        <3>1. i \in DOMAIN ledger /\ ledger[i].cell = k /\ i \notin forgettable
            BY <1>0, <1>1, <2>4 DEF Remembered, BusyHeld, Busy, HoldsEntry, Forgets
        <3>2. shared[k].response \in Refusals
            BY <1>0, <2>1, <2>4, <3>1, <1>3 DEF CellsLive, LiveCell, Over
        <3>3. ASSUME NEW d \in Calls, runs[d] # <<>> PROVE request[d].id # i
            <4>1. SUFFICES ASSUME request[d].id = i PROVE FALSE
                OBVIOUS
            <4>2. ledger[i].cell \in {d, i} /\ i \in RequestIds
                BY <1>0, <3>1, <3>3, <4>1, RunKeepsRequest DEF Remembered, RunRecorded, Requests
            <4>3. d = k
                BY <1>3, <3>1, <4>2, AdminActionsAssumption
            <4>. QED BY <2>1, <2>4, <3>3, <4>3
        <3>. QED BY <1>1, <3>1, <3>2, <3>3 DEF Dead
    <2>5. o \in Refusals => Dead(i)'
        <3>1. i \in forgettable' => Dead(i)'
            BY DEF Dead
        <3>. QED BY <2>4, <3>1
    <2>. QED BY <1>1, <2>3, <2>5 DEF Settled
<1>. QED BY <1>0, <1>1, <1>2, <1>3 DEF IInv, TypeOK, Cells

LEMMA StepKeepsLinesTrue ==
    ASSUME RInv, TInv, Lives
    PROVE  TruthfulLines'
<1>0. /\ IInv /\ [Next]_vars /\ TruthfulLines
      /\ \A r, o : Settled(r, o) => Settled(r, o)'
    BY SettledStays DEF RInv, Lives, TInv
<1>1. log' \in Log
    BY <1>0, NextKeepsInv DEF IInv, TypeOK
<1>2. ASSUME NEW x \in LineSet(log'), Tracked(x)
      PROVE  Settled([id |-> x.id, payload |-> x.payload], x.outcome)'
    <2>1. CASE x \in LineSet(log)
        BY <1>0, <1>2, <2>1 DEF TruthfulLines
    <2>2. ASSUME NEW c \in Calls, Accept(c), x.outcome = "requested"
          PROVE  Settled([id |-> x.id, payload |-> x.payload], x.outcome)'
        BY <2>2, OtherWords DEF Settled
    <2>3. ASSUME NEW c \in Calls, AuditReply(c), x.outcome = reply[c],
                 x = [id |-> request[c].id, payload |-> request[c].payload, outcome |-> x.outcome]
          PROVE  Settled([id |-> x.id, payload |-> x.payload], x.outcome)'
        <3>1. x.id = request[c].id /\ x.payload = request[c].payload
            BY <2>3
        <3>2. request[c].id \in RetainedIds(log')
            BY <1>1, <1>2, <3>1, RetainedFromLines
        <3>3. request[c] = [id |-> request[c].id, payload |-> request[c].payload]
            BY <1>0, <2>3, Writer DEF Requests
        <3>4. [id |-> x.id, payload |-> x.payload] = request[c]
            BY <3>1, <3>3
        <3>5. [id |-> x.id, payload |-> x.payload].id = request[c].id
            BY <3>1
        <3>. HIDE DEF Settled
        <3>. QED BY <2>3, <3>2, <3>4, <3>5, WrittenIsTrue
    <2>. QED BY <1>0, <1>2, <2>1, <2>2, <2>3, NewLines
<1>. QED BY <1>2 DEF TruthfulLines

LEMMA StepKeepsEntriesTrue ==
    ASSUME RInv, TInv, Lives
    PROVE  TruthfulEntries'
<1>0. /\ IInv /\ LedgerMatchesOrder /\ [Next]_vars /\ TruthfulEntries
      /\ \A r, o : Settled(r, o) => Settled(r, o)'
    BY SettledStays DEF RInv, Remembered, Lives, TInv
<1>1. ASSUME NEW i \in DOMAIN ledger', ledger'[i].cell = i,
             NEW r, NEW o, r = [id |-> i, payload |-> ledger'[i].payload], o = shared'[i].response
      PROVE  Settled(r, o)'
    <2>1. i \in RequestIds
        BY <1>0, NextKeepsInv DEF IInv, TypeOK, Ledgers
    <2>2. i \in DOMAIN ledger
        <3>1. ASSUME NEW c \in Calls, Admit(c) PROVE i \in DOMAIN ledger
            <4>1. CASE i = request[c].id
                <5>1. ledger'[i] = [payload |-> request[c].payload, cell |-> c]
                    BY <1>0, <3>1, <4>1, AdmitEffect
                <5>. QED BY <1>1, <2>1, <5>1, AdminActionsAssumption
            <4>. QED BY <1>0, <3>1, <4>1, AdmitEffect
        <3>. QED BY <1>0, <3>1, LedgerFromAdmit DEF ledgerVars
    <2>3. ledger'[i] = ledger[i]
        BY <1>0, <2>2, EntriesStay
    <2>4. shared'[i].response = shared[i].response
        BY <1>0, <2>1, CellsChange, AdminActionsAssumption DEF Cells
    <2>5. Settled(r, o)
        BY <1>0, <1>1, <2>2, <2>3, <2>4 DEF TruthfulEntries
    <2>. QED BY <1>0, <2>5
<1>. QED BY <1>1 DEF TruthfulEntries, Settled, Ran, Dead

\* A call with a loaded cell gets its reply from there.
LEMMA LoadedReply ==
    ASSUME IInv, [Next]_vars, NEW c \in Calls, cell[c] \in RequestIds, reply'[c] # reply[c]
    PROVE  ReplayAnswer(c)
<1>1. /\ cell[c] # c /\ cell[c] # None
      /\ pc[c] \notin {"idle", "lookup", "gates", "accept", "enqueue", "waiting"}
    BY AdminActionsAssumption DEF IInv, CellsOwned, OwnsCell
<1>2. PICK d \in Calls : Handle(d)
    BY DEF Next, BeginTick, GameThread, EndTick, Pop, Skip, Claim, Execute, Publish,
       StopAccepting, AnswerAbandoned, callVars, vars
<1>3. d = c
    BY <1>2 DEF Handle, RejectUnauthenticated, RejectMalformed, Parse, RejectConflict,
       JoinOriginal, Admit, RefuseDisabled, RefuseUnsupported, PassGates, Accept, Refuse,
       RefuseUnaudited, Enqueue, RefuseStopping, Answered, TimeOut, ReplayAnswer, AuditReply,
       IInv, TypeOK
<1>. QED BY <1>1, <1>2, <1>3 DEF Handle, RejectUnauthenticated, RejectMalformed, Parse,
   RejectConflict, JoinOriginal, Admit, RefuseDisabled, RefuseUnsupported, PassGates, Accept,
   Refuse, RefuseUnaudited, Enqueue, RefuseStopping, Answered, TimeOut, AuditReply

LEMMA StepKeepsRepliesTrue ==
    ASSUME RInv, TInv, Lives
    PROVE  TruthfulReplies'
<1>0. /\ IInv /\ LedgerMatchesOrder /\ [Next]_vars /\ TruthfulEntries /\ TruthfulReplies
      /\ \A r, o : Settled(r, o) => Settled(r, o)'
    BY SettledStays DEF RInv, Remembered, Lives, TInv
<1>1. ASSUME NEW c \in Calls, cell'[c] \in RequestIds, NEW r, NEW o, r = request'[c],
             \/ o = reply'[c]
             \/ pc'[c] = "replaying" /\ o = shared'[cell'[c]].response
      PROVE  Settled(r, o)'
    <2>1. shared'[cell'[c]].response = shared[cell'[c]].response
        BY <1>0, <1>1, CellsChange, AdminActionsAssumption DEF Cells
    <2>2. CASE cell'[c] = cell[c]
        <3>1. pc[c] \notin {"idle", "lookup"}
            BY <1>0, <1>1, <2>2, AdminActionsAssumption DEF IInv, CellsOwned, OwnsCell
        <3>2. request'[c] = request[c]
            BY <1>0, <3>1, RequestStays
        <3>3. pc'[c] = "replaying" => pc[c] = "replaying"
            BY <1>0, <3>1, JoinsFromLedger DEF JoinOriginal
        <3>4. CASE reply'[c] = reply[c]
            <4>1. Settled(r, o)
                BY <1>0, <1>1, <2>1, <2>2, <3>2, <3>3, <3>4 DEF TruthfulReplies
            <4>. QED BY <1>0, <4>1
        <3>5. CASE reply'[c] # reply[c]
            <4>1. /\ pc[c] = "replaying" /\ pc'[c] = "audit"
                  /\ reply'[c] = shared[cell[c]].response
                BY <1>0, <1>1, <2>2, <3>5, LoadedReply DEF ReplayAnswer, Goto, IInv, TypeOK
            <4>2. Settled(r, o)
                BY <1>0, <1>1, <2>2, <3>2, <4>1 DEF TruthfulReplies
            <4>. QED BY <1>0, <4>2
        <3>. QED BY <3>4, <3>5
    <2>3. CASE cell'[c] # cell[c]
        <3>1. JoinOriginal(c)
            <4>1. ~Admit(c)
                BY <1>0, <1>1, AdminActionsAssumption DEF Admit, IInv, TypeOK
            <4>. QED BY <1>0, <2>3, <4>1, CellsFromLedger
        <3>. DEFINE i == request[c].id
        <3>2. /\ i \in DOMAIN ledger /\ cell'[c] = ledger[i].cell
              /\ ledger[i].payload = request[c].payload
              /\ request' = request /\ reply' = reply /\ pc[c] = "lookup"
            BY <1>0, <3>1 DEF JoinOriginal, Known, SamePayload, IInv, TypeOK
        <3>3. ledger[i].cell = i
            BY <1>0, <1>1, <3>2, AdminActionsAssumption DEF IInv, CellsOwned, EntryOwned
        <3>4. request[c] = [id |-> i, payload |-> ledger[i].payload]
            BY <1>0, <3>2 DEF IInv, WellFormed, Requests
        <3>5. Settled(request[c], shared[i].response)
            BY <1>0, <3>2, <3>3, <3>4 DEF TruthfulEntries
        <3>6. Settled(request[c], reply[c])
            <4>1. reply[c] \notin Answers
                BY <1>0, <3>2 DEF IInv, CellsOwned, OwnsCell, RepliesFollowCells, ReplyFollowsCell
            <4>. QED BY <4>1, NothingToSettle DEF Answers
        <3>7. Settled(r, o)
            BY <1>1, <2>1, <3>2, <3>3, <3>5, <3>6
        <3>. QED BY <1>0, <3>7
    <2>. QED BY <2>2, <2>3
<1>2. ASSUME NEW c \in Calls, cell'[c] \in RequestIds, NEW r, NEW o, r = request'[c], o = reply'[c]
      PROVE  Settled(r, o)'
    BY <1>1, <1>2
<1>3. ASSUME NEW c \in Calls, cell'[c] \in RequestIds, pc'[c] = "replaying", NEW r, NEW o,
             r = request'[c], o = shared'[cell'[c]].response
      PROVE  Settled(r, o)'
    BY <1>1, <1>3
<1>4. ASSUME NEW c \in Calls, cell'[c] \in RequestIds PROVE Settled(request[c], reply[c])'
    BY <1>2, <1>4 DEF Settled, Ran, Dead
<1>5. ASSUME NEW c \in Calls, cell'[c] \in RequestIds, pc'[c] = "replaying"
      PROVE  Settled(request[c], shared[cell[c]].response)'
    BY <1>3, <1>5 DEF Settled, Ran, Dead
<1>. QED BY <1>4, <1>5 DEF TruthfulReplies

LEMMA RestartKeepsTruth ==
    ASSUME RInv, TInv, Restart, ForgetAtRestart
    PROVE  TInv'
<1>0. /\ IInv /\ LinesTyped /\ TruthfulLines /\ TruthfulReplies
      /\ \A r, o : Settled(r, o) => Settled(r, o)'
    BY SettledOverRestart DEF RInv, Remembered, TInv
<1>1. /\ UNCHANGED <<request, cell, log>> /\ Load
      /\ \A c \in Calls : pc'[c] # "replaying" /\ reply'[c] \in {reply[c], None}
    BY DEF Restart
<1>2. TruthfulLines'
    BY <1>0, <1>1 DEF TruthfulLines
<1>3. ASSUME NEW i \in DOMAIN ledger', NEW r, NEW o,
             r = [id |-> i, payload |-> ledger'[i].payload], o = shared'[i].response
      PROVE  Settled(r, o)'
    <2>1. PICK x : Loaded(i, x)
        BY <1>0, <1>1, LoadEffect
    <2>2. /\ x \in LineSet(log) /\ Tracked(x) /\ x.id = i
          /\ ledger'[i].payload = x.payload
        BY <2>1 DEF Loaded
    <2>3. CASE o = "action_outcome_unknown"
        BY <2>3, OtherWords DEF Settled
    <2>4. CASE o # "action_outcome_unknown"
        <3>1. o = x.outcome
            BY <1>0, <1>3, <2>1, <2>4, LoadedAnswer
        <3>2. Settled(r, o)
            BY <1>0, <1>3, <2>2, <3>1 DEF TruthfulLines
        <3>. QED BY <1>0, <3>2
    <2>. QED BY <2>3, <2>4
<1>4. ASSUME NEW c \in Calls, cell[c] \in RequestIds, NEW r, NEW o, r = request[c], o = reply'[c]
      PROVE  Settled(r, o)'
    <2>1. CASE o = None
        BY <2>1, OtherWords DEF Settled
    <2>2. CASE o = reply[c]
        <3>1. Settled(r, o)
            BY <1>0, <1>4, <2>2 DEF TruthfulReplies
        <3>. QED BY <1>0, <3>1
    <2>. QED BY <1>1, <1>4, <2>1, <2>2
<1>5. TruthfulReplies'
    BY <1>1, <1>4 DEF TruthfulReplies, Settled, Ran, Dead
<1>6. TruthfulEntries'
    BY <1>3 DEF TruthfulEntries, Settled, Ran, Dead
<1>. QED BY <1>2, <1>5, <1>6 DEF TInv

LEMMA RestartNextKeepsTruth == RInv /\ TInv /\ [RestartNext]_allVars => TInv'
<1>. SUFFICES ASSUME RInv, TInv, [RestartNext]_allVars PROVE TInv'
    OBVIOUS
<1>1. CASE (Next /\ ForgetBetweenRestarts) \/ UNCHANGED allVars
    BY <1>1, StepsLive, StepKeepsLinesTrue, StepKeepsEntriesTrue, StepKeepsRepliesTrue
    DEF TInv, RInv
<1>2. CASE Restart /\ ForgetAtRestart
    BY <1>2, RestartKeepsTruth
<1>. QED BY <1>1, <1>2 DEF RestartNext

\* What a client is told from the journal happened in an earlier life, to the
\* very request it repeats; what is called refused there was not run.
THEOREM JournalIsTruthful == RestartSpec => []JournalAnswersAreTruthful
<1>1. ASSUME RestartInit PROVE TInv
    <2>1. log = EmptyLog /\ DOMAIN ledger = {} /\ cell = [c \in Calls |-> None]
        BY <1>1 DEF RestartInit, Init
    <2>2. LineSet(log) = {}
        BY <2>1 DEF EmptyLog, LineSet, Lines, Elements
    <2>3. None \notin RequestIds
        BY AdminActionsAssumption
    <2>. QED BY <2>1, <2>2, <2>3 DEF TInv, TruthfulLines, TruthfulEntries, TruthfulReplies
<1>2. ASSUME TInv PROVE JournalAnswersAreTruthful
    <2>. SUFFICES ASSUME NEW c \in Calls, cell[c] \in RequestIds
                  PROVE  /\ reply[c] \in ExecutionOutcomes =>
                              \E d \in Calls : request[d] = request[c] /\ runs[d] = <<reply[c]>>
                         /\ reply[c] \in Refusals =>
                              \/ request[c].id \in forgettable
                              \/ \A d \in Calls : request[d] = request[c] => runs[d] = <<>>
        BY DEF JournalAnswersAreTruthful
    <2>1. Settled(request[c], reply[c])
        BY <1>2 DEF TInv, TruthfulReplies
    <2>. QED BY <2>1 DEF Settled, Ran, Dead
<1>. QED BY <1>1, <1>2, RestartNextKeepsTruth, RestartInvariantHolds, PTL DEF RestartSpec

-----------------------------------------------------------------------------
(* When everything has room: lines are only ever added *)

\* A line that c writes for the loader to read.
Says(c, line) ==
    /\ line.id = request[c].id
    /\ \/ Accept(c) /\ line.outcome = "requested"
       \/ AuditReply(c) /\ line.outcome = reply[c]

LEMMA LinesGrow ==
    ASSUME FilesHaveRoom, IInv, LinesCounted, [Next]_vars
    PROVE  /\ \A x \in TrackedLines(log) :
                 x \in TrackedLines(log') /\ Lines(log')[x] = Lines(log)[x]
           /\ \A x \in TrackedLines(log') :
                 \/ x \in TrackedLines(log) /\ Lines(log')[x] = Lines(log)[x]
                 \/ /\ \A y \in TrackedLines(log) : y < x
                    /\ \E c \in Calls : Says(c, Lines(log')[x])
           /\ \A x, y \in TrackedLines(log') \ TrackedLines(log) : x = y
<1>1. /\ log \in Log /\ log' \in Log
      /\ log.backup = <<>> /\ log'.backup = <<>>
    BY NextKeepsInv, NextKeepsLinesCounted DEF IInv, TypeOK, LinesCounted
<1>2. \A l \in Log : l.backup = <<>> => Lines(l) = l.current /\ Lines(l) \in Seq(Line)
    BY DEF Lines, Log
<1>3. /\ Lines(log) = log.current /\ Lines(log) \in Seq(Line)
      /\ Lines(log') = log'.current
    BY <1>1, <1>2
<1>4. CASE log' = log
    BY <1>4
<1>5. CASE log' # log
    <2>1. PICK c \in Calls :
              /\ pc[c] # "done"
              /\ \/ log' \in FailedWrites(log)
                 \/ \E line \in Line : log' = Appended(log, line) /\ LineOf(c, line)
        BY <1>5, LogStep
    <2>2. ~Full(log)
        BY <2>1, RoomForALine
    <2>3. CASE log' \in FailedWrites(log)
        <3>1. \A m \in FailedWrites(log) : m.current = log.current
            BY <1>1, <2>2, WriteWithoutRotation
        <3>2. Lines(log') = Lines(log)
            BY <1>3, <2>3, <3>1
        <3>. QED BY <3>2 DEF TrackedLines
    <2>4. ASSUME NEW line \in Line, log' = Appended(log, line), LineOf(c, line)
          PROVE  /\ \A x \in TrackedLines(log) :
                       x \in TrackedLines(log') /\ Lines(log')[x] = Lines(log)[x]
                 /\ \A x \in TrackedLines(log') :
                       \/ x \in TrackedLines(log) /\ Lines(log')[x] = Lines(log)[x]
                       \/ /\ \A y \in TrackedLines(log) : y < x
                          /\ \E d \in Calls : Says(d, Lines(log')[x])
                 /\ \A x, y \in TrackedLines(log') \ TrackedLines(log) : x = y
        <3>. DEFINE n == Len(Lines(log)) + 1
                    g == Glue(log, line)
        <3>1. Lines(log') = Append(Lines(log), g) /\ g \in Line
            <4>1. Appended(log, line).current = Append(log.current, g) /\ g \in Line
                BY <1>1, <2>2, WriteWithoutRotation
            <4>. QED BY <1>3, <2>4, <4>1
        <3>. HIDE DEF g
        <3>2. /\ n \in Nat /\ \A x \in DOMAIN Lines(log) : x \in Nat /\ x < n
              /\ \A x \in DOMAIN Lines(log) :
                    x \in DOMAIN Lines(log') /\ Lines(log')[x] = Lines(log)[x]
              /\ \A x \in DOMAIN Lines(log') : x \in DOMAIN Lines(log) \/ x = n
              /\ Lines(log')[n] = g
            BY <1>3, <3>1
        <3>3. IdempotencyTracked(g.outcome) => Says(c, g)
            <4>. SUFFICES ASSUME IdempotencyTracked(g.outcome) PROVE Says(c, g)
                OBVIOUS
            <4>1. g = line
                BY DEF Glue, IdempotencyTracked, Line, g
            <4>. QED BY <2>4, <4>1 DEF LineOf, Says, IdempotencyTracked
        <3>. HIDE DEF n
        <3>. QED BY <3>2, <3>3 DEF TrackedLines
    <2>. QED BY <2>1, <2>3, <2>4
<1>. QED BY <1>4, <1>5

LEMMA RestartKeepsLinesCounted ==
    ASSUME FilesHaveRoom, LinesCounted, IInv, Restart
    PROVE  LinesCounted'
<1>1. Begun \subseteq Begun' /\ Ended' = Ended /\ log' = log
    BY DEF Restart, Begun, Ended, IInv, TypeOK, Labels
<1>2. Begun' \in SUBSET Calls /\ Ended \in SUBSET Calls
    BY DEF Begun, Ended
<1>3. /\ Cardinality(Begun) \in Nat /\ Cardinality(Begun') \in Nat /\ Cardinality(Ended) \in Nat
      /\ Cardinality(Begun) <= Cardinality(Begun')
    BY <1>1, <1>2, CountCalls
<1>4. Len(log.current) \in Nat
    BY DEF IInv, TypeOK, Log
<1>5. Len(log'.current) <= Cardinality(Begun') + Cardinality(Ended')
    BY <1>1, <1>3, <1>4 DEF LinesCounted
<1>. QED BY <1>1, <1>5 DEF LinesCounted

-----------------------------------------------------------------------------
(* When nothing is evicted: a call and its entry stay together *)

InUse == {"gates", "accept", "enqueue", "waiting", "replaying", "audit"}

InUseHeld == \A c \in Calls : pc[c] \in InUse => HoldsEntry(c)

LEMMA StepKeepsInUseHeld ==
    ASSUME LedgerHasRoom, IInv, LedgerMatchesOrder, InUseHeld, [Next]_vars
    PROVE  InUseHeld'
<1>. SUFFICES ASSUME NEW c \in Calls, pc'[c] \in InUse PROVE HoldsEntry(c)'
    BY DEF InUseHeld, InUse
<1>1. CASE pc[c] \in InUse
    <2>1. HoldsEntry(c) /\ cell[c] # None
        BY <1>1, AdminActionsAssumption DEF InUseHeld, InUse, IInv, CellsOwned, OwnsCell
    <2>. QED BY <2>1, EntryHeld, NothingEvicted DEF HoldsEntry
<1>2. CASE cell'[c] # cell[c]
    BY <1>2, CellsFromLedger
<1>3. CASE pc[c] \notin InUse /\ cell'[c] = cell[c]
    <2>1. cell'[c] # None
        BY NextKeepsInv, AdminActionsAssumption DEF InUse, IInv, CellsOwned, OwnsCell
    <2>2. pc[c] \in {"done", "lost"}
        BY <1>3, <2>1 DEF InUse, IInv, CellsOwned, OwnsCell, TypeOK, Labels
    <2>3. pc'[c] = pc[c]
        <3>1. ASSUME NEW d \in Calls, Handle(d) PROVE pc'[c] = pc[c]
            <4>1. d # c
                BY <2>2, <3>1 DEF Handle, RejectUnauthenticated, RejectMalformed, Parse,
                   RejectConflict, JoinOriginal, Admit, RefuseDisabled, RefuseUnsupported,
                   PassGates, Accept, RefuseUnaudited, Enqueue, RefuseStopping, Answered,
                   TimeOut, ReplayAnswer, AuditReply
            <4>. QED BY <3>1, <4>1, OneCallMoves
        <3>2. CASE pc' = pc
            BY <3>2
        <3>. QED BY <3>1, <3>2 DEF Next, BeginTick, GameThread, EndTick, Pop, Skip, Claim,
           Execute, Publish, StopAccepting, AnswerAbandoned, callVars, vars
    <2>. QED BY <2>2, <2>3 DEF InUse
<1>. QED BY <1>1, <1>2, <1>3

\* A call that audits its answer has found it in its cell; in a loaded cell it
\* is still there.
AuditsFromCells ==
    \A c \in Calls : pc[c] = "audit" =>
        /\ shared[cell[c]].response # None
        /\ cell[c] \in RequestIds => reply[c] = shared[cell[c]].response

LEMMA StepKeepsAudits ==
    ASSUME IInv, LedgerMatchesOrder, AuditsFromCells, [Next]_vars
    PROVE  AuditsFromCells'
<1>. SUFFICES ASSUME NEW c \in Calls, pc'[c] = "audit"
              PROVE  /\ shared'[cell'[c]].response # None
                     /\ cell'[c] \in RequestIds => reply'[c] = shared'[cell'[c]].response
    BY DEF AuditsFromCells
<1>1. cell'[c] = cell[c] \/ pc'[c] \in {"replaying", "gates"}
    BY CellsFromLedger DEF JoinOriginal, Admit, Goto, IInv, TypeOK
<1>2. cell'[c] = cell[c] /\ cell[c] \in Cells
    BY <1>1, NextKeepsInv DEF IInv, TypeOK, CellsOwned, OwnsCell
<1>3. CASE pc[c] = "audit"
    <2>1. shared'[cell[c]].response # None
        BY <1>2, <1>3, AnswersStay DEF AuditsFromCells
    <2>2. ASSUME cell[c] \in RequestIds PROVE reply'[c] = shared'[cell[c]].response
        <3>1. reply'[c] = reply[c]
            BY <1>3, <2>2, LoadedReply DEF ReplayAnswer
        <3>2. shared'[cell[c]].response = shared[cell[c]].response
            BY <1>2, <2>2, CellsChange, AdminActionsAssumption
        <3>. QED BY <1>3, <2>2, <3>1, <3>2 DEF AuditsFromCells
    <2>. QED BY <1>2, <2>1, <2>2
<1>4. CASE pc[c] # "audit"
    <2>1. PICK d \in Calls : Handle(d)
        BY <1>4 DEF Next, BeginTick, GameThread, EndTick, Pop, Skip, Claim, Execute, Publish,
           StopAccepting, AnswerAbandoned, callVars, vars
    <2>2. Handle(c)
        BY <1>4, <2>1, OneCallMoves
    <2>3. CASE ReplayAnswer(c)
        BY <1>2, <2>3 DEF ReplayAnswer, IInv, TypeOK
    <2>4. CASE \E a \in Refusals : Refuse(c, a) /\ pc[c] \in {"gates", "enqueue"}
        <3>1. PICK a \in Refusals : Complete(c, a) /\ pc[c] \in {"gates", "enqueue"}
            BY <2>4 DEF Refuse
        <3>2. cell[c] = c /\ shared'[c].response = a /\ a # None
            BY <3>1, AdminActionsAssumption DEF IInv, CellsOwned, OwnsCell, TypeOK, Complete, Cells,
               SharedResults, LineOutcomes, Replies, Answers
        <3>. QED BY <1>2, <3>2, AdminActionsAssumption
    <2>5. CASE Answered(c) \/ TimeOut(c)
        <3>1. cell[c] = c /\ shared'[c].response # None
            BY <2>5, AdminActionsAssumption DEF Answered, TimeOut, IInv, CellsOwned, OwnsCell, TypeOK,
               Cells, SharedResults, LineOutcomes, Replies, Answers, Refusals
        <3>. QED BY <1>2, <3>1, AdminActionsAssumption
    <2>. QED BY <1>4, <2>2, <2>3, <2>4, <2>5 DEF Handle, RejectUnauthenticated, RejectMalformed,
       Parse, RejectConflict, JoinOriginal, Admit, RefuseDisabled, RefuseUnsupported, PassGates,
       Accept, RefuseUnaudited, Enqueue, RefuseStopping, AuditReply, Goto, IInv, TypeOK, Refusals
<1>. QED BY <1>3, <1>4

-----------------------------------------------------------------------------
(* Decided requests and those nobody knows the outcome of *)

Decided == Answers \ {"action_outcome_unknown"}

\* The ledger knows every decision the journal tells.
DecidedEntries ==
    \A x \in TrackedLines(log) : Lines(log)[x].outcome \in Decided =>
        LET i == Lines(log)[x].id
        IN  i \in DOMAIN ledger /\ shared[ledger[i].cell].response \in Decided

\* No later line of the same identifier takes a decision back.
DecisionsStand ==
    \A x, y \in TrackedLines(log) :
        /\ x < y /\ Lines(log)[x].id = Lines(log)[y].id
        /\ Lines(log)[x].outcome \in Decided
        => Lines(log)[y].outcome \in Decided

Said(i) == {Lines(log)[x].outcome : x \in LinesOf(log, i)}

\* The identifier was accepted in an earlier life and the journal does not tell
\* what became of it.
Unknown(i) ==
    /\ "requested" \in Said(i) /\ Said(i) \subseteq {"requested", "action_outcome_unknown"}
    /\ i \in DOMAIN ledger /\ ledger[i].cell = i
    /\ shared[i].response = "action_outcome_unknown"

UnknownsAgree ==
    /\ \A i \in DOMAIN ledger :
          ledger[i].cell = i /\ shared[i].response = "action_outcome_unknown" => Unknown(i)
    /\ \A c \in Calls : reply[c] = "action_outcome_unknown" => Unknown(request[c].id)
    /\ \A x \in TrackedLines(log) :
          Lines(log)[x].outcome = "action_outcome_unknown" => Unknown(Lines(log)[x].id)

UInv ==
    /\ LinesCounted /\ InUseHeld /\ AuditsFromCells
    /\ DecidedEntries /\ DecisionsStand /\ UnknownsAgree

\* What a tracked line can say.
LEMMA WhatLinesSay ==
    ASSUME NEW l \in Log, NEW x \in TrackedLines(l)
    PROVE  /\ Lines(l)[x] \in LineSet(l) /\ Tracked(Lines(l)[x])
           /\ Lines(l)[x].outcome \in Decided \cup {"requested", "action_outcome_unknown"}
<1>1. x \in DOMAIN Lines(l) /\ Tracked(Lines(l)[x]) /\ Lines(l)[x] \in LineSet(l)
    BY DEF TrackedLines, Tracked, LineSet, Elements
<1>2. Lines(l)[x] \in Line
    BY <1>1, LinesOfLog
<1>. QED BY <1>1, <1>2 DEF Tracked, IdempotencyTracked, Line, LineOutcomes, Replies, Decided

LEMMA DecidedWords ==
    /\ Decided = Refusals \cup ExecutionOutcomes
    /\ {"requested", "action_outcome_unknown", None} \cap Decided = {}
BY AdminActionsAssumption DEF Decided, Answers, Refusals, ExecutionOutcomes, LineOutcomes, Replies

\* A call writes "requested" while its own cell is empty, and an answer that
\* its cell still holds.
LEMMA WriterCell ==
    ASSUME IInv, UInv, NEW c \in Calls, Accept(c) \/ AuditReply(c), NEW i, i = request[c].id
    PROVE  /\ i \in DOMAIN ledger /\ ledger[i].cell = cell[c] /\ cell[c] \in Cells
           /\ Accept(c) => shared[cell[c]].response = None
           /\ AuditReply(c) =>
                 /\ cell[c] \in RequestIds => reply[c] = shared[cell[c]].response /\ cell[c] = i
                 /\ cell[c] \in Calls =>
                       /\ reply[c] \in Decided /\ shared[cell[c]].response \in Decided
<1>1. /\ i \in DOMAIN ledger /\ ledger[i].cell = cell[c] /\ cell[c] \in Cells
    BY Writer DEF UInv, InUseHeld, InUse, HoldsEntry, IInv, TypeOK
<1>2. ASSUME Accept(c) PROVE shared[cell[c]].response = None
    <2>1. pc[c] = "accept" /\ cell[c] = c
        BY <1>2, Writer
    <2>2. shared[c] = FreshResult
        BY <2>1 DEF IInv, UntouchedBeforeDispatch
    <2>. QED BY <2>1, <2>2 DEF FreshResult
<1>3. ASSUME AuditReply(c)
      PROVE  /\ cell[c] \in RequestIds => reply[c] = shared[cell[c]].response /\ cell[c] = i
             /\ cell[c] \in Calls =>
                   /\ reply[c] \in Decided /\ shared[cell[c]].response \in Decided
    <2>1. pc[c] = "audit" /\ reply[c] \in Answers
        BY <1>3, Writer
    <2>2. ASSUME cell[c] \in Calls
          PROVE  reply[c] \in Decided /\ shared[cell[c]].response \in Decided
        <3>1. reply[c] # "action_outcome_unknown"
            BY <2>1, <2>2 DEF IInv, RepliesFollowCells, ReplyFollowsCell
        <3>2. shared[cell[c]].response # None
            BY <2>1 DEF UInv, AuditsFromCells
        <3>3. /\ shared[cell[c]].response # "action_outcome_unknown"
              /\ shared[cell[c]].response \in Answers \cup {None}
            BY <2>2 DEF IInv, CellsTruthful, CellTruthful, TypeOK, SharedResults, Cells
        <3>. QED BY <2>1, <3>1, <3>2, <3>3 DEF Decided
    <2>. QED BY <2>1, <2>2 DEF UInv, AuditsFromCells, IInv, CellsOwned, OwnsCell
<1>. QED BY <1>1, <1>2, <1>3

\* A decision in a cell stays a decision, and a loaded cell never changes.
LEMMA DecisionsStay ==
    ASSUME IInv, [Next]_vars, NEW k \in Cells
    PROVE  /\ shared[k].response \in Decided => shared'[k].response \in Decided
           /\ k \in RequestIds => shared'[k].response = shared[k].response
BY CellsChange, DecidedWords, AdminActionsAssumption

LEMMA StepKeepsDecidedEntries ==
    ASSUME LedgerHasRoom, FilesHaveRoom, IInv, LedgerMatchesOrder, UInv, [Next]_vars
    PROVE  DecidedEntries'
<1>. SUFFICES ASSUME NEW x \in TrackedLines(log'), NEW i, i = Lines(log')[x].id,
                     Lines(log')[x].outcome \in Decided
              PROVE  i \in DOMAIN ledger' /\ shared'[ledger'[i].cell].response \in Decided
    BY DEF DecidedEntries
<1>1. i \in DOMAIN ledger /\ shared[ledger[i].cell].response \in Decided
    <2>1. CASE x \in TrackedLines(log) /\ Lines(log')[x] = Lines(log)[x]
        BY <2>1 DEF UInv, DecidedEntries
    <2>2. ASSUME NEW c \in Calls, Says(c, Lines(log')[x])
          PROVE  i \in DOMAIN ledger /\ shared[ledger[i].cell].response \in Decided
        <3>1. AuditReply(c) /\ reply[c] \in Decided /\ i = request[c].id
            BY <2>2, DecidedWords DEF Says
        <3>. QED BY <3>1, WriterCell DEF Cells
    <2>. QED BY <2>1, <2>2, LinesGrow DEF UInv
<1>2. i \in DOMAIN ledger' /\ ledger'[i] = ledger[i] /\ ledger[i].cell \in Cells
    BY <1>1, NothingEvicted, EntriesStay DEF IInv, TypeOK, Ledgers
<1>. QED BY <1>1, <1>2, DecisionsStay

LEMMA StepKeepsDecisions ==
    ASSUME FilesHaveRoom, IInv, UInv, [Next]_vars
    PROVE  DecisionsStand'
<1>. SUFFICES ASSUME NEW x \in TrackedLines(log'), NEW y \in TrackedLines(log'), x < y,
                     Lines(log')[x].id = Lines(log')[y].id, Lines(log')[x].outcome \in Decided
              PROVE  Lines(log')[y].outcome \in Decided
    BY DEF DecisionsStand
<1>1. x \in Int /\ y \in Int /\ \A z \in TrackedLines(log) : z \in Int
    <2>1. log \in Log /\ log' \in Log
        BY NextKeepsInv DEF IInv, TypeOK
    <2>. QED BY <2>1, LinesOfLog DEF TrackedLines
<1>2. CASE y \in TrackedLines(log) /\ Lines(log')[y] = Lines(log)[y]
    <2>1. x \in TrackedLines(log) /\ Lines(log')[x] = Lines(log)[x]
        <3>1. ~(\A z \in TrackedLines(log) : z < x)
            BY <1>1, <1>2
        <3>. QED BY <3>1, LinesGrow DEF UInv
    <2>. QED BY <1>2, <2>1 DEF UInv, DecisionsStand
<1>3. ASSUME \A z \in TrackedLines(log) : z < y, NEW c \in Calls, Says(c, Lines(log')[y])
      PROVE  Lines(log')[y].outcome \in Decided
    <2>. DEFINE i == request[c].id
    <2>1. CASE x \in TrackedLines(log) /\ Lines(log')[x] = Lines(log)[x]
        <3>1. i \in DOMAIN ledger /\ shared[ledger[i].cell].response \in Decided
            BY <1>3, <2>1 DEF UInv, DecidedEntries, Says
        <3>2. ledger[i].cell = cell[c] /\ cell[c] \in Cells
            BY <1>3, WriterCell DEF Says
        <3>3. ~Accept(c)
            BY <3>1, <3>2, WriterCell, DecidedWords
        <3>. QED BY <1>3, <3>1, <3>2, <3>3, WriterCell DEF Says, Cells
    <2>2. ASSUME \A z \in TrackedLines(log) : z < x, NEW d \in Calls, Says(d, Lines(log')[x])
          PROVE  FALSE
        <3>1. x \notin TrackedLines(log) /\ y \notin TrackedLines(log)
            BY <1>1, <1>3, <2>2
        <3>2. x = y
            BY <3>1, LinesGrow DEF UInv
        <3>. QED BY <1>1, <3>2
    <2>. QED BY <2>1, <2>2, LinesGrow DEF UInv
<1>. QED BY <1>2, <1>3, LinesGrow DEF UInv

\* An identifier whose outcome is unknown stays so: nothing is written about it
\* but that.
LEMMA UnknownStays ==
    ASSUME LedgerHasRoom, FilesHaveRoom, IInv, LedgerMatchesOrder, UInv, [Next]_vars,
           NEW i, Unknown(i)
    PROVE  Unknown(i)'
<1>1. /\ "requested" \in Said(i) /\ Said(i) \subseteq {"requested", "action_outcome_unknown"}
      /\ i \in DOMAIN ledger /\ ledger[i].cell = i
      /\ shared[i].response = "action_outcome_unknown"
    BY DEF Unknown
<1>2. i \in RequestIds /\ i \in Cells
    BY <1>1 DEF IInv, TypeOK, Ledgers, Cells
<1>3. /\ i \in DOMAIN ledger' /\ ledger'[i].cell = i
      /\ shared'[i].response = "action_outcome_unknown"
    BY <1>1, <1>2, NothingEvicted, EntriesStay, DecisionsStay
<1>4. /\ \A x \in TrackedLines(log) :
            x \in TrackedLines(log') /\ Lines(log')[x] = Lines(log)[x]
      /\ \A x \in TrackedLines(log') :
            \/ x \in TrackedLines(log) /\ Lines(log')[x] = Lines(log)[x]
            \/ \E c \in Calls : Says(c, Lines(log')[x])
    BY LinesGrow DEF UInv
<1>5. "requested" \in Said(i)'
    BY <1>1, <1>4 DEF Said, LinesOf
<1>6. ASSUME NEW x \in TrackedLines(log'), Lines(log')[x].id = i
      PROVE  Lines(log')[x].outcome \in {"requested", "action_outcome_unknown"}
    <2>1. CASE x \in TrackedLines(log) /\ Lines(log')[x] = Lines(log)[x]
        BY <1>1, <1>6, <2>1 DEF Said, LinesOf
    <2>2. ASSUME NEW c \in Calls, Says(c, Lines(log')[x])
          PROVE  Lines(log')[x].outcome \in {"requested", "action_outcome_unknown"}
        BY <1>1, <1>2, <1>6, <2>2, WriterCell DEF Says
    <2>. QED BY <1>4, <2>1, <2>2
<1>. QED BY <1>3, <1>5, <1>6 DEF Unknown, Said, LinesOf

LEMMA StepKeepsUnknowns ==
    ASSUME LedgerHasRoom, FilesHaveRoom, IInv, LedgerMatchesOrder, UInv, [Next]_vars
    PROVE  UnknownsAgree'
<1>0. /\ UnknownsAgree /\ \A i : Unknown(i) => Unknown(i)'
    BY UnknownStays DEF UInv
<1>1. ASSUME NEW i \in DOMAIN ledger', ledger'[i].cell = i,
             shared'[i].response = "action_outcome_unknown"
      PROVE  Unknown(i)'
    <2>1. i \in RequestIds /\ i \in Cells
        BY NextKeepsInv DEF IInv, TypeOK, Ledgers, Cells
    <2>2. i \in DOMAIN ledger
        <3>1. ASSUME NEW c \in Calls, Admit(c) PROVE i \in DOMAIN ledger
            <4>1. CASE i = request[c].id
                <5>1. ledger'[i] = [payload |-> request[c].payload, cell |-> c]
                    BY <3>1, <4>1, AdmitEffect
                <5>. QED BY <1>1, <2>1, <5>1, AdminActionsAssumption
            <4>. QED BY <3>1, <4>1, AdmitEffect
        <3>. QED BY <3>1, LedgerFromAdmit DEF ledgerVars
    <2>3. ledger[i].cell = i /\ shared[i].response = "action_outcome_unknown"
        BY <1>1, <2>1, <2>2, EntriesStay, DecisionsStay
    <2>. QED BY <1>0, <2>2, <2>3 DEF UnknownsAgree
<1>2. ASSUME NEW c \in Calls, reply'[c] = "action_outcome_unknown", NEW i, i = request'[c].id
      PROVE  Unknown(i)'
    <2>1. CASE reply[c] = "action_outcome_unknown"
        <3>1. cell[c] # None
            BY <2>1 DEF IInv, RepliesFollowCells, ReplyFollowsCell, Answers
        <3>2. pc[c] # "idle"
            BY <3>1 DEF IInv, CellsOwned, OwnsCell
        <3>3. i = request[c].id
            BY <1>2, <3>2, RequestStays
        <3>. QED BY <1>0, <2>1, <3>3 DEF UnknownsAgree
    <2>2. CASE reply[c] # "action_outcome_unknown"
        <3>1. PICK d \in Calls : Handle(d)
            BY <1>2, <2>2 DEF Next, BeginTick, GameThread, EndTick, Pop, Skip, Claim, Execute,
               Publish, StopAccepting, AnswerAbandoned, callVars, vars
        <3>2. ReplayAnswer(c) \/ Answered(c)
            BY <1>2, <2>2, <3>1 DEF Handle, RejectUnauthenticated, RejectMalformed, Parse,
               RejectConflict, JoinOriginal, Admit, RefuseDisabled, RefuseUnsupported, PassGates,
               Accept, Refuse, RefuseUnaudited, Enqueue, RefuseStopping, Answered, TimeOut,
               ReplayAnswer, AuditReply, IInv, TypeOK
        <3>3. ~Answered(c)
            BY <1>2 DEF Answered, IInv, TypeOK, CellsTruthful, CellTruthful
        <3>4. /\ pc[c] = "replaying" /\ i = request[c].id
              /\ shared[cell[c]].response = "action_outcome_unknown"
            BY <1>2, <3>2, <3>3 DEF ReplayAnswer, IInv, TypeOK
        <3>5. i \in DOMAIN ledger /\ ledger[i].cell = cell[c] /\ cell[c] \in Cells
            BY <3>4 DEF UInv, InUseHeld, InUse, HoldsEntry, IInv, TypeOK, CellsOwned, OwnsCell
        <3>6. cell[c] \notin Calls
            BY <3>4 DEF IInv, CellsTruthful, CellTruthful
        <3>7. cell[c] = i
            BY <3>4, <3>5, <3>6 DEF Cells, IInv, CellsOwned, OwnsCell
        <3>. QED BY <1>0, <3>4, <3>5, <3>7 DEF UnknownsAgree
    <2>. QED BY <2>1, <2>2
<1>3. ASSUME NEW x \in TrackedLines(log'), Lines(log')[x].outcome = "action_outcome_unknown",
             NEW i, i = Lines(log')[x].id
      PROVE  Unknown(i)'
    <2>1. CASE x \in TrackedLines(log) /\ Lines(log')[x] = Lines(log)[x]
        BY <1>0, <1>3, <2>1 DEF UnknownsAgree
    <2>2. ASSUME NEW c \in Calls, Says(c, Lines(log')[x]) PROVE Unknown(i)'
        <3>1. reply[c] = "action_outcome_unknown" /\ i = request[c].id
            BY <1>3, <2>2 DEF Says
        <3>. QED BY <1>0, <3>1 DEF UnknownsAgree
    <2>. QED BY <2>1, <2>2, LinesGrow DEF UInv
<1>4. \A i \in DOMAIN ledger' :
          ledger'[i].cell = i /\ shared'[i].response = "action_outcome_unknown" => Unknown(i)'
    BY <1>1
<1>5. ASSUME NEW c \in Calls, reply'[c] = "action_outcome_unknown" PROVE Unknown(request[c].id)'
    BY <1>2, <1>5 DEF Unknown, Said
<1>6. ASSUME NEW x \in TrackedLines(log'), Lines(log')[x].outcome = "action_outcome_unknown"
      PROVE  Unknown(Lines(log)[x].id)'
    BY <1>3, <1>6 DEF Unknown, Said
<1>. QED BY <1>4, <1>5, <1>6 DEF UnknownsAgree

LEMMA StepKeepsUInv ==
    ASSUME LedgerHasRoom, FilesHaveRoom, IInv, LedgerMatchesOrder, UInv, [Next]_vars
    PROVE  UInv'
BY NextKeepsLinesCounted, StepKeepsInUseHeld, StepKeepsAudits, StepKeepsDecidedEntries,
   StepKeepsDecisions, StepKeepsUnknowns DEF UInv

\* The loader reads the last word on every identifier.
LEMMA RestartKeepsUInv ==
    ASSUME LedgerHasRoom, FilesHaveRoom, RInv, UInv, Restart
    PROVE  UInv'
<1>0. /\ IInv /\ LinesTyped /\ log \in Log
      /\ DecidedEntries /\ DecisionsStand /\ UnknownsAgree
    BY DEF RInv, Remembered, UInv, IInv, TypeOK
<1>1. /\ UNCHANGED <<request, cell, log>> /\ Load
      /\ \A c \in Calls : /\ pc'[c] \in {"idle", "done", "lost"}
                          /\ reply'[c] \in {reply[c], None}
    BY DEF Restart
<1>2. DOMAIN ledger' = RetainedIds(log) /\ RetainedIds(log) \subseteq RequestIds
    <2>1. RetainedIds(log) \subseteq RequestIds
        BY <1>0, RetainedFromLines DEF LinesTyped
    <2>2. Cardinality(RetainedIds(log)) <= Cardinality(RequestIds)
        BY <2>1, FS_Subset DEF LedgerHasRoom
    <2>3. /\ Cardinality(RetainedIds(log)) \in Nat /\ Cardinality(RequestIds) \in Nat
          /\ MaxIdempotencyRecords \in Nat
        BY <1>0, RetainedIsFinite, FS_CardinalityType, AdminActionsAssumption DEF LedgerHasRoom
    <2>4. Cardinality(RetainedIds(log)) <= MaxIdempotencyRecords
        BY <2>2, <2>3 DEF LedgerHasRoom
    <2>. QED BY <1>0, <1>1, <2>1, <2>4, LoadEffect
<1>3. ASSUME NEW i \in RetainedIds(log)
      PROVE  /\ i \in DOMAIN ledger' /\ ledger'[i].cell = i
             /\ \E x \in LinesOf(log, i) :
                   /\ \A y \in LinesOf(log, i) : y <= x
                   /\ shared'[i].response = LoadedOutcome(Lines(log)[x])
    <2>1. PICK l : Loaded(i, l)
        BY <1>0, <1>1, <1>2, LoadEffect
    <2>2. PICK x \in LinesOf(log, i) :
              LastLine(log, i) = Lines(log)[x] /\ \A y \in LinesOf(log, i) : y <= x
        BY <1>0, LinesOfId
    <2>3. shared'[i].response = LoadedOutcome(Lines(log)[x])
        BY <1>0, <2>1, <2>2, LoadedAnswer DEF Loaded
    <2>. QED BY <1>2, <2>1, <2>2, <2>3 DEF Loaded
<1>4. ASSUME NEW x \in TrackedLines(log)
      PROVE  Lines(log)[x].id \in RetainedIds(log) /\ x \in LinesOf(log, Lines(log)[x].id) /\ x \in Int
    BY <1>0, LinesOfLog DEF RetainedIds, LinesOf, TrackedLines
<1>5. ASSUME NEW x \in TrackedLines(log), Lines(log)[x].outcome \in Decided, NEW i, i = Lines(log)[x].id
      PROVE  i \in DOMAIN ledger' /\ ledger'[i].cell = i /\ shared'[i].response \in Decided
    <2>1. PICK y \in LinesOf(log, i) :
              /\ \A z \in LinesOf(log, i) : z <= y
              /\ shared'[i].response = LoadedOutcome(Lines(log)[y])
        BY <1>3, <1>4, <1>5
    <2>2. y \in TrackedLines(log) /\ Lines(log)[y].id = i /\ y \in Int /\ x \in Int /\ x <= y
        BY <1>4, <1>5, <2>1 DEF LinesOf
    <2>3. Lines(log)[y].outcome \in Decided
        BY <1>0, <1>5, <2>2 DEF DecisionsStand
    <2>4. LoadedOutcome(Lines(log)[y]) \in Decided
        BY <2>3, DecidedWords DEF LoadedOutcome
    <2>. QED BY <1>3, <1>4, <1>5, <2>1, <2>4
<1>6. ASSUME NEW i \in RetainedIds(log), Said(i) \subseteq {"requested", "action_outcome_unknown"},
             "requested" \in Said(i)
      PROVE  Unknown(i)'
    <2>1. PICK x \in LinesOf(log, i) : shared'[i].response = LoadedOutcome(Lines(log)[x])
        BY <1>3
    <2>2. shared'[i].response = "action_outcome_unknown"
        BY <1>6, <2>1 DEF Said, LoadedOutcome
    <2>. QED BY <1>1, <1>3, <1>6, <2>2 DEF Unknown, Said
<1>7. ASSUME NEW i, Unknown(i) PROVE Unknown(i)'
    <2>1. i \in RetainedIds(log)
        BY <1>7 DEF Unknown, Said, LinesOf, RetainedIds
    <2>. QED BY <1>6, <1>7, <2>1 DEF Unknown
<1>8. ASSUME NEW i \in RetainedIds(log), shared'[i].response = "action_outcome_unknown"
      PROVE  Unknown(i)'
    <2>1. PICK x \in LinesOf(log, i) :
              /\ \A y \in LinesOf(log, i) : y <= x
              /\ shared'[i].response = LoadedOutcome(Lines(log)[x])
        BY <1>3
    <2>2. x \in TrackedLines(log) /\ Lines(log)[x].id = i /\ x \in Int
        BY <1>4, <2>1 DEF LinesOf
    <2>3. Lines(log)[x].outcome \in {"requested", "action_outcome_unknown"}
        BY <1>8, <2>1 DEF LoadedOutcome
    <2>4. CASE Lines(log)[x].outcome = "action_outcome_unknown"
        BY <1>0, <1>7, <2>2, <2>4 DEF UnknownsAgree
    <2>5. CASE Lines(log)[x].outcome = "requested"
        <3>1. ASSUME NEW y \in LinesOf(log, i)
              PROVE  Lines(log)[y].outcome \in {"requested", "action_outcome_unknown"}
            <4>1. y \in TrackedLines(log) /\ Lines(log)[y].id = i /\ y <= x /\ y \in Int
                BY <1>4, <2>1, <3>1 DEF LinesOf
            <4>2. Lines(log)[y].outcome \notin Decided
                BY <1>0, <2>2, <2>5, <4>1, DecidedWords DEF DecisionsStand
            <4>. QED BY <1>0, <4>1, <4>2, WhatLinesSay
        <3>2. Said(i) \subseteq {"requested", "action_outcome_unknown"}
            BY <3>1 DEF Said
        <3>3. "requested" \in Said(i)
            BY <2>1, <2>5 DEF Said
        <3>. QED BY <1>6, <3>2, <3>3
    <2>. QED BY <2>3, <2>4, <2>5
<1>9. LinesCounted' /\ InUseHeld' /\ AuditsFromCells' /\ DecisionsStand'
    <2>1. DecisionsStand'
        BY <1>0, <1>1 DEF DecisionsStand
    <2>. QED BY <1>0, <1>1, <2>1, RestartKeepsLinesCounted DEF UInv, InUseHeld, InUse, AuditsFromCells
<1>10. DecidedEntries'
    BY <1>1, <1>5 DEF DecidedEntries
<1>11. ASSUME NEW c \in Calls, reply'[c] = "action_outcome_unknown" PROVE Unknown(request[c].id)'
    <2>1. PICK i : i = request[c].id
        OBVIOUS
    <2>2. reply[c] = "action_outcome_unknown"
        BY <1>1, <1>11, OtherWords, AdminActionsAssumption DEF LineOutcomes, Replies, Answers
    <2>3. Unknown(i)
        BY <1>0, <2>1, <2>2 DEF UnknownsAgree
    <2>4. Unknown(i)'
        BY <1>7, <2>3
    <2>. QED BY <1>1, <2>1, <2>4 DEF Unknown, Said
<1>12. ASSUME NEW x \in TrackedLines(log'), Lines(log')[x].outcome = "action_outcome_unknown"
       PROVE  Unknown(Lines(log)[x].id)'
    <2>1. PICK i : i = Lines(log)[x].id
        OBVIOUS
    <2>2. Unknown(i)
        BY <1>0, <1>1, <1>12, <2>1 DEF UnknownsAgree
    <2>3. Unknown(i)'
        BY <1>7, <2>2
    <2>. QED BY <1>1, <2>1, <2>3 DEF Unknown, Said
<1>13. UnknownsAgree'
    BY <1>2, <1>8, <1>11, <1>12 DEF UnknownsAgree
<1>. QED BY <1>9, <1>10, <1>13 DEF UInv

\* "Nobody knows" is said only of a request that was accepted and of which the
\* journal tells no outcome, as long as ledger and files have room.
THEOREM UnknownIsHonest ==
    LedgerHasRoom /\ FilesHaveRoom => (RestartSpec => []UnknownMeansAccepted)
<1>. SUFFICES ASSUME LedgerHasRoom, FilesHaveRoom PROVE RestartSpec => []UnknownMeansAccepted
    OBVIOUS
<1>1. ASSUME RestartInit PROVE UInv
    <2>1. /\ log = EmptyLog /\ DOMAIN ledger = {}
          /\ pc = [c \in Calls |-> "idle"] /\ reply = [c \in Calls |-> None]
        BY <1>1 DEF RestartInit, Init
    <2>2. TrackedLines(log) = {}
        BY <2>1 DEF EmptyLog, TrackedLines, Lines
    <2>3. None # "action_outcome_unknown"
        BY AdminActionsAssumption DEF LineOutcomes, Replies, Answers
    <2>4. LinesCounted
        <3>1. Begun \in SUBSET Calls /\ Ended \in SUBSET Calls
            BY DEF Begun, Ended
        <3>2. Cardinality(Begun) \in Nat /\ Cardinality(Ended) \in Nat
            BY <3>1, CountCalls
        <3>. QED BY <2>1, <3>2 DEF EmptyLog, LinesCounted
    <2>5. InUseHeld /\ AuditsFromCells
        BY <2>1 DEF InUseHeld, InUse, AuditsFromCells
    <2>6. DecidedEntries /\ DecisionsStand /\ UnknownsAgree
        BY <2>1, <2>2, <2>3 DEF DecidedEntries, DecisionsStand, UnknownsAgree
    <2>. QED BY <2>4, <2>5, <2>6 DEF UInv
<1>2. ASSUME RInv, UInv, [RestartNext]_allVars PROVE UInv'
    <2>1. CASE (Next /\ ForgetBetweenRestarts) \/ UNCHANGED allVars
        <3>1. IInv /\ LedgerMatchesOrder /\ [Next]_vars
            BY <1>2, <2>1, StepsLive DEF RInv, Remembered, Lives
        <3>. QED BY <1>2, <3>1, StepKeepsUInv
    <2>2. CASE Restart /\ ForgetAtRestart
        BY <1>2, <2>2, RestartKeepsUInv
    <2>. QED BY <1>2, <2>1, <2>2 DEF RestartNext
<1>3. ASSUME UInv PROVE UnknownMeansAccepted
    BY <1>3 DEF UInv, UnknownsAgree, Unknown, Said, UnknownMeansAccepted
<1>. QED BY <1>1, <1>2, <1>3, RestartInvariantHolds, PTL DEF RestartSpec
=============================================================================
