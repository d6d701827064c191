-------------------------- MODULE AdminActionsRestart --------------------------
(***************************************************************************)
(* AdminActionService over several lives of the game server: the process   *)
(* ends at any point (a crash, or a clean stop once every call is done)    *)
(* and the next one rebuilds the idempotency ledger from the journal       *)
(* (load_idempotency_records, src/src/admin_actions.cpp).                  *)
(***************************************************************************)
EXTENDS AdminActions

CONSTANT MaxRestarts  \* bound on the number of restarts

ASSUME RestartAssumption == MaxRestarts \in Nat

VARIABLES
    restarts,
    forgettable  \* history: identifiers the service had to forget, or may forget
                 \* at its next start

allVars == <<vars, restarts, forgettable>>

\* Mutant of Newest: the oldest identifiers are kept.
Oldest(o) ==
    IF Len(o) > MaxIdempotencyRecords THEN SubSeq(o, 1, MaxIdempotencyRecords + 1) ELSE o

\* The constructor trims what it loaded to the newest identifiers.
Newest(o) ==
    IF Len(o) > MaxIdempotencyRecords
    THEN SubSeq(o, Len(o) - MaxIdempotencyRecords + 1, Len(o))
    ELSE o

\* load_idempotency_records(): each retained identifier gets a cell that
\* already holds its answer.
Load ==
    \E o \in LoadOrders(log) :
        /\ order' = Newest(o)
        /\ ledger' = [i \in Elements(Newest(o)) |->
                         [payload |-> LastLine(log, i).payload, cell |-> i]]
        /\ shared' = [k \in Cells |->
                         IF k \in Elements(Newest(o))
                         THEN [FreshResult EXCEPT !.response = LoadedOutcome(LastLine(log, k))]
                         ELSE FreshResult]

\* Only the journal survives.  The calls in flight are lost: their clients see
\* the connection close and may repeat them.
Restart ==
    /\ restarts < MaxRestarts
    /\ restarts' = restarts + 1
    /\ pc' = [c \in Calls |-> IF pc[c] \in {"idle", "done"} THEN pc[c] ELSE "lost"]
    /\ reply' = [c \in Calls |-> IF pc[c] = "done" THEN reply[c] ELSE None]
    /\ Load
    /\ pending' = <<>>
    /\ gpc' = "idle" /\ current' = None /\ execution' = None /\ processed' = 0
    /\ stopping' = FALSE /\ abandoned' = <<>>
    /\ UNCHANGED <<request, cell, log, runs>>

-----------------------------------------------------------------------------
(* Forgetting, by the limits the code sets itself: an identifier is evicted   *)
(* from the ledger, or trimmed when it is loaded; the last line that records  *)
(* it is rotated away; or the line that accepts it is glued to the fragment   *)
(* of an earlier write that failed, and reported as written.                  *)

\* The identifiers that a readable line says were accepted or answered.
RecordedIds(l) ==
    {Lines(l)[i].id : i \in {j \in DOMAIN Lines(l) :
                                Lines(l)[j].outcome \in Answers \cup {"requested"}}}

Glued ==
    IF log.torn /\ ~Full(log)
    THEN {request[c].id : c \in {d \in Calls : pc[d] = "accept" /\ pc'[d] = "enqueue"}}
    ELSE {}

ForgetBetweenRestarts ==
    forgettable' = forgettable \cup (DOMAIN ledger \ DOMAIN ledger')
                       \cup (RecordedIds(log) \ RecordedIds(log')) \cup Glued

ForgetAtRestart ==
    forgettable' = forgettable \cup
        (IF Cardinality(RetainedIds(log)) > MaxIdempotencyRecords
         THEN RetainedIds(log) \ DOMAIN ledger' ELSE {})

-----------------------------------------------------------------------------

RestartInit == Init /\ restarts = 0 /\ forgettable = {}

RestartNext ==
    \/ Next /\ ForgetBetweenRestarts /\ UNCHANGED restarts
    \/ Restart /\ ForgetAtRestart

RestartSpec == RestartInit /\ [][RestartNext]_allVars

-----------------------------------------------------------------------------
(* Properties *)

\* What a client is told from the journal is what happened in an earlier life:
\* a reported execution took place for the same request, and a request the
\* journal calls refused was never run, unless it had to be forgotten: one that
\* was run and forgotten may be sent, and refused, again.
JournalAnswersAreTruthful ==
    \A c \in Calls : cell[c] \in RequestIds =>
        /\ reply[c] \in ExecutionOutcomes =>
              \E d \in Calls : request[d] = request[c] /\ runs[d] = <<reply[c]>>
        /\ reply[c] \in Refusals =>
              \/ request[c].id \in forgettable
              \/ \A d \in Calls : request[d] = request[c] => runs[d] = <<>>

\* "The outcome is unknown" is said only of a request that was accepted in an
\* earlier life, and only when no line says how it ended.
UnknownMeansAccepted ==
    \A c \in Calls : reply[c] = "action_outcome_unknown" =>
        LET said == {Lines(log)[i].outcome : i \in LinesOf(log, request[c].id)}
        IN  /\ "requested" \in said
            /\ said \subseteq {"requested", "action_outcome_unknown"}

\* docs/ADMIN-ACTIONS.md: "retry guarantees cover the retained administrator-
\* readable audit window".  An identifier with a tracked line in either file is
\* never taken for a new one, before or after a restart or a rotation, unless
\* the ledger had no room for it.
RetainedIdsAreKnown ==
    [][\A c \in Calls : pc[c] = "lookup" /\ pc'[c] = "gates" =>
            request[c].id \notin RetainedIds(log) \ forgettable]_allVars

\* An identifier is executed a second time only if one of the limits made the
\* service forget it in between: no crash, failed write, rotation or restart
\* does so in any other way.
AtMostOnceUnlessForgotten ==
    \A c, d \in Calls :
        runs[c] # <<>> /\ runs[d] # <<>> /\ request[c].id = request[d].id =>
            (c = d /\ Len(runs[c]) = 1) \/ request[c].id \in forgettable
=============================================================================
