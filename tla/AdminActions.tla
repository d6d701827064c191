----------------------------- MODULE AdminActions -----------------------------
(***************************************************************************)
(* AdminActionService (src/src/admin_actions.cpp): the hand-over of        *)
(* teleport requests from HTTP worker threads to the game thread.          *)
(*                                                                         *)
(*   * every call c is one execution of handle() on a worker thread;       *)
(*   * the game thread runs process_pending() on engine ticks;             *)
(*   * another thread may run shutdown();                                  *)
(*   * the SharedResult objects are cells.  The cell of an accepted        *)
(*     request is named by the call that created it, the cell of a result  *)
(*     loaded from the journal by its request identifier.                  *)
(*                                                                         *)
(* A step is one critical section (queue_mutex_, idempotency_mutex_, a     *)
(* cell's mutex, audit_mutex_) or one call of the executor.  A payload is  *)
(* the canonical fingerprint of a request, which includes its action.      *)
(***************************************************************************)
EXTENDS AuditLog

CONSTANTS
    Calls,                  \* executions of handle(), each happens once
    RequestIds,
    Payloads,
    ConfiguredPayloads,     \* those whose action the configuration enables
    ExecutionErrors,        \* errors the executor returns
    MaxIdempotencyRecords,  \* maximum_idempotency_records
    MaxActions,             \* actions one tick may process
    None

Refusals ==
    {"admin_action_disabled", "action_not_supported", "audit_unavailable",
     "companion_stopping", "game_thread_unavailable"}

ExecutionOutcomes == {"succeeded"} \cup ExecutionErrors

\* What a SharedResult can hold.
Answers == Refusals \cup ExecutionOutcomes \cup {"action_outcome_unknown"}

\* What handle() can return, and what a line of the journal can say.
Replies == Answers \cup Untracked
LineOutcomes == Replies \cup {"requested", "unreadable"}

Requests == [id : RequestIds, payload : Payloads]

\* No execution error is the name of a refusal, or the word AdminActionPromise
\* has for all of them: the executor of a build without hooks would answer
\* "action_not_supported", but it supports no action.
ASSUME AdminActionsAssumption ==
    /\ Calls \cap RequestIds = {}
    /\ None \notin Calls \cup RequestIds \cup Payloads \cup LineOutcomes
    /\ None \notin Requests
    /\ ConfiguredPayloads \subseteq Payloads
    /\ ExecutionErrors \cap (Refusals \cup Untracked
            \cup {"succeeded", "action_outcome_unknown", "requested", "unreadable", "refused"}) = {}
    /\ MaxIdempotencyRecords \in Nat \ {0}
    /\ MaxActions \in Nat \ {0}

Cells == Calls \cup RequestIds

VARIABLES
    pc,         \* where each call is in handle()
    request,    \* its parsed request
    cell,       \* the SharedResult it holds
    reply,      \* the response it will send
    ledger,     \* idempotency_: id |-> fingerprint and cell
    order,      \* idempotency_order_
    shared,     \* the SharedResult objects
    pending,    \* pending_: an entry is named by its call
    gpc,        \* where the game thread is in process_pending()
    current,    \* the entry the game thread has popped
    execution,  \* what the executor returned for it
    processed,  \* the loop counter of process_pending()
    stopping,   \* stopping_
    abandoned,  \* the entries shutdown() swapped out and has yet to complete
    log,        \* the audit journal
    runs        \* history: what the executor returned for each call's request

callVars == <<pc, request, cell, reply>>
ledgerVars == <<ledger, order>>
gameVars == <<gpc, current, execution, processed>>
stopVars == <<stopping, abandoned>>
vars == <<callVars, ledgerVars, shared, pending, gameVars, stopVars, log, runs>>

FreshResult == [response |-> None, claimed |-> FALSE, cancelled |-> FALSE]

Init ==
    /\ pc = [c \in Calls |-> "idle"]
    /\ request = [c \in Calls |-> None]
    /\ cell = [c \in Calls |-> None]
    /\ reply = [c \in Calls |-> None]
    /\ ledger = [i \in {} |-> None]
    /\ order = <<>>
    /\ shared = [k \in Cells |-> FreshResult]
    /\ pending = <<>>
    /\ gpc = "idle" /\ current = None /\ execution = None /\ processed = 0
    /\ stopping = FALSE /\ abandoned = <<>>
    /\ log = EmptyLog
    /\ runs = [c \in Calls |-> <<>>]

-----------------------------------------------------------------------------
(* Helpers *)

Goto(c, label) == pc' = [pc EXCEPT ![c] = label]

\* complete(): the answer of a cell is overwritten whatever it held.
Complete(k, answer) == shared' = [shared EXCEPT ![k].response = answer]

\* audit(): true is returned after the line was flushed, false otherwise.
AuditSucceeds(c, outcome) ==
    log' = Appended(log, [id |-> request[c].id, payload |-> request[c].payload,
                          outcome |-> outcome])
AuditFails == log' \in FailedWrites(log)

\* The line of a rejected call.  The ledger is never rebuilt from these lines,
\* so the fields they may hold are left out.
AnonymousAudit(outcome) ==
    \/ log' = Appended(log, [id |-> None, payload |-> None, outcome |-> outcome])
    \/ AuditFails

-----------------------------------------------------------------------------
(* handle(): parsing and the idempotency ledger *)

\* The HTTP route refuses the call and audits it; handle() is never entered.
RejectUnauthenticated(c) ==
    /\ pc[c] = "idle"
    /\ reply' = [reply EXCEPT ![c] = "authentication_required"]
    /\ Goto(c, "done")
    /\ AnonymousAudit("authentication_required")
    /\ UNCHANGED <<request, cell, ledgerVars, shared, pending, gameVars, stopVars, runs>>

RejectMalformed(c) ==
    /\ pc[c] = "idle"
    /\ reply' = [reply EXCEPT ![c] = "invalid_request"]
    /\ Goto(c, "done")
    /\ AnonymousAudit("invalid_request")
    /\ UNCHANGED <<request, cell, ledgerVars, shared, pending, gameVars, stopVars, runs>>

Parse(c) ==
    /\ pc[c] = "idle"
    /\ \E r \in Requests : request' = [request EXCEPT ![c] = r]
    /\ Goto(c, "lookup")
    /\ UNCHANGED <<cell, reply, ledgerVars, shared, pending, gameVars, stopVars, log, runs>>

\* Mutant of Known: a request is known only once it has an answer.
KnownWhenAnswered(c) ==
    request[c].id \in DOMAIN ledger /\ shared[ledger[request[c].id].cell].response # None

Known(c) == request[c].id \in DOMAIN ledger

\* Mutant of SamePayload: the fingerprint is not compared.
AnyPayload(c) == TRUE

SamePayload(c) == ledger[request[c].id].payload = request[c].payload

\* The conflict is audited before the ledger is unlocked.
RejectConflict(c) ==
    /\ pc[c] = "lookup" /\ Known(c) /\ ~SamePayload(c)
    /\ reply' = [reply EXCEPT ![c] = "idempotency_conflict"]
    /\ Goto(c, "done")
    /\ AuditSucceeds(c, "idempotency_conflict") \/ AuditFails
    /\ UNCHANGED <<request, cell, ledgerVars, shared, pending, gameVars, stopVars, runs>>

JoinOriginal(c) ==
    /\ pc[c] = "lookup" /\ Known(c) /\ SamePayload(c)
    /\ cell' = [cell EXCEPT ![c] = ledger[request[c].id].cell]
    /\ Goto(c, "replaying")
    /\ UNCHANGED <<request, reply, ledgerVars, shared, pending, gameVars, stopVars, log, runs>>

\* Mutant of Admit: the eviction forgets the order but not the entry.
AdmitWithoutErasing(c) ==
    LET id == request[c].id
        longer == Append(order, id)
        evict == Len(longer) > MaxIdempotencyRecords
    IN  /\ pc[c] = "lookup" /\ ~Known(c)
        /\ ledger' = [i \in DOMAIN ledger \cup {id} |->
                         IF i = id THEN [payload |-> request[c].payload, cell |-> c] ELSE ledger[i]]
        /\ order' = IF evict THEN Tail(longer) ELSE longer
        /\ cell' = [cell EXCEPT ![c] = c]
        /\ Goto(c, "gates")
        /\ UNCHANGED <<request, reply, shared, pending, gameVars, stopVars, log, runs>>

\* A new identifier enters the ledger; beyond the limit the oldest leaves it.
\* The ledger holds at most the limit before the insertion, so one eviction
\* is all the loop in the code ever does.
Admit(c) ==
    LET id == request[c].id
        longer == Append(order, id)
        evict == Len(longer) > MaxIdempotencyRecords
        kept == IF evict THEN (DOMAIN ledger \cup {id}) \ {Head(longer)}
                ELSE DOMAIN ledger \cup {id}
    IN  /\ pc[c] = "lookup" /\ ~Known(c)
        /\ ledger' = [i \in kept |-> IF i = id THEN [payload |-> request[c].payload, cell |-> c]
                                     ELSE ledger[i]]
        /\ order' = IF evict THEN Tail(longer) ELSE longer
        /\ cell' = [cell EXCEPT ![c] = c]
        /\ Goto(c, "gates")
        /\ UNCHANGED <<request, reply, shared, pending, gameVars, stopVars, log, runs>>

-----------------------------------------------------------------------------
(* handle(): the gates and the queue *)

\* The call is answered without being queued: its cell is completed, so that
\* repeated calls wake up, and the refusal is audited next.
Refuse(c, answer) ==
    /\ Complete(c, answer)
    /\ reply' = [reply EXCEPT ![c] = answer]
    /\ Goto(c, "audit")
    /\ UNCHANGED <<request, cell, ledgerVars, pending, gameVars, stopVars, log, runs>>

RefuseDisabled(c) ==
    /\ pc[c] = "gates" /\ request[c].payload \notin ConfiguredPayloads
    /\ Refuse(c, "admin_action_disabled")

\* Mutant of RefuseUnsupported: an early return that completes nothing.
RefuseUnsupportedSilently(c) ==
    /\ pc[c] = "gates" /\ request[c].payload \in ConfiguredPayloads
    /\ reply' = [reply EXCEPT ![c] = "action_not_supported"]
    /\ Goto(c, "audit")
    /\ UNCHANGED <<request, cell, ledgerVars, shared, pending, gameVars, stopVars, log, runs>>

\* supports() is an atomic flag that a probe on the game thread may flip
\* between any two calls: it answers either way.
RefuseUnsupported(c) ==
    /\ pc[c] = "gates" /\ request[c].payload \in ConfiguredPayloads
    /\ Refuse(c, "action_not_supported")

PassGates(c) ==
    /\ pc[c] = "gates" /\ request[c].payload \in ConfiguredPayloads
    /\ Goto(c, "accept")
    /\ UNCHANGED <<request, cell, reply, ledgerVars, shared, pending, gameVars, stopVars, log, runs>>

\* Mutant of Accept: the result of audit() is ignored.
AcceptUnaudited(c) ==
    /\ pc[c] = "accept"
    /\ AuditSucceeds(c, "requested") \/ AuditFails
    /\ Goto(c, "enqueue")
    /\ UNCHANGED <<request, cell, reply, ledgerVars, shared, pending, gameVars, stopVars, runs>>

Accept(c) ==
    /\ pc[c] = "accept"
    /\ AuditSucceeds(c, "requested")
    /\ Goto(c, "enqueue")
    /\ UNCHANGED <<request, cell, reply, ledgerVars, shared, pending, gameVars, stopVars, runs>>

\* Mutant of RefuseUnaudited: the cell is not completed.
RefuseUnauditedSilently(c) ==
    /\ pc[c] = "accept"
    /\ AuditFails
    /\ reply' = [reply EXCEPT ![c] = "audit_unavailable"]
    /\ Goto(c, "done")
    /\ UNCHANGED <<request, cell, ledgerVars, shared, pending, gameVars, stopVars, runs>>

\* No journal line, no action; this answer itself is not audited.
RefuseUnaudited(c) ==
    /\ pc[c] = "accept"
    /\ AuditFails
    /\ Complete(c, "audit_unavailable")
    /\ reply' = [reply EXCEPT ![c] = "audit_unavailable"]
    /\ Goto(c, "done")
    /\ UNCHANGED <<request, cell, ledgerVars, pending, gameVars, stopVars, runs>>

Enqueue(c) ==
    /\ pc[c] = "enqueue" /\ ~stopping
    /\ pending' = Append(pending, c)
    /\ Goto(c, "waiting")
    /\ UNCHANGED <<request, cell, reply, ledgerVars, shared, gameVars, stopVars, log, runs>>

\* The code audits this answer before it releases queue_mutex_; releasing it
\* earlier, as here, only allows more interleavings.
RefuseStopping(c) ==
    /\ pc[c] = "enqueue" /\ stopping
    /\ Refuse(c, "companion_stopping")

-----------------------------------------------------------------------------
(* handle(): waiting for the answer *)

Answered(c) ==
    /\ pc[c] = "waiting" /\ shared[c].response # None
    /\ reply' = [reply EXCEPT ![c] = shared[c].response]
    /\ Goto(c, "audit")
    /\ UNCHANGED <<request, cell, ledgerVars, shared, pending, gameVars, stopVars, log, runs>>

\* Mutant of TimeOut: the deadline does not look at the claim.
TimeOutClaimed(c) ==
    /\ pc[c] = "waiting" /\ shared[c].response = None
    /\ shared' = [shared EXCEPT ![c].cancelled = TRUE,
                                ![c].response = "game_thread_unavailable"]
    /\ reply' = [reply EXCEPT ![c] = "game_thread_unavailable"]
    /\ Goto(c, "audit")
    /\ UNCHANGED <<request, cell, ledgerVars, pending, gameVars, stopVars, log, runs>>

\* The deadline passes.  When the game thread has claimed the entry the call
\* goes on waiting, which is no step.
TimeOut(c) ==
    /\ pc[c] = "waiting" /\ shared[c].response = None /\ ~shared[c].claimed
    /\ shared' = [shared EXCEPT ![c].cancelled = TRUE,
                                ![c].response = "game_thread_unavailable"]
    /\ reply' = [reply EXCEPT ![c] = "game_thread_unavailable"]
    /\ Goto(c, "audit")
    /\ UNCHANGED <<request, cell, ledgerVars, pending, gameVars, stopVars, log, runs>>

\* A repeated call waits, with no deadline, for the answer of the original.
ReplayAnswer(c) ==
    /\ pc[c] = "replaying" /\ shared[cell[c]].response # None
    /\ reply' = [reply EXCEPT ![c] = shared[cell[c]].response]
    /\ Goto(c, "audit")
    /\ UNCHANGED <<request, cell, ledgerVars, shared, pending, gameVars, stopVars, log, runs>>

\* The final record; the answer is sent whether or not it could be written.
AuditReply(c) ==
    /\ pc[c] = "audit"
    /\ AuditSucceeds(c, reply[c]) \/ AuditFails
    /\ Goto(c, "done")
    /\ UNCHANGED <<request, cell, reply, ledgerVars, shared, pending, gameVars, stopVars, runs>>

Handle(c) ==
    \/ RejectUnauthenticated(c) \/ RejectMalformed(c) \/ Parse(c)
    \/ RejectConflict(c) \/ JoinOriginal(c) \/ Admit(c)
    \/ RefuseDisabled(c) \/ RefuseUnsupported(c) \/ PassGates(c)
    \/ Accept(c) \/ RefuseUnaudited(c) \/ Enqueue(c) \/ RefuseStopping(c)
    \/ Answered(c) \/ TimeOut(c) \/ ReplayAnswer(c) \/ AuditReply(c)

-----------------------------------------------------------------------------
(* process_pending() on the game thread *)

BeginTick ==
    /\ gpc = "idle"
    /\ gpc' = "pop" /\ processed' = 0
    /\ UNCHANGED <<callVars, ledgerVars, shared, pending, current, execution, stopVars, log, runs>>

EndTick ==
    /\ gpc = "pop"
    /\ processed = MaxActions \/ stopping \/ pending = <<>>
    /\ gpc' = "idle" /\ processed' = 0
    /\ UNCHANGED <<callVars, ledgerVars, shared, pending, current, execution, stopVars, log, runs>>

\* Mutant of Pop: the tick has no budget.
PopUnbounded ==
    /\ gpc = "pop" /\ ~stopping /\ pending # <<>>
    /\ current' = Head(pending) /\ pending' = Tail(pending)
    /\ gpc' = "claim"
    /\ UNCHANGED <<callVars, ledgerVars, shared, execution, processed, stopVars, log, runs>>

\* Mutant of Pop: the entry is read and left in the queue.
Peek ==
    /\ gpc = "pop" /\ processed < MaxActions /\ ~stopping /\ pending # <<>>
    /\ current' = Head(pending)
    /\ gpc' = "claim"
    /\ UNCHANGED <<callVars, ledgerVars, shared, pending, execution, processed, stopVars, log, runs>>

Pop ==
    /\ gpc = "pop" /\ processed < MaxActions /\ ~stopping /\ pending # <<>>
    /\ current' = Head(pending) /\ pending' = Tail(pending)
    /\ gpc' = "claim"
    /\ UNCHANGED <<callVars, ledgerVars, shared, execution, processed, stopVars, log, runs>>

NextEntry ==
    /\ gpc' = "pop" /\ current' = None /\ execution' = None
    /\ processed' = processed + 1

\* Timed out or answered in the meantime: the entry is dropped.
Skip ==
    /\ gpc = "claim"
    /\ shared[current].cancelled \/ shared[current].response # None
    /\ NextEntry
    /\ UNCHANGED <<callVars, ledgerVars, shared, pending, stopVars, log, runs>>

\* Mutant of Claim: what happened while the entry was in the queue is ignored.
ClaimAlways ==
    /\ gpc = "claim"
    /\ shared' = [shared EXCEPT ![current].claimed = TRUE]
    /\ gpc' = "execute"
    /\ UNCHANGED <<callVars, ledgerVars, pending, current, execution, processed, stopVars, log, runs>>

Claim ==
    /\ gpc = "claim"
    /\ ~shared[current].cancelled /\ shared[current].response = None
    /\ shared' = [shared EXCEPT ![current].claimed = TRUE]
    /\ gpc' = "execute"
    /\ UNCHANGED <<callVars, ledgerVars, pending, current, execution, processed, stopVars, log, runs>>

\* execute() of the adapter: moves the character, or reports why not.
Execute ==
    /\ gpc = "execute"
    /\ \E o \in ExecutionOutcomes :
          /\ execution' = o
          /\ runs' = [runs EXCEPT ![current] = Append(@, o)]
    /\ gpc' = "complete"
    /\ UNCHANGED <<callVars, ledgerVars, shared, pending, current, processed, stopVars, log>>

Publish ==
    /\ gpc = "complete"
    /\ Complete(current, execution)
    /\ NextEntry
    /\ UNCHANGED <<callVars, ledgerVars, pending, stopVars, log, runs>>

GameThread == EndTick \/ Pop \/ Skip \/ Claim \/ Execute \/ Publish

-----------------------------------------------------------------------------
(* shutdown() *)

StopAccepting ==
    /\ ~stopping
    /\ stopping' = TRUE
    /\ abandoned' = pending /\ pending' = <<>>
    /\ UNCHANGED <<callVars, ledgerVars, shared, gameVars, log, runs>>

AnswerAbandoned ==
    /\ abandoned # <<>>
    /\ Complete(Head(abandoned), "companion_stopping")
    /\ abandoned' = Tail(abandoned)
    /\ UNCHANGED <<callVars, ledgerVars, pending, gameVars, stopping, log, runs>>

-----------------------------------------------------------------------------

Next ==
    \/ \E c \in Calls : Handle(c)
    \/ BeginTick \/ GameThread
    \/ StopAccepting \/ AnswerAbandoned

Spec == Init /\ [][Next]_vars

-----------------------------------------------------------------------------
(* Properties *)

\* "lost": the process ended meanwhile (AdminActionsRestart only).
Labels == {"idle", "lookup", "gates", "accept", "enqueue", "waiting", "replaying",
           "audit", "done", "lost"}

Line == [id : RequestIds \cup {None}, payload : Payloads \cup {None}, outcome : LineOutcomes]
Log == [backup : Seq(Line), current : Seq(Line), torn : BOOLEAN]
SharedResults == [response : Answers \cup {None}, claimed : BOOLEAN, cancelled : BOOLEAN]
Ledgers == UNION {[S -> [payload : Payloads, cell : Cells]] : S \in SUBSET RequestIds}

\* Every variable stays in its range.
TypeOK ==
    /\ pc \in [Calls -> Labels]
    /\ request \in [Calls -> Requests \cup {None}]
    /\ cell \in [Calls -> Cells \cup {None}]
    /\ reply \in [Calls -> Replies \cup {None}]
    /\ ledger \in Ledgers
    /\ order \in Seq(RequestIds)
    /\ shared \in [Cells -> SharedResults]
    /\ pending \in Seq(Calls)
    /\ gpc \in {"idle", "pop", "claim", "execute", "complete"}
    /\ current \in Calls \cup {None}
    /\ execution \in ExecutionOutcomes \cup {None}
    /\ processed \in 0..MaxActions
    /\ stopping \in BOOLEAN
    /\ abandoned \in Seq(Calls)
    /\ log \in Log
    /\ runs \in [Calls -> Seq(ExecutionOutcomes)]

Elements(s) == {s[i] : i \in DOMAIN s}

\* A client told that its request was refused (disabled, unsupported, not
\* audited, companion stopping, game thread unavailable) is told the truth for
\* good: the request was not run before the answer and is never run after it,
\* although its entry may still be in the queue or in the game thread's hands.
RefusalsAreTruthful ==
    \A c \in Calls : reply[c] \in Refusals /\ cell[c] \in Calls => runs[cell[c]] = <<>>

\* A client told what the game did gets what the game did for that very
\* request, whether it made the original call or repeated it.
ReportsAreTruthful ==
    \A c \in Calls : reply[c] \in ExecutionOutcomes /\ cell[c] \in Calls =>
        /\ runs[cell[c]] = <<reply[c]>>
        /\ request[cell[c]] = request[c]

\* However often an identifier is sent, at most one teleport is attempted for
\* it (while the ledger has room for every identifier in use).
AtMostOncePerRequest ==
    \A c, d \in Calls :
        runs[c] # <<>> /\ runs[d] # <<>> /\ request[c].id = request[d].id =>
            c = d /\ Len(runs[c]) = 1

\* A teleport is attempted only for a request whose acceptance is already on
\* disk (while no line was rotated away).
AuditedBeforeExecution ==
    \A c \in Calls : runs[c] # <<>> =>
        \E i \in DOMAIN Lines(log) :
            Lines(log)[i] = [id |-> request[c].id, payload |-> request[c].payload,
                             outcome |-> "requested"]

\* The deadline and the game thread decide one race per entry: no entry is
\* both cancelled and claimed, a claimed one is out of the queue, and one still
\* in a queue either has its caller waiting or was cancelled by it.
OneFatePerEntry ==
    \A c \in Calls :
        /\ ~(shared[c].claimed /\ shared[c].cancelled)
        /\ c \in Elements(pending \o abandoned) =>
              /\ ~shared[c].claimed
              /\ pc[c] = "waiting" \/ shared[c].response # None

\* Nobody waits for a result that no thread is going to produce: the original
\* of a waiting repeat is on its way through handle() or has an answer.
RepeatsHaveALiveOriginal ==
    \A c \in Calls : pc[c] = "replaying" =>
        \/ shared[cell[c]].response # None
        \/ cell[c] \in Calls /\ pc[cell[c]] \in {"gates", "accept", "enqueue", "waiting"}

\* idempotency_ and idempotency_order_ name the same identifiers, each once,
\* never more than the limit: eviction always finds the entry it removes.
LedgerMatchesOrder ==
    /\ Elements(order) = DOMAIN ledger
    /\ \A i, j \in DOMAIN order : order[i] = order[j] => i = j
    /\ Len(order) <= MaxIdempotencyRecords

\* The answer that reports an execution is never replaced: shutdown, which
\* overwrites the cells of the entries it finds, never finds an executed one.
ReportsAreFinal ==
    [][\A k \in Cells : shared[k].response \in ExecutionOutcomes =>
            shared'[k].response = shared[k].response]_vars

\* Every call that entered handle() is answered (under the fairness stated in
\* CompanionShutdown), even when the game thread never ticks again, when the
\* companion stops or when its ledger entry was evicted: by the game thread, the
\* deadline, the shutdown or the original.
EveryCallAnswered == \A c \in Calls : pc[c] # "idle" ~> pc[c] = "done"

\* docs/ADMIN-ACTIONS.md: "Concurrent or later identical requests share the
\* original result".  The code breaks it: shutdown() completes entries whose
\* caller already timed out.
RepeatsShareTheOriginalResult ==
    \A c, d \in Calls :
        reply[c] \in Answers /\ reply[d] \in Answers /\ cell[c] = cell[d] => reply[c] = reply[d]

\* docs/ARCHITECTURE.md: "Shutdown cancels unclaimed work before joining the
\* listener."  The code breaks it: an entry the game thread has popped and not
\* yet claimed is in neither queue, and is claimed after shutdown() returned.
NothingIsClaimedAfterShutdown ==
    [][stopping /\ abandoned = <<>> =>
            \A c \in Calls : shared'[c].claimed => shared[c].claimed]_vars

-----------------------------------------------------------------------------
(* The service keeps the promise of AdminActionPromise. *)

Told(c) ==
    IF reply[c] \in Answers /\ pc[c] = "done"
    THEN [of |-> cell[c], says |-> IF reply[c] \in Refusals THEN "refused" ELSE reply[c]]
    ELSE None

Promise == INSTANCE AdminActionPromise WITH
    Outcomes <- ExecutionOutcomes,
    asked <- request,
    ran <- runs,
    refused <- {c \in Calls : shared[c].response \in Refusals},
    told <- [c \in Calls |-> Told(c)]

\* The service implements the promise: no step of any thread runs a refused
\* request, refuses a run one, runs an identifier twice or tells a client
\* something else.
KeepsThePromise == Promise!Spec
=============================================================================
