-------------------------- MODULE AdminActionsProofs --------------------------
(***************************************************************************)
(* Proofs about AdminActions for every number of calls, identifiers,       *)
(* payloads, errors and every limit: first the service (queue, answers,    *)
(* shutdown, journal), then its ledger (what idempotency_, the order of    *)
(* its identifiers and the journal promise about repeated requests).       *)
(***************************************************************************)
EXTENDS AdminActions, FiniteSetTheorems, TLAPS

-----------------------------------------------------------------------------
(* The journal *)

\* A successful write of a line leaves a journal.
LEMMA AppendedIsLog ==
    ASSUME NEW l \in Log, NEW line \in Line
    PROVE  Appended(l, line) \in Log
<1>1. Rotated(l) \in Log
    BY DEF Rotated, Log
<1>2. Writable(l) \in Log
    BY <1>1 DEF Writable
<1>3. [line EXCEPT !.outcome = "unreadable"] \in Line
    BY DEF Line, LineOutcomes
<1>. DEFINE w == Writable(l)
            e == IF w.torn THEN [line EXCEPT !.outcome = "unreadable"] ELSE line
<1>4. e \in Line /\ w \in Log
    BY <1>2, <1>3
<1>. HIDE DEF w, e
<1>5. Append(w.current, e) \in Seq(Line)
    BY <1>4 DEF Log
<1>6. [w EXCEPT !.current = Append(@, e), !.torn = FALSE] \in Log
    BY <1>4, <1>5 DEF Log
<1>. QED BY <1>6 DEF Appended, w, e

\* So does whatever a failing write leaves behind.
LEMMA FailedWriteIsLog ==
    ASSUME NEW l \in Log, NEW m \in FailedWrites(l)
    PROVE  m \in Log
<1>1. Rotated(l) \in Log
    BY DEF Rotated, Log
<1>2. Writable(l) \in Log
    BY <1>1 DEF Writable
<1>0. <<>> \in Seq(Line)
    OBVIOUS
<1>3. [l EXCEPT !.backup = <<>>] \in Log
    BY <1>0 DEF Log
<1>4. [Writable(l) EXCEPT !.torn = TRUE] \in Log
    BY <1>2 DEF Log
<1>. QED BY <1>1, <1>3, <1>4 DEF FailedWrites

\* A step that audits a parsed request keeps the journal typed.
LEMMA AuditKeepsLog ==
    ASSUME NEW c \in Calls, log \in Log, request[c] \in Requests,
           NEW o \in LineOutcomes, AuditSucceeds(c, o) \/ AuditFails
    PROVE  log' \in Log
<1>1. CASE AuditFails
    BY <1>1, FailedWriteIsLog DEF AuditFails
<1>2. CASE AuditSucceeds(c, o)
    <2>1. [id |-> request[c].id, payload |-> request[c].payload, outcome |-> o] \in Line
        BY DEF Line, Requests
    <2>. QED BY <1>2, <2>1, AppendedIsLog DEF AuditSucceeds
<1>. QED BY <1>1, <1>2

\* So does auditing a call that was rejected before it was parsed.
LEMMA AnonymousAuditKeepsLog ==
    ASSUME log \in Log, NEW o \in LineOutcomes, AnonymousAudit(o)
    PROVE  log' \in Log
<1>1. [id |-> None, payload |-> None, outcome |-> o] \in Line
    BY DEF Line
<1>. QED BY <1>1, AppendedIsLog, FailedWriteIsLog DEF AnonymousAudit, AuditFails

-----------------------------------------------------------------------------
(* The inductive invariant *)

\* What TypeOK leaves open: the fields that are set at each point of the code.
WellFormed ==
    /\ \A c \in Calls :
          /\ pc[c] \notin {"idle", "done", "lost"} => request[c] \in Requests
          /\ pc[c] = "audit" => reply[c] \in Answers
    /\ gpc \in {"idle", "pop"} => current = None
    /\ gpc \in {"claim", "execute", "complete"} => current \in Calls /\ processed < MaxActions
    /\ gpc = "complete" => execution \in ExecutionOutcomes

\* Who holds which cell: the original of a request its own, a repeat that of
\* an original that asked for the same thing or the one loaded for its
\* identifier.
OwnsCell(c) ==
    /\ pc[c] \in {"idle", "lookup"} => cell[c] = None
    /\ pc[c] \in {"gates", "accept", "enqueue", "waiting"} => cell[c] = c
    /\ pc[c] \in {"replaying", "audit"} => cell[c] # None
    /\ cell[c] # None => request[c] \in Requests
    /\ cell[c] \in Calls => cell[cell[c]] = cell[c] /\ request[cell[c]] = request[c]
    /\ cell[c] \in RequestIds => cell[c] = request[c].id

EntryOwned(i) ==
    \/ ledger[i].cell = i
    \/ /\ ledger[i].cell \in Calls
       /\ cell[ledger[i].cell] = ledger[i].cell
       /\ request[ledger[i].cell] = [id |-> i, payload |-> ledger[i].payload]

CellsOwned ==
    /\ \A c \in Calls : OwnsCell(c)
    /\ \A i \in DOMAIN ledger : EntryOwned(i)

\* The cell of a call that has not been queued yet is as it was created.
UntouchedBeforeDispatch ==
    \A c \in Calls :
        /\ cell[c] # c => shared[c] = FreshResult /\ runs[c] = <<>>
        /\ pc[c] \in {"gates", "accept", "enqueue"} => shared[c] = FreshResult /\ runs[c] = <<>>

Dispatched(c) ==
    /\ cell[c] = c
    /\ \/ pc[c] = "waiting"
       \/ pc[c] \in {"audit", "done"} /\ shared[c].response # None

Unstarted(c) == ~shared[c].claimed /\ runs[c] = <<>> /\ current # c

\* An entry is in one place at a time, and a queued one has not been started.
QueuesHoldUnstarted ==
    /\ \A i \in DOMAIN pending : Dispatched(pending[i]) /\ Unstarted(pending[i])
    /\ \A i \in DOMAIN abandoned : Dispatched(abandoned[i]) /\ Unstarted(abandoned[i])
    /\ \A i, j \in DOMAIN pending : pending[i] = pending[j] => i = j
    /\ \A i, j \in DOMAIN abandoned : abandoned[i] = abandoned[j] => i = j
    /\ stopping => pending = <<>>
    /\ ~stopping => abandoned = <<>>

\* The entry in the game thread's hands.
InHand ==
    /\ gpc \in {"claim", "execute", "complete"} => Dispatched(current)
    /\ gpc = "claim" => ~shared[current].claimed /\ runs[current] = <<>>
    /\ gpc \in {"execute", "complete"} =>
          /\ shared[current].claimed /\ ~shared[current].cancelled
          /\ shared[current].response = None
    /\ gpc = "execute" => runs[current] = <<>>
    /\ gpc = "complete" => runs[current] = <<execution>>

\* A cell says refused only if its request was not run and will not be claimed,
\* and reports what running it returned.
CellTruthful(c) ==
    /\ shared[c].response \in Refusals => ~shared[c].claimed /\ runs[c] = <<>>
    /\ shared[c].response \in ExecutionOutcomes =>
          shared[c].claimed /\ runs[c] = <<shared[c].response>>
    /\ shared[c].response # "action_outcome_unknown"
    /\ pc[c] = "waiting" /\ shared[c].response = None /\ c # current =>
          ~shared[c].claimed /\ runs[c] = <<>>
    /\ shared[c].cancelled => shared[c].response \in Refusals

CellsTruthful == \A c \in Calls : CellTruthful(c)

\* A call of an earlier life, whose cell is gone.
Over(c) == pc[c] \in {"done", "lost"} /\ shared[c].response = None

\* A reply repeats its cell, up to the kind of refusal.
ReplyFollowsCell(c) ==
    reply[c] \in Answers =>
        /\ cell[c] # None
        /\ cell[c] \in Calls =>
              /\ reply[c] # "action_outcome_unknown"
              /\ reply[c] \in Refusals =>
                    /\ runs[cell[c]] = <<>>
                    /\ shared[cell[c]].response \in Refusals \/ Over(cell[c])
              /\ reply[c] \in ExecutionOutcomes => runs[cell[c]] = <<reply[c]>>

RepliesFollowCells == \A c \in Calls : ReplyFollowsCell(c)

IInv ==
    /\ TypeOK
    /\ WellFormed
    /\ CellsOwned
    /\ UntouchedBeforeDispatch
    /\ QueuesHoldUnstarted
    /\ InHand
    /\ CellsTruthful
    /\ RepliesFollowCells

-----------------------------------------------------------------------------
(* One lemma per action *)

\* The rest of a queue.
LEMMA TailFacts ==
    ASSUME NEW S, NEW s \in Seq(S), s # <<>>
    PROVE  /\ Head(s) = s[1] /\ 1 \in DOMAIN s
           /\ \A i \in DOMAIN Tail(s) :
                 i \in Int /\ i >= 1 /\ i + 1 \in DOMAIN s /\ Tail(s)[i] = s[i + 1]
OBVIOUS

\* A queue that has grown.
LEMMA AppendFacts ==
    ASSUME NEW S, NEW s \in Seq(S), NEW x \in S
    PROVE  \A i \in DOMAIN Append(s, x) :
              \/ i \in DOMAIN s /\ Append(s, x)[i] = s[i]
              \/ i = Len(s) + 1 /\ Append(s, x)[i] = x
OBVIOUS

\* complete() replaces the answer of one cell.
LEMMA CompleteEffect ==
    ASSUME TypeOK, NEW k \in Cells, NEW a \in Answers, Complete(k, a)
    PROVE  /\ shared' \in [Cells -> SharedResults]
           /\ shared'[k] = [shared[k] EXCEPT !.response = a]
           /\ \A j \in Cells \ {k} : shared'[j] = shared[j]
<1>1. [shared[k] EXCEPT !.response = a] \in SharedResults
    BY DEF TypeOK, SharedResults
<1>. QED BY <1>1 DEF TypeOK, Complete

\* A cell that a step leaves alone, unless the game thread lets go of it.
LEMMA CellTruthStays ==
    ASSUME IInv, NEW c \in Calls, shared'[c] = shared[c], runs'[c] = runs[c],
           pc'[c] = "waiting" => pc[c] = "waiting",
           c = current => current' = current \/ pc[c] # "waiting" \/ shared[c].response # None
    PROVE  CellTruthful(c)'
BY DEF IInv, CellsTruthful, CellTruthful

\* What no step takes back: a refusal, an execution, the end of an earlier life.
Settling ==
    \A k \in Calls :
        /\ shared[k].response \in Refusals => shared'[k].response \in Refusals
        /\ Over(k) => Over(k)'
        /\ runs[k] # <<>> \/ shared[k].response \in Refusals \/ Over(k) => runs'[k] = runs[k]

\* Such a step keeps the replies that it does not give.
LEMMA RepliesStay ==
    ASSUME IInv, Settling,
           NEW c \in Calls, reply'[c] \in Answers => reply'[c] = reply[c] /\ cell'[c] = cell[c]
    PROVE  ReplyFollowsCell(c)'
BY DEF IInv, RepliesFollowCells, ReplyFollowsCell, Settling

\* A step of a call that touches no cell.
LEMMA CallSettles ==
    ASSUME TypeOK, NEW c \in Calls, NEW l, pc[c] \notin {"done", "lost"}, Goto(c, l),
           shared' = shared, runs' = runs
    PROVE  Settling
BY DEF TypeOK, Goto, Settling, Over

\* A step of a call that completes a cell it has not answered from yet.
LEMMA CompletionSettles ==
    ASSUME NEW k \in Calls, \A j \in Cells \ {k} : shared'[j] = shared[j],
           shared[k].response \in Refusals => shared'[k].response \in Refusals,
           ~Over(k), runs' = runs,
           \A j \in Calls : pc[j] \in {"done", "lost"} => pc'[j] = pc[j]
    PROVE  Settling
BY DEF Settling, Over, Cells

\* The call ends without a cell; only the journal and its reply change.
LEMMA RejectUnauthenticatedKeepsInv ==
    ASSUME IInv, NEW c \in Calls, RejectUnauthenticated(c)
    PROVE  IInv'
<1>a. log' \in Log
    BY AnonymousAuditKeepsLog DEF RejectUnauthenticated, IInv, TypeOK, LineOutcomes,
       Replies, Untracked
<1>1. TypeOK'
    BY <1>a, AdminActionsAssumption DEF RejectUnauthenticated, Goto, ledgerVars,
       gameVars, stopVars, IInv, TypeOK, Labels, Replies, Untracked
<1>2. WellFormed'
    BY <1>a DEF RejectUnauthenticated, Goto, ledgerVars, gameVars, stopVars, IInv,
       TypeOK, WellFormed
<1>3. CellsOwned'
    BY <1>a DEF RejectUnauthenticated, Goto, ledgerVars, gameVars, stopVars, IInv,
       TypeOK, CellsOwned, OwnsCell, EntryOwned
<1>4. UntouchedBeforeDispatch'
    BY <1>a DEF RejectUnauthenticated, Goto, ledgerVars, gameVars, stopVars, IInv,
       TypeOK, UntouchedBeforeDispatch, FreshResult
<1>5. QueuesHoldUnstarted'
    BY <1>a DEF RejectUnauthenticated, Goto, ledgerVars, gameVars, stopVars, IInv,
       TypeOK, QueuesHoldUnstarted, Dispatched, Unstarted
<1>6. InHand'
    BY <1>a DEF RejectUnauthenticated, Goto, ledgerVars, gameVars, stopVars, IInv,
       TypeOK, InHand, Dispatched
<1>7. CellsTruthful'
    BY <1>a DEF RejectUnauthenticated, Goto, ledgerVars, gameVars, stopVars, IInv,
       TypeOK, CellsTruthful, CellTruthful, Refusals, ExecutionOutcomes
<1>8. RepliesFollowCells'
    <2>1. Settling
        BY CallSettles DEF RejectUnauthenticated, IInv
    <2>2. reply'[c] \notin Answers /\ cell' = cell
        BY AdminActionsAssumption DEF RejectUnauthenticated, IInv, TypeOK, Answers, Refusals,
           ExecutionOutcomes, Untracked
    <2>. QED BY <2>1, <2>2, RepliesStay DEF RejectUnauthenticated, IInv, TypeOK, RepliesFollowCells
<1>. QED BY <1>1, <1>2, <1>3, <1>4, <1>5, <1>6, <1>7, <1>8 DEF IInv

\* The same, inside handle().
LEMMA RejectMalformedKeepsInv ==
    ASSUME IInv, NEW c \in Calls, RejectMalformed(c)
    PROVE  IInv'
<1>a. log' \in Log
    BY AnonymousAuditKeepsLog DEF RejectMalformed, IInv, TypeOK, LineOutcomes, Replies,
       Untracked
<1>1. TypeOK'
    BY <1>a, AdminActionsAssumption DEF RejectMalformed, Goto, ledgerVars, gameVars,
       stopVars, IInv, TypeOK, Labels, Replies, Untracked
<1>2. WellFormed'
    BY <1>a DEF RejectMalformed, Goto, ledgerVars, gameVars, stopVars, IInv, TypeOK,
       WellFormed
<1>3. CellsOwned'
    BY <1>a DEF RejectMalformed, Goto, ledgerVars, gameVars, stopVars, IInv, TypeOK,
       CellsOwned, OwnsCell, EntryOwned
<1>4. UntouchedBeforeDispatch'
    BY <1>a DEF RejectMalformed, Goto, ledgerVars, gameVars, stopVars, IInv, TypeOK,
       UntouchedBeforeDispatch, FreshResult
<1>5. QueuesHoldUnstarted'
    BY <1>a DEF RejectMalformed, Goto, ledgerVars, gameVars, stopVars, IInv, TypeOK,
       QueuesHoldUnstarted, Dispatched, Unstarted
<1>6. InHand'
    BY <1>a DEF RejectMalformed, Goto, ledgerVars, gameVars, stopVars, IInv, TypeOK,
       InHand, Dispatched
<1>7. CellsTruthful'
    BY <1>a DEF RejectMalformed, Goto, ledgerVars, gameVars, stopVars, IInv, TypeOK,
       CellsTruthful, CellTruthful, Refusals, ExecutionOutcomes
<1>8. RepliesFollowCells'
    <2>1. Settling
        BY CallSettles DEF RejectMalformed, IInv
    <2>2. reply'[c] \notin Answers /\ cell' = cell
        BY AdminActionsAssumption DEF RejectMalformed, IInv, TypeOK, Answers, Refusals,
           ExecutionOutcomes, Untracked
    <2>. QED BY <2>1, <2>2, RepliesStay DEF RejectMalformed, IInv, TypeOK, RepliesFollowCells
<1>. QED BY <1>1, <1>2, <1>3, <1>4, <1>5, <1>6, <1>7, <1>8 DEF IInv

\* A parsed request is the first thing a call owns; it holds no cell yet.
LEMMA ParseKeepsInv ==
    ASSUME IInv, NEW c \in Calls, Parse(c)
    PROVE  IInv'
<1>1. TypeOK'
    BY DEF Parse, Goto, ledgerVars, gameVars, stopVars, IInv, TypeOK, Labels, WellFormed
<1>2. WellFormed'
    BY DEF Parse, Goto, ledgerVars, gameVars, stopVars, IInv, TypeOK, WellFormed
<1>3. CellsOwned'
    BY AdminActionsAssumption DEF Parse, Goto, ledgerVars, gameVars, stopVars, IInv,
       TypeOK, CellsOwned, OwnsCell, EntryOwned, WellFormed
<1>4. UntouchedBeforeDispatch'
    BY DEF Parse, Goto, ledgerVars, gameVars, stopVars, IInv, TypeOK,
       UntouchedBeforeDispatch, FreshResult
<1>5. QueuesHoldUnstarted'
    BY DEF Parse, Goto, ledgerVars, gameVars, stopVars, IInv, TypeOK,
       QueuesHoldUnstarted, Dispatched, Unstarted
<1>6. InHand'
    BY DEF Parse, Goto, ledgerVars, gameVars, stopVars, IInv, TypeOK, InHand, Dispatched
<1>7. CellsTruthful'
    BY DEF Parse, Goto, ledgerVars, gameVars, stopVars, IInv, TypeOK, CellsTruthful, CellTruthful,
       Refusals, ExecutionOutcomes
<1>8. RepliesFollowCells'
    <2>1. Settling
        BY CallSettles DEF Parse, IInv
    <2>. QED BY <2>1, RepliesStay DEF Parse, IInv, TypeOK, RepliesFollowCells
<1>. QED BY <1>1, <1>2, <1>3, <1>4, <1>5, <1>6, <1>7, <1>8 DEF IInv

\* A conflicting call leaves the ledger and every cell alone.
LEMMA RejectConflictKeepsInv ==
    ASSUME IInv, NEW c \in Calls, RejectConflict(c)
    PROVE  IInv'
<1>a. log' \in Log
    BY AuditKeepsLog DEF RejectConflict, IInv, TypeOK, WellFormed, LineOutcomes,
       Replies, Untracked
<1>1. TypeOK'
    BY <1>a, AdminActionsAssumption DEF RejectConflict, Goto, ledgerVars, gameVars,
       stopVars, Known, SamePayload, IInv, TypeOK, Labels, Replies, Untracked
<1>2. WellFormed'
    BY <1>a DEF RejectConflict, Goto, ledgerVars, gameVars, stopVars, Known,
       SamePayload, IInv, TypeOK, WellFormed
<1>3. CellsOwned'
    BY <1>a DEF RejectConflict, Goto, ledgerVars, gameVars, stopVars, Known,
       SamePayload, IInv, TypeOK, CellsOwned, OwnsCell, EntryOwned
<1>4. UntouchedBeforeDispatch'
    BY <1>a DEF RejectConflict, Goto, Known, SamePayload, IInv, TypeOK,
       UntouchedBeforeDispatch
<1>5. QueuesHoldUnstarted'
    BY <1>a DEF RejectConflict, Goto, gameVars, stopVars, Known, SamePayload, IInv,
       TypeOK, QueuesHoldUnstarted, Dispatched, Unstarted
<1>6. InHand'
    BY <1>a DEF RejectConflict, Goto, gameVars, Known, SamePayload, IInv, TypeOK,
       InHand, Dispatched
<1>7. CellsTruthful'
    BY <1>a DEF RejectConflict, Goto, gameVars, Known, SamePayload, IInv, TypeOK,
       CellsTruthful, CellTruthful
<1>8. RepliesFollowCells'
    <2>1. Settling
        BY CallSettles DEF RejectConflict, IInv
    <2>2. reply'[c] \notin Answers /\ cell' = cell
        BY AdminActionsAssumption DEF RejectConflict, IInv, TypeOK, Answers, Refusals,
           ExecutionOutcomes, Untracked
    <2>. QED BY <2>1, <2>2, RepliesStay DEF RejectConflict, IInv, TypeOK, RepliesFollowCells
<1>. QED BY <1>1, <1>2, <1>3, <1>4, <1>5, <1>6, <1>7, <1>8 DEF IInv

\* The cell of the ledger belongs to an original with the same request.
LEMMA JoinOriginalKeepsInv ==
    ASSUME IInv, NEW c \in Calls, JoinOriginal(c)
    PROVE  IInv'
<1>1. TypeOK'
    BY DEF JoinOriginal, Goto, ledgerVars, gameVars, stopVars, Known, SamePayload, IInv,
       TypeOK, Labels, WellFormed, CellsOwned, OwnsCell, EntryOwned, Cells, Requests, Replies, Answers,
       LineOutcomes
<1>2. WellFormed'
    BY DEF JoinOriginal, Goto, ledgerVars, gameVars, stopVars, Known, SamePayload, IInv,
       TypeOK, WellFormed
<1>3. CellsOwned'
    <2>. DEFINE k == ledger[request[c].id].cell
    <2>1. /\ request[c] \in Requests /\ cell[c] = None /\ None \notin Calls
          /\ request[c].id \in RequestIds /\ Calls \cap RequestIds = {}
          /\ \/ k = request[c].id
             \/ k \in Calls /\ cell[k] = k /\ request[k] = request[c]
        <3>1. request[c] \in Requests /\ cell[c] = None /\ None \notin Calls
            BY AdminActionsAssumption DEF JoinOriginal, IInv, WellFormed, CellsOwned,
               OwnsCell
        <3>2. /\ request[c] = [id |-> request[c].id, payload |-> request[c].payload]
              /\ request[c].id \in RequestIds
            BY <3>1 DEF Requests
        <3>3. /\ request[c].id \in DOMAIN ledger
              /\ ledger[request[c].id].payload = request[c].payload
            BY DEF JoinOriginal, Known, SamePayload
        <3>4. EntryOwned(request[c].id)
            BY <3>3 DEF IInv, CellsOwned
        <3>. QED BY <3>1, <3>2, <3>3, <3>4, AdminActionsAssumption DEF EntryOwned
    <2>2. /\ cell' = [cell EXCEPT ![c] = k] /\ pc' = [pc EXCEPT ![c] = "replaying"]
          /\ request' = request /\ ledger' = ledger
          /\ cell \in [Calls -> Cells \cup {None}] /\ pc \in [Calls -> Labels]
        BY DEF JoinOriginal, Goto, ledgerVars, IInv, TypeOK
    <2>3. \A d \in Calls : cell[d] # c
        BY <2>1 DEF IInv, CellsOwned, OwnsCell
    <2>. HIDE DEF k
    <2>4. ASSUME NEW d \in Calls PROVE OwnsCell(d)'
        <3>1. CASE d = c
            <4>1. k # None /\ k # c
                BY <2>1, AdminActionsAssumption
            <4>2. cell'[c] = k /\ pc'[c] = "replaying" /\ request' = request
                BY <2>2
            <4>3. k \in Calls => cell'[k] = cell[k]
                BY <2>2, <4>1
            <4>. QED BY <3>1, <2>1, <4>1, <4>2, <4>3 DEF OwnsCell
        <3>2. CASE d # c
            BY <3>2, <2>2, <2>3 DEF IInv, CellsOwned, OwnsCell
        <3>. QED BY <3>1, <3>2
    <2>5. ASSUME NEW i \in DOMAIN ledger' PROVE EntryOwned(i)'
        BY <2>1, <2>2, <2>3 DEF IInv, CellsOwned, OwnsCell, EntryOwned
    <2>. QED BY <2>4, <2>5 DEF CellsOwned
<1>4. UntouchedBeforeDispatch'
    BY AdminActionsAssumption DEF JoinOriginal, Goto, Known, SamePayload, IInv, TypeOK,
       UntouchedBeforeDispatch, CellsOwned, OwnsCell, EntryOwned, Cells
<1>5. QueuesHoldUnstarted'
    BY DEF JoinOriginal, Goto, gameVars, stopVars, Known, SamePayload, IInv, TypeOK,
       QueuesHoldUnstarted, Dispatched, Unstarted
<1>6. InHand'
    BY DEF JoinOriginal, Goto, gameVars, Known, SamePayload, IInv, TypeOK, InHand,
       Dispatched
<1>7. CellsTruthful'
    BY DEF JoinOriginal, Goto, gameVars, Known, SamePayload, IInv, TypeOK, CellsTruthful, CellTruthful
<1>8. RepliesFollowCells'
    <2>1. Settling
        BY CallSettles DEF JoinOriginal, IInv
    <2>2. reply[c] \notin Answers /\ reply' = reply
        BY DEF JoinOriginal, IInv, CellsOwned, OwnsCell, EntryOwned, RepliesFollowCells, ReplyFollowsCell
    <2>. QED BY <2>1, <2>2, RepliesStay DEF JoinOriginal, IInv, TypeOK, RepliesFollowCells
<1>. QED BY <1>1, <1>2, <1>3, <1>4, <1>5, <1>6, <1>7, <1>8 DEF IInv

\* A new original gets its own, fresh cell; an eviction only shrinks the ledger.
LEMMA AdmitKeepsInv ==
    ASSUME IInv, NEW c \in Calls, Admit(c)
    PROVE  IInv'
<1>. DEFINE id == request[c].id
            longer == Append(order, id)
            evict == Len(longer) > MaxIdempotencyRecords
            kept == IF evict THEN (DOMAIN ledger \cup {id}) \ {Head(longer)}
                    ELSE DOMAIN ledger \cup {id}
            entry == [payload |-> request[c].payload, cell |-> c]
<1>a. /\ request[c] \in Requests /\ id \in RequestIds
      /\ request[c].payload \in Payloads
      /\ request[c] = [id |-> id, payload |-> request[c].payload]
    BY DEF Admit, IInv, WellFormed, Requests
<1>b. /\ cell' \in [Calls -> Cells \cup {None}] /\ cell' = [cell EXCEPT ![c] = c]
      /\ pc' \in [Calls -> Labels] /\ pc' = [pc EXCEPT ![c] = "gates"]
    BY DEF Admit, Goto, IInv, TypeOK, Cells, Labels
<1>c. /\ ledger' = [i \in kept |-> IF i = id THEN entry ELSE ledger[i]]
      /\ kept \subseteq DOMAIN ledger \cup {id}
    BY DEF Admit
<1>. HIDE DEF kept, longer
<1>1. TypeOK'
    <2>1. PICK S \in SUBSET RequestIds : ledger \in [S -> [payload : Payloads, cell : Cells]]
        BY DEF IInv, TypeOK, Ledgers
    <2>2. kept \in SUBSET RequestIds
        BY <2>1, <1>a, <1>c
    <2>3. entry \in [payload : Payloads, cell : Cells]
        BY <1>a DEF Cells
    <2>4. ledger' \in [kept -> [payload : Payloads, cell : Cells]]
        BY <2>1, <2>3, <1>c
    <2>5. ledger' \in Ledgers
        BY <2>2, <2>4 DEF Ledgers
    <2>6. longer \in Seq(RequestIds) /\ longer # <<>>
        <3>1. order \in Seq(RequestIds)
            BY DEF IInv, TypeOK
        <3>2. Append(order, id) \in Seq(RequestIds) /\ Len(Append(order, id)) = Len(order) + 1
            BY <3>1, <1>a
        <3>. QED BY <3>1, <3>2 DEF longer
    <2>7. order' \in Seq(RequestIds)
        BY <2>6 DEF Admit, longer
    <2>. QED BY <1>b, <2>5, <2>7 DEF Admit, gameVars, stopVars, IInv, TypeOK
<1>2. WellFormed'
    BY DEF Admit, Goto, ledgerVars, gameVars, stopVars, Known, IInv, TypeOK, WellFormed
<1>3. CellsOwned'
    <2>1. cell[c] = None /\ c # None /\ None \notin Calls
        BY AdminActionsAssumption DEF Admit, IInv, CellsOwned, OwnsCell, EntryOwned
    <2>2. \A d \in Calls : cell[d] # c
        BY <2>1 DEF IInv, CellsOwned, OwnsCell, EntryOwned
    <2>3. ASSUME NEW d \in Calls PROVE OwnsCell(d)'
        <3>1. CASE d = c
            BY <3>1, <1>a, <1>b, <2>1, AdminActionsAssumption DEF Admit, IInv, TypeOK,
               OwnsCell
        <3>2. CASE d # c
            BY <3>2, <1>b, <2>2 DEF Admit, IInv, TypeOK, CellsOwned, OwnsCell
        <3>. QED BY <3>1, <3>2
    <2>4. ASSUME NEW i \in DOMAIN ledger' PROVE EntryOwned(i)'
        <3>0. i \in kept /\ request' = request
            BY <1>c DEF Admit
        <3>1. CASE i = id
            BY <3>0, <3>1, <1>a, <1>b, <1>c DEF IInv, TypeOK, EntryOwned
        <3>2. CASE i # id
            <4>1. i \in DOMAIN ledger /\ ledger'[i] = ledger[i]
                BY <3>0, <3>2, <1>c
            <4>2. EntryOwned(i)
                BY <4>1 DEF IInv, CellsOwned
            <4>. QED BY <3>0, <4>1, <4>2, <2>2, <1>b DEF IInv, TypeOK, EntryOwned
        <3>. QED BY <3>1, <3>2
    <2>. QED BY <2>3, <2>4 DEF CellsOwned
<1>4. UntouchedBeforeDispatch'
    BY AdminActionsAssumption DEF Admit, Goto, Known, IInv, TypeOK,
       UntouchedBeforeDispatch, CellsOwned, OwnsCell, EntryOwned, Cells
<1>5. QueuesHoldUnstarted'
    BY DEF Admit, Goto, ledgerVars, gameVars, stopVars, Known, IInv, TypeOK,
       QueuesHoldUnstarted, Dispatched, Unstarted
<1>6. InHand'
    BY DEF Admit, Goto, ledgerVars, gameVars, stopVars, Known, IInv, TypeOK, InHand,
       Dispatched
<1>7. CellsTruthful'
    BY DEF Admit, Goto, gameVars, Known, IInv, TypeOK, CellsTruthful, CellTruthful
<1>8. RepliesFollowCells'
    <2>1. Settling
        BY CallSettles DEF Admit, IInv
    <2>2. reply[c] \notin Answers /\ reply' = reply
        BY DEF Admit, IInv, CellsOwned, OwnsCell, EntryOwned, RepliesFollowCells, ReplyFollowsCell
    <2>. QED BY <2>1, <2>2, RepliesStay DEF Admit, IInv, TypeOK, RepliesFollowCells
<1>. QED BY <1>1, <1>2, <1>3, <1>4, <1>5, <1>6, <1>7, <1>8 DEF IInv

\* Nothing but the position of the call changes.
LEMMA PassGatesKeepsInv ==
    ASSUME IInv, NEW c \in Calls, PassGates(c)
    PROVE  IInv'
<1>1. TypeOK'
    BY DEF PassGates, Goto, ledgerVars, gameVars, stopVars, IInv, TypeOK, Labels,
       WellFormed
<1>2. WellFormed'
    BY DEF PassGates, Goto, ledgerVars, gameVars, stopVars, IInv, TypeOK, WellFormed
<1>3. CellsOwned'
    BY DEF PassGates, Goto, ledgerVars, gameVars, stopVars, IInv, TypeOK, CellsOwned, OwnsCell, EntryOwned
<1>4. UntouchedBeforeDispatch'
    BY DEF PassGates, Goto, ledgerVars, gameVars, stopVars, IInv, TypeOK,
       UntouchedBeforeDispatch, FreshResult
<1>5. QueuesHoldUnstarted'
    BY DEF PassGates, Goto, ledgerVars, gameVars, stopVars, IInv, TypeOK,
       QueuesHoldUnstarted, Dispatched, Unstarted
<1>6. InHand'
    BY DEF PassGates, Goto, ledgerVars, gameVars, stopVars, IInv, TypeOK, InHand,
       Dispatched
<1>7. CellsTruthful'
    BY DEF PassGates, Goto, ledgerVars, gameVars, stopVars, IInv, TypeOK, CellsTruthful, CellTruthful,
       Refusals, ExecutionOutcomes
<1>8. RepliesFollowCells'
    <2>1. Settling
        BY CallSettles DEF PassGates, IInv
    <2>. QED BY <2>1, RepliesStay DEF PassGates, IInv, TypeOK, RepliesFollowCells
<1>. QED BY <1>1, <1>2, <1>3, <1>4, <1>5, <1>6, <1>7, <1>8 DEF IInv

\* Only the journal grows.
LEMMA AcceptKeepsInv ==
    ASSUME IInv, NEW c \in Calls, Accept(c)
    PROVE  IInv'
<1>a. log' \in Log
    BY AuditKeepsLog DEF Accept, IInv, TypeOK, WellFormed, LineOutcomes
<1>1. TypeOK'
    BY <1>a DEF Accept, Goto, ledgerVars, gameVars, stopVars, IInv, TypeOK, Labels,
       WellFormed
<1>2. WellFormed'
    BY <1>a DEF Accept, Goto, ledgerVars, gameVars, stopVars, IInv, TypeOK, WellFormed
<1>3. CellsOwned'
    BY <1>a DEF Accept, Goto, ledgerVars, gameVars, stopVars, IInv, TypeOK, CellsOwned, OwnsCell, EntryOwned
<1>4. UntouchedBeforeDispatch'
    BY <1>a DEF Accept, Goto, ledgerVars, gameVars, stopVars, IInv, TypeOK,
       UntouchedBeforeDispatch, FreshResult
<1>5. QueuesHoldUnstarted'
    BY <1>a DEF Accept, Goto, ledgerVars, gameVars, stopVars, IInv, TypeOK,
       QueuesHoldUnstarted, Dispatched, Unstarted
<1>6. InHand'
    BY <1>a DEF Accept, Goto, ledgerVars, gameVars, stopVars, IInv, TypeOK, InHand,
       Dispatched
<1>7. CellsTruthful'
    BY <1>a DEF Accept, Goto, ledgerVars, gameVars, stopVars, IInv, TypeOK,
       CellsTruthful, CellTruthful, Refusals, ExecutionOutcomes
<1>8. RepliesFollowCells'
    <2>1. Settling
        BY CallSettles DEF Accept, IInv
    <2>. QED BY <2>1, RepliesStay DEF Accept, IInv, TypeOK, RepliesFollowCells
<1>. QED BY <1>1, <1>2, <1>3, <1>4, <1>5, <1>6, <1>7, <1>8 DEF IInv

\* The cell that is refused was never queued.
LEMMA RefuseUnauditedKeepsInv ==
    ASSUME IInv, NEW c \in Calls, RefuseUnaudited(c)
    PROVE  IInv'
<1>0. /\ shared' \in [Cells -> SharedResults]
      /\ shared'[c] = [shared[c] EXCEPT !.response = "audit_unavailable"]
      /\ \A j \in Cells \ {c} : shared'[j] = shared[j]
    BY CompleteEffect DEF RefuseUnaudited, IInv, Cells, Refusals, Answers
<1>a. log' \in Log
    BY FailedWriteIsLog DEF RefuseUnaudited, AuditFails, IInv, TypeOK
<1>1. TypeOK'
    BY <1>0, <1>a, AdminActionsAssumption DEF RefuseUnaudited, Goto, ledgerVars,
       gameVars, stopVars, IInv, TypeOK, Labels, Requests, Replies, Answers, LineOutcomes,
       Refusals, Untracked, ExecutionOutcomes, Ledgers, AuditFails, SharedResults
<1>2. WellFormed'
    BY <1>0, <1>a DEF RefuseUnaudited, Goto, ledgerVars, gameVars, stopVars, IInv,
       TypeOK, WellFormed, SharedResults
<1>3. CellsOwned'
    BY <1>0, <1>a DEF RefuseUnaudited, Goto, ledgerVars, gameVars, stopVars, IInv,
       TypeOK, CellsOwned, OwnsCell, EntryOwned, SharedResults
<1>4. UntouchedBeforeDispatch'
    BY <1>0, <1>a, AdminActionsAssumption DEF RefuseUnaudited, Goto, IInv, TypeOK,
       UntouchedBeforeDispatch, WellFormed, CellsOwned, OwnsCell, EntryOwned, Cells, SharedResults
<1>5. QueuesHoldUnstarted'
    <2>1. ASSUME NEW d \in Calls, Dispatched(d), Unstarted(d) PROVE (Dispatched(d) /\ Unstarted(d))'
        <3>1. d # c
            BY <2>1 DEF RefuseUnaudited, Dispatched
        <3>2. shared'[d] = shared[d] /\ pc'[d] = pc[d]
            BY <1>0, <3>1 DEF RefuseUnaudited, Goto, IInv, TypeOK, Cells
        <3>3. UNCHANGED <<cell, runs, current>>
            BY DEF RefuseUnaudited, gameVars
        <3>. QED BY <2>1, <3>2, <3>3 DEF Dispatched, Unstarted
    <2>2. UNCHANGED <<pending, abandoned, stopping>>
        BY DEF RefuseUnaudited, stopVars
    <2>3. /\ \A i \in DOMAIN pending : pending[i] \in Calls
          /\ \A i \in DOMAIN abandoned : abandoned[i] \in Calls
        BY DEF IInv, TypeOK
    <2>. QED BY <2>1, <2>2, <2>3 DEF IInv, QueuesHoldUnstarted
<1>6. InHand'
    <2>1. current # c
        BY AdminActionsAssumption DEF RefuseUnaudited, IInv, InHand, WellFormed, TypeOK,
           Dispatched
    <2>2. gpc \in {"claim", "execute", "complete"} =>
              current \in Calls /\ shared'[current] = shared[current]
        BY <2>1, <1>0 DEF IInv, WellFormed, Cells
    <2>3. /\ pc' = [pc EXCEPT ![c] = "done"] /\ cell' = cell /\ runs' = runs
          /\ gpc' = gpc /\ current' = current /\ execution' = execution
        BY DEF RefuseUnaudited, Goto, gameVars
    <2>. QED BY <2>1, <2>2, <2>3 DEF IInv, InHand, TypeOK, Dispatched
<1>7. CellsTruthful'
    <2>. SUFFICES ASSUME NEW d \in Calls PROVE CellTruthful(d)'
        BY DEF CellsTruthful
    <2>1. /\ shared'[c].response = "audit_unavailable"
          /\ shared'[c].claimed = shared[c].claimed
          /\ shared'[c].cancelled = shared[c].cancelled
        BY <1>0 DEF SharedResults, IInv, TypeOK, Cells
    <2>2. ~shared[c].claimed /\ runs[c] = <<>> /\ runs' = runs /\ current' = current
        BY DEF RefuseUnaudited, gameVars, IInv, UntouchedBeforeDispatch, FreshResult
    <2>3. CASE d = c
        BY <2>1, <2>2, <2>3, AdminActionsAssumption DEF CellTruthful, Refusals,
           ExecutionOutcomes, Untracked
    <2>4. CASE d # c
        BY <2>2, <2>4, <1>0, CellTruthStays DEF RefuseUnaudited, Goto, IInv, TypeOK, Cells
    <2>. QED BY <2>3, <2>4
<1>8. RepliesFollowCells'
    <2>1. /\ ~Over(c) /\ cell'[c] = c /\ runs'[c] = <<>> /\ reply'[c] = "audit_unavailable"
          /\ shared'[c].response = "audit_unavailable"
        BY <1>0 DEF RefuseUnaudited, IInv, TypeOK, CellsOwned, OwnsCell, EntryOwned, UntouchedBeforeDispatch, Over,
           SharedResults, Cells
    <2>2. Settling
        BY <1>0, <2>1, CompletionSettles DEF RefuseUnaudited, Goto, IInv, TypeOK, Refusals
    <2>3. ReplyFollowsCell(c)'
        BY <2>1, AdminActionsAssumption DEF ReplyFollowsCell, Refusals, ExecutionOutcomes
    <2>. QED BY <2>2, <2>3, RepliesStay DEF RefuseUnaudited, IInv, TypeOK,
       RepliesFollowCells
<1>. QED BY <1>1, <1>2, <1>3, <1>4, <1>5, <1>6, <1>7, <1>8 DEF IInv

\* The entry enters the queue unstarted, its caller waiting.
LEMMA EnqueueKeepsInv ==
    ASSUME IInv, NEW c \in Calls, Enqueue(c)
    PROVE  IInv'
<1>1. TypeOK'
    BY DEF Enqueue, Goto, ledgerVars, gameVars, stopVars, IInv, TypeOK, Labels, WellFormed
<1>2. WellFormed'
    BY DEF Enqueue, Goto, ledgerVars, gameVars, stopVars, IInv, TypeOK, WellFormed
<1>3. CellsOwned'
    BY DEF Enqueue, Goto, ledgerVars, gameVars, stopVars, IInv, TypeOK, CellsOwned, OwnsCell, EntryOwned
<1>4. UntouchedBeforeDispatch'
    BY DEF Enqueue, Goto, ledgerVars, gameVars, stopVars, IInv, TypeOK,
       UntouchedBeforeDispatch, FreshResult
<1>5. QueuesHoldUnstarted'
    <2>1. /\ pc' = [pc EXCEPT ![c] = "waiting"] /\ cell' = cell /\ runs' = runs
          /\ shared' = shared /\ current' = current /\ pending' = Append(pending, c)
          /\ abandoned' = abandoned /\ stopping' = stopping /\ ~stopping
          /\ pending \in Seq(Calls) /\ abandoned = <<>> /\ pc \in [Calls -> Labels]
        BY DEF Enqueue, Goto, gameVars, stopVars, IInv, TypeOK, QueuesHoldUnstarted
    <2>2. c # current
        BY AdminActionsAssumption DEF Enqueue, IInv, InHand, WellFormed, TypeOK,
           Dispatched
    <2>3. cell[c] = c /\ ~shared[c].claimed /\ runs[c] = <<>>
        BY DEF Enqueue, IInv, CellsOwned, OwnsCell, EntryOwned, UntouchedBeforeDispatch, FreshResult
    <2>4. \A i \in DOMAIN pending : pending[i] \in Calls \ {c}
        BY <2>1 DEF Enqueue, IInv, QueuesHoldUnstarted, Dispatched
    <2>5. \A i \in DOMAIN pending' :
              \/ i \in DOMAIN pending /\ pending'[i] = pending[i]
              \/ i = Len(pending) + 1 /\ pending'[i] = c
        BY <2>1, AppendFacts
    <2>6. ASSUME NEW i \in DOMAIN pending'
          PROVE  (Dispatched(pending[i]) /\ Unstarted(pending[i]))'
        <3>1. CASE i \in DOMAIN pending /\ pending'[i] = pending[i]
            <4>1. Dispatched(pending[i]) /\ Unstarted(pending[i])
                BY <3>1 DEF IInv, QueuesHoldUnstarted
            <4>2. pc'[pending[i]] = pc[pending[i]]
                BY <3>1, <2>1, <2>4
            <4>. QED BY <2>1, <3>1, <4>1, <4>2 DEF Dispatched, Unstarted
        <3>2. CASE pending'[i] = c
            BY <2>1, <2>2, <2>3, <3>2 DEF Dispatched, Unstarted
        <3>. QED BY <2>5, <3>1, <3>2
    <2>7. \A i, j \in DOMAIN pending' : pending'[i] = pending'[j] => i = j
        BY <2>4, <2>5 DEF IInv, QueuesHoldUnstarted
    <2>. QED BY <2>1, <2>6, <2>7 DEF QueuesHoldUnstarted
<1>6. InHand'
    BY DEF Enqueue, Goto, ledgerVars, gameVars, stopVars, IInv, TypeOK, InHand, Dispatched
<1>7. CellsTruthful'
    <2>. SUFFICES ASSUME NEW d \in Calls PROVE CellTruthful(d)'
        BY DEF CellsTruthful
    <2>1. CASE d = c
        BY <2>1 DEF Enqueue, gameVars, IInv, UntouchedBeforeDispatch, FreshResult,
           CellsTruthful, CellTruthful
    <2>2. CASE d # c
        BY <2>2, CellTruthStays DEF Enqueue, Goto, gameVars, IInv, TypeOK
    <2>. QED BY <2>1, <2>2
<1>8. RepliesFollowCells'
    <2>1. Settling
        BY CallSettles DEF Enqueue, IInv
    <2>. QED BY <2>1, RepliesStay DEF Enqueue, IInv, TypeOK, RepliesFollowCells
<1>. QED BY <1>1, <1>2, <1>3, <1>4, <1>5, <1>6, <1>7, <1>8 DEF IInv

\* The reply repeats the call's own cell.
LEMMA AnsweredKeepsInv ==
    ASSUME IInv, NEW c \in Calls, Answered(c)
    PROVE  IInv'
<1>0. shared[c].response \in Answers
    BY DEF Answered, IInv, TypeOK, SharedResults, Cells
<1>1. TypeOK'
    BY <1>0, AdminActionsAssumption DEF Answered, Goto, ledgerVars, gameVars, stopVars,
       IInv, TypeOK, Labels, Replies
<1>2. WellFormed'
    BY <1>0, AdminActionsAssumption DEF Answered, Goto, gameVars, IInv, TypeOK, WellFormed
<1>3. CellsOwned'
    BY <1>0, AdminActionsAssumption DEF Answered, Goto, ledgerVars, gameVars, stopVars,
       IInv, TypeOK, CellsOwned, OwnsCell, EntryOwned, WellFormed
<1>4. UntouchedBeforeDispatch'
    BY <1>0 DEF Answered, Goto, ledgerVars, gameVars, stopVars, IInv, TypeOK,
       UntouchedBeforeDispatch, FreshResult
<1>5. QueuesHoldUnstarted'
    BY <1>0 DEF Answered, Goto, ledgerVars, gameVars, stopVars, IInv, TypeOK,
       QueuesHoldUnstarted, Dispatched, Unstarted
<1>6. InHand'
    BY <1>0 DEF Answered, Goto, ledgerVars, gameVars, stopVars, IInv, TypeOK, InHand,
       Dispatched
<1>7. CellsTruthful'
    BY <1>0 DEF Answered, Goto, ledgerVars, gameVars, stopVars, IInv, TypeOK,
       CellsTruthful, CellTruthful, Refusals, ExecutionOutcomes
<1>8. RepliesFollowCells'
    <2>1. Settling
        BY CallSettles DEF Answered, IInv
    <2>2. /\ cell'[c] = c /\ runs' = runs /\ shared' = shared
          /\ reply'[c] = shared[c].response
        BY DEF Answered, IInv, TypeOK, CellsOwned, OwnsCell, EntryOwned
    <2>3. ReplyFollowsCell(c)'
        BY <2>2, AdminActionsAssumption DEF ReplyFollowsCell, IInv, CellsTruthful, CellTruthful
    <2>. QED BY <2>1, <2>3, RepliesStay DEF Answered, IInv, TypeOK, RepliesFollowCells
<1>. QED BY <1>1, <1>2, <1>3, <1>4, <1>5, <1>6, <1>7, <1>8 DEF IInv

\* The deadline refuses an unclaimed cell: its entry, if the game thread holds it,
\* is not past the claim, and will be skipped.
LEMMA TimeOutKeepsInv ==
    ASSUME IInv, NEW c \in Calls, TimeOut(c)
    PROVE  IInv'
<1>0. /\ shared' \in [Cells -> SharedResults]
      /\ shared'[c] = [shared[c] EXCEPT !.cancelled = TRUE, !.response = "game_thread_unavailable"]
      /\ \A j \in Cells \ {c} : shared'[j] = shared[j]
    <2>1. c \in Cells
        BY DEF Cells
    <2>2. [shared[c] EXCEPT !.cancelled = TRUE, !.response = "game_thread_unavailable"]
             \in SharedResults
        BY <2>1 DEF IInv, TypeOK, SharedResults, Answers, Refusals
    <2>. QED BY <2>1, <2>2 DEF TimeOut, IInv, TypeOK
<1>1. TypeOK'
    BY <1>0, AdminActionsAssumption DEF TimeOut, Goto, ledgerVars, gameVars, stopVars,
       IInv, TypeOK, Labels, AuditFails, SharedResults
<1>2. WellFormed'
    BY <1>0, AdminActionsAssumption DEF TimeOut, Goto, gameVars, IInv, TypeOK,
       WellFormed, Answers, Refusals
<1>3. CellsOwned'
    BY <1>0, AdminActionsAssumption DEF TimeOut, Goto, ledgerVars, gameVars, stopVars,
       IInv, TypeOK, CellsOwned, OwnsCell, EntryOwned, WellFormed, SharedResults
<1>4. UntouchedBeforeDispatch'
    <2>. SUFFICES ASSUME NEW d \in Calls
                  PROVE  /\ cell'[d] # d => shared'[d] = FreshResult /\ runs'[d] = <<>>
                         /\ pc'[d] \in {"gates", "accept", "enqueue"} =>
                               shared'[d] = FreshResult /\ runs'[d] = <<>>
        BY DEF UntouchedBeforeDispatch, FreshResult
    <2>1. cell[c] = c /\ pc' = [pc EXCEPT ![c] = "audit"] /\ cell' = cell /\ runs' = runs
        BY DEF TimeOut, Goto, IInv, CellsOwned, OwnsCell, EntryOwned
    <2>2. CASE d = c
        BY <2>1, <2>2 DEF IInv, TypeOK
    <2>3. CASE d # c
        BY <2>1, <2>3, <1>0 DEF IInv, TypeOK, UntouchedBeforeDispatch, Cells
    <2>. QED BY <2>2, <2>3
<1>5. QueuesHoldUnstarted'
    <2>1. /\ pc' = [pc EXCEPT ![c] = "audit"] /\ cell' = cell /\ runs' = runs
          /\ current' = current /\ pending' = pending /\ abandoned' = abandoned
          /\ stopping' = stopping /\ pc \in [Calls -> Labels]
          /\ pending \in Seq(Calls) /\ abandoned \in Seq(Calls)
        BY DEF TimeOut, Goto, gameVars, stopVars, IInv, TypeOK
    <2>2. /\ shared'[c].response = "game_thread_unavailable" /\ shared'[c].response # None
          /\ shared'[c].claimed = shared[c].claimed
        BY <1>0, AdminActionsAssumption DEF SharedResults, IInv, TypeOK, Cells,
           LineOutcomes, Replies, Answers, Refusals
    <2>3. ASSUME NEW d \in Calls, Dispatched(d), Unstarted(d)
          PROVE  Dispatched(d)' /\ Unstarted(d)'
        <3>1. CASE d = c
            BY <2>1, <2>2, <2>3, <3>1 DEF Dispatched, Unstarted
        <3>2. CASE d # c
            <4>1. shared'[d] = shared[d] /\ pc'[d] = pc[d]
                BY <2>1, <3>2, <1>0 DEF Cells
            <4>. QED BY <2>1, <2>3, <4>1 DEF Dispatched, Unstarted
        <3>. QED BY <3>1, <3>2
    <2>4. \A i \in DOMAIN pending : pending[i] \in Calls
        BY <2>1
    <2>5. \A i \in DOMAIN abandoned : abandoned[i] \in Calls
        BY <2>1
    <2>. QED BY <2>1, <2>3, <2>4, <2>5 DEF IInv, QueuesHoldUnstarted
<1>6. InHand'
    <2>1. gpc \in {"execute", "complete"} => current # c
        BY DEF TimeOut, IInv, InHand
    <2>2. /\ pc' = [pc EXCEPT ![c] = "audit"] /\ cell' = cell /\ runs' = runs
          /\ gpc' = gpc /\ current' = current /\ execution' = execution
          /\ pc \in [Calls -> Labels]
        BY DEF TimeOut, Goto, gameVars, IInv, TypeOK
    <2>3. shared'[c].response = "game_thread_unavailable" /\ ~shared'[c].claimed
        BY <1>0 DEF TimeOut, SharedResults, IInv, TypeOK, Cells
    <2>4. None # "game_thread_unavailable"
        BY AdminActionsAssumption DEF LineOutcomes, Replies, Answers, Refusals
    <2>5. CASE current = c
        BY <2>1, <2>2, <2>3, <2>4, <2>5 DEF IInv, InHand, Dispatched
    <2>6. CASE current # c
        <3>1. gpc \in {"claim", "execute", "complete"} =>
                  current \in Calls /\ shared'[current] = shared[current]
            BY <2>6, <1>0 DEF IInv, WellFormed, Cells
        <3>. QED BY <2>2, <2>6, <3>1 DEF IInv, InHand, Dispatched
    <2>. QED BY <2>5, <2>6
<1>7. CellsTruthful'
    <2>. SUFFICES ASSUME NEW d \in Calls PROVE CellTruthful(d)'
        BY DEF CellsTruthful
    <2>1. shared'[c].response = "game_thread_unavailable" /\ ~shared'[c].claimed
        BY <1>0 DEF TimeOut, SharedResults, IInv, TypeOK, Cells
    <2>2. runs[c] = <<>> /\ runs' = runs /\ current' = current
        <3>1. c # current \/ gpc = "claim"
            BY AdminActionsAssumption DEF TimeOut, IInv, InHand, WellFormed, TypeOK
        <3>. QED BY <3>1 DEF TimeOut, gameVars, IInv, CellsTruthful, CellTruthful, InHand
    <2>3. CASE d = c
        BY <2>1, <2>2, <2>3, AdminActionsAssumption DEF CellTruthful, Refusals,
           ExecutionOutcomes, Untracked
    <2>4. CASE d # c
        BY <2>2, <2>4, <1>0, CellTruthStays DEF TimeOut, Goto, IInv, TypeOK, Cells
    <2>. QED BY <2>3, <2>4
<1>8. RepliesFollowCells'
    <2>1. /\ ~Over(c) /\ cell'[c] = c /\ runs'[c] = <<>>
          /\ reply'[c] = "game_thread_unavailable"
          /\ shared'[c].response = "game_thread_unavailable"
        <3>1. pc[c] = "waiting" /\ shared[c].response = None /\ ~shared[c].claimed
            BY DEF TimeOut
        <3>2. c # current \/ gpc = "claim"
            BY <3>1, AdminActionsAssumption DEF IInv, InHand, WellFormed, TypeOK
        <3>3. runs[c] = <<>>
            BY <3>1, <3>2 DEF IInv, CellsTruthful, CellTruthful, InHand
        <3>. QED BY <1>0, <3>1, <3>3 DEF TimeOut, IInv, TypeOK, CellsOwned, OwnsCell, EntryOwned, Over,
           SharedResults, Cells
    <2>2. Settling
        BY <1>0, <2>1, CompletionSettles DEF TimeOut, Goto, IInv, TypeOK, Refusals
    <2>3. ReplyFollowsCell(c)'
        BY <2>1, AdminActionsAssumption DEF ReplyFollowsCell, Refusals, ExecutionOutcomes
    <2>. QED BY <2>2, <2>3, RepliesStay DEF TimeOut, IInv, TypeOK, RepliesFollowCells
<1>. QED BY <1>1, <1>2, <1>3, <1>4, <1>5, <1>6, <1>7, <1>8 DEF IInv

\* The reply repeats the cell of the original.
LEMMA ReplayAnswerKeepsInv ==
    ASSUME IInv, NEW c \in Calls, ReplayAnswer(c)
    PROVE  IInv'
<1>0. cell[c] \in Cells /\ shared[cell[c]].response \in Answers
    BY DEF ReplayAnswer, IInv, TypeOK, CellsOwned, OwnsCell, EntryOwned, SharedResults, Cells
<1>1. TypeOK'
    BY <1>0, AdminActionsAssumption DEF ReplayAnswer, Goto, ledgerVars, gameVars,
       stopVars, IInv, TypeOK, Labels, Replies
<1>2. WellFormed'
    BY <1>0, AdminActionsAssumption DEF ReplayAnswer, Goto, gameVars, IInv, TypeOK,
       WellFormed
<1>3. CellsOwned'
    BY <1>0 DEF ReplayAnswer, Goto, ledgerVars, gameVars, stopVars, IInv, TypeOK,
       CellsOwned, OwnsCell, EntryOwned
<1>4. UntouchedBeforeDispatch'
    BY <1>0 DEF ReplayAnswer, Goto, ledgerVars, gameVars, stopVars, IInv, TypeOK,
       UntouchedBeforeDispatch, FreshResult
<1>5. QueuesHoldUnstarted'
    BY <1>0 DEF ReplayAnswer, Goto, ledgerVars, gameVars, stopVars, IInv, TypeOK,
       QueuesHoldUnstarted, Dispatched, Unstarted
<1>6. InHand'
    BY <1>0 DEF ReplayAnswer, Goto, ledgerVars, gameVars, stopVars, IInv, TypeOK,
       InHand, Dispatched
<1>7. CellsTruthful'
    BY <1>0 DEF ReplayAnswer, Goto, ledgerVars, gameVars, stopVars, IInv, TypeOK,
       CellsTruthful, CellTruthful, Refusals, ExecutionOutcomes
<1>8. RepliesFollowCells'
    <2>1. Settling
        BY CallSettles DEF ReplayAnswer, IInv
    <2>2. /\ cell' = cell /\ cell[c] # None /\ runs' = runs /\ shared' = shared
          /\ reply'[c] = shared[cell[c]].response
        BY DEF ReplayAnswer, IInv, TypeOK, CellsOwned, OwnsCell, EntryOwned
    <2>3. ReplyFollowsCell(c)'
        BY <2>2, AdminActionsAssumption DEF ReplyFollowsCell, IInv, CellsTruthful, CellTruthful
    <2>. QED BY <2>1, <2>3, RepliesStay DEF ReplayAnswer, IInv, TypeOK, RepliesFollowCells
<1>. QED BY <1>1, <1>2, <1>3, <1>4, <1>5, <1>6, <1>7, <1>8 DEF IInv

\* Only the journal changes and the call ends.
LEMMA AuditReplyKeepsInv ==
    ASSUME IInv, NEW c \in Calls, AuditReply(c)
    PROVE  IInv'
<1>a. log' \in Log
    BY AuditKeepsLog DEF AuditReply, IInv, TypeOK, WellFormed, LineOutcomes, Replies
<1>1. TypeOK'
    BY <1>a DEF AuditReply, Goto, ledgerVars, gameVars, stopVars, IInv, TypeOK, Labels,
       WellFormed
<1>2. WellFormed'
    BY <1>a DEF AuditReply, Goto, ledgerVars, gameVars, stopVars, IInv, TypeOK, WellFormed
<1>3. CellsOwned'
    BY <1>a DEF AuditReply, Goto, ledgerVars, gameVars, stopVars, IInv, TypeOK, CellsOwned, OwnsCell, EntryOwned
<1>4. UntouchedBeforeDispatch'
    BY <1>a DEF AuditReply, Goto, ledgerVars, gameVars, stopVars, IInv, TypeOK,
       UntouchedBeforeDispatch, FreshResult
<1>5. QueuesHoldUnstarted'
    BY <1>a DEF AuditReply, Goto, ledgerVars, gameVars, stopVars, IInv, TypeOK,
       QueuesHoldUnstarted, Dispatched, Unstarted
<1>6. InHand'
    BY <1>a DEF AuditReply, Goto, ledgerVars, gameVars, stopVars, IInv, TypeOK, InHand,
       Dispatched
<1>7. CellsTruthful'
    BY <1>a DEF AuditReply, Goto, ledgerVars, gameVars, stopVars, IInv, TypeOK,
       CellsTruthful, CellTruthful, Refusals, ExecutionOutcomes
<1>8. RepliesFollowCells'
    <2>1. Settling
        BY CallSettles DEF AuditReply, IInv
    <2>. QED BY <2>1, RepliesStay DEF AuditReply, IInv, TypeOK, RepliesFollowCells
<1>. QED BY <1>1, <1>2, <1>3, <1>4, <1>5, <1>6, <1>7, <1>8 DEF IInv

\* Every refusal of a call that was not queued.
LEMMA RefusingKeepsInv ==
    ASSUME IInv, NEW c \in Calls, pc[c] \in {"gates", "enqueue"},
           NEW a \in Refusals, Refuse(c, a)
    PROVE  IInv'
<1>0. /\ shared' \in [Cells -> SharedResults]
      /\ shared'[c] = [shared[c] EXCEPT !.response = a]
      /\ \A j \in Cells \ {c} : shared'[j] = shared[j]
    BY CompleteEffect DEF Refuse, IInv, Cells, Answers
<1>1. TypeOK'
    BY <1>0 DEF Refuse, Goto, ledgerVars, gameVars, stopVars, IInv, TypeOK, Labels,
       Replies, Answers, LineOutcomes, SharedResults
<1>2. WellFormed'
    BY <1>0, AdminActionsAssumption DEF Refuse, Goto, gameVars, IInv, TypeOK,
       WellFormed, Answers
<1>3. CellsOwned'
    BY <1>0, AdminActionsAssumption DEF Refuse, Goto, ledgerVars, gameVars, stopVars,
       IInv, TypeOK, CellsOwned, OwnsCell, EntryOwned, WellFormed, SharedResults
<1>4. UntouchedBeforeDispatch'
    BY <1>0, AdminActionsAssumption DEF Refuse, Goto, IInv, TypeOK,
       UntouchedBeforeDispatch, WellFormed, CellsOwned, OwnsCell, EntryOwned, Cells, SharedResults
<1>5. QueuesHoldUnstarted'
    BY <1>0, AdminActionsAssumption DEF Refuse, Goto, gameVars, stopVars, IInv, TypeOK,
       QueuesHoldUnstarted, Dispatched, Unstarted, WellFormed, CellsOwned, OwnsCell, EntryOwned
<1>6. InHand'
    BY <1>0, AdminActionsAssumption DEF Refuse, Goto, ledgerVars, gameVars, stopVars,
       IInv, TypeOK, InHand, Dispatched, WellFormed, CellsOwned, OwnsCell, EntryOwned, UntouchedBeforeDispatch,
       FreshResult, Cells, SharedResults
<1>7. CellsTruthful'
    <2>. SUFFICES ASSUME NEW d \in Calls PROVE CellTruthful(d)'
        BY DEF CellsTruthful
    <2>1. /\ shared'[c].response = a
          /\ shared'[c].claimed = shared[c].claimed
          /\ shared'[c].cancelled = shared[c].cancelled
        BY <1>0 DEF SharedResults, IInv, TypeOK, Cells
    <2>2. ~shared[c].claimed /\ runs[c] = <<>> /\ runs' = runs /\ current' = current
        <3>1. pc[c] \in {"gates", "accept", "enqueue"}
            OBVIOUS
        <3>. QED BY <3>1 DEF Refuse, gameVars, IInv, UntouchedBeforeDispatch, FreshResult
    <2>3. CASE d = c
        BY <2>1, <2>2, <2>3, AdminActionsAssumption DEF CellTruthful, Refusals,
           ExecutionOutcomes, Untracked
    <2>4. CASE d # c
        BY <2>2, <2>4, <1>0, CellTruthStays DEF Refuse, Goto, IInv, TypeOK, Cells
    <2>. QED BY <2>3, <2>4
<1>8. RepliesFollowCells'
    <2>1. /\ ~Over(c) /\ cell'[c] = c /\ runs'[c] = <<>> /\ reply'[c] \in Refusals
          /\ shared'[c].response \in Refusals
        BY <1>0 DEF Refuse, IInv, TypeOK, CellsOwned, OwnsCell, EntryOwned, UntouchedBeforeDispatch, Over,
           SharedResults, Cells
    <2>2. Settling
        BY <1>0, <2>1, CompletionSettles DEF Refuse, Goto, IInv, TypeOK
    <2>3. ReplyFollowsCell(c)'
        BY <2>1, AdminActionsAssumption DEF ReplyFollowsCell, Refusals, ExecutionOutcomes
    <2>. QED BY <2>2, <2>3, RepliesStay DEF Refuse, IInv, TypeOK, RepliesFollowCells
<1>. QED BY <1>1, <1>2, <1>3, <1>4, <1>5, <1>6, <1>7, <1>8 DEF IInv

\* A tick begins with nothing in hand.
LEMMA BeginTickKeepsInv ==
    ASSUME IInv, BeginTick
    PROVE  IInv'
<1>1. TypeOK'
    BY AdminActionsAssumption DEF BeginTick, callVars, ledgerVars, stopVars, IInv, TypeOK
<1>2. WellFormed'
    BY DEF BeginTick, callVars, ledgerVars, gameVars, stopVars, IInv, TypeOK, WellFormed
<1>3. CellsOwned'
    BY DEF BeginTick, callVars, ledgerVars, gameVars, stopVars, IInv, TypeOK, CellsOwned, OwnsCell, EntryOwned
<1>4. UntouchedBeforeDispatch'
    BY DEF BeginTick, callVars, ledgerVars, gameVars, stopVars, IInv, TypeOK,
       UntouchedBeforeDispatch, FreshResult
<1>5. QueuesHoldUnstarted'
    BY DEF BeginTick, callVars, ledgerVars, gameVars, stopVars, IInv, TypeOK,
       QueuesHoldUnstarted, Dispatched, Unstarted
<1>6. InHand'
    BY DEF BeginTick, callVars, ledgerVars, gameVars, stopVars, IInv, TypeOK, InHand,
       Dispatched
<1>7. CellsTruthful'
    BY DEF BeginTick, callVars, ledgerVars, gameVars, stopVars, IInv, TypeOK,
       CellsTruthful, CellTruthful, Refusals, ExecutionOutcomes
<1>8. RepliesFollowCells'
    <2>1. Settling
        BY DEF BeginTick, callVars, Settling, Over
    <2>. QED BY <2>1, RepliesStay DEF BeginTick, callVars, RepliesFollowCells
<1>. QED BY <1>1, <1>2, <1>3, <1>4, <1>5, <1>6, <1>7, <1>8 DEF IInv

\* A tick ends with nothing in hand.
LEMMA EndTickKeepsInv ==
    ASSUME IInv, EndTick
    PROVE  IInv'
<1>1. TypeOK'
    BY AdminActionsAssumption DEF EndTick, callVars, ledgerVars, stopVars, IInv, TypeOK
<1>2. WellFormed'
    BY DEF EndTick, callVars, ledgerVars, gameVars, stopVars, IInv, TypeOK, WellFormed
<1>3. CellsOwned'
    BY DEF EndTick, callVars, ledgerVars, gameVars, stopVars, IInv, TypeOK, CellsOwned, OwnsCell, EntryOwned
<1>4. UntouchedBeforeDispatch'
    BY DEF EndTick, callVars, ledgerVars, gameVars, stopVars, IInv, TypeOK,
       UntouchedBeforeDispatch, FreshResult
<1>5. QueuesHoldUnstarted'
    BY DEF EndTick, callVars, ledgerVars, gameVars, stopVars, IInv, TypeOK,
       QueuesHoldUnstarted, Dispatched, Unstarted
<1>6. InHand'
    BY DEF EndTick, callVars, ledgerVars, gameVars, stopVars, IInv, TypeOK, InHand,
       Dispatched
<1>7. CellsTruthful'
    BY DEF EndTick, callVars, ledgerVars, gameVars, stopVars, IInv, TypeOK,
       CellsTruthful, CellTruthful, Refusals, ExecutionOutcomes
<1>8. RepliesFollowCells'
    <2>1. Settling
        BY DEF EndTick, callVars, Settling, Over
    <2>. QED BY <2>1, RepliesStay DEF EndTick, callVars, RepliesFollowCells
<1>. QED BY <1>1, <1>2, <1>3, <1>4, <1>5, <1>6, <1>7, <1>8 DEF IInv

\* The popped entry was unstarted and was in the queue only once.
LEMMA PopKeepsInv ==
    ASSUME IInv, Pop
    PROVE  IInv'
<1>1. TypeOK'
    BY DEF Pop, callVars, ledgerVars, gameVars, stopVars, IInv, TypeOK, Labels, WellFormed
<1>2. WellFormed'
    BY DEF Pop, callVars, ledgerVars, gameVars, stopVars, IInv, TypeOK, WellFormed
<1>3. CellsOwned'
    BY DEF Pop, callVars, ledgerVars, gameVars, stopVars, IInv, TypeOK, CellsOwned, OwnsCell, EntryOwned
<1>4. UntouchedBeforeDispatch'
    BY DEF Pop, callVars, ledgerVars, gameVars, stopVars, IInv, TypeOK,
       UntouchedBeforeDispatch, FreshResult
<1>5. QueuesHoldUnstarted'
    <2>1. /\ pc' = pc /\ cell' = cell /\ runs' = runs /\ shared' = shared
          /\ current' = Head(pending) /\ pending' = Tail(pending)
          /\ abandoned' = abandoned /\ stopping' = stopping /\ ~stopping
          /\ pending \in Seq(Calls) /\ pending # <<>> /\ abandoned = <<>>
        BY DEF Pop, callVars, stopVars, IInv, TypeOK, QueuesHoldUnstarted
    <2>2. \A i \in DOMAIN pending' :
              i \in Int /\ i >= 1 /\ i + 1 \in DOMAIN pending /\ pending'[i] = pending[i + 1]
        BY <2>1, TailFacts
    <2>3. Head(pending) = pending[1] /\ 1 \in DOMAIN pending
        BY <2>1, TailFacts
    <2>4. ASSUME NEW i \in DOMAIN pending'
          PROVE  (Dispatched(pending[i]) /\ Unstarted(pending[i]))'
        <3>1. pending'[i] # current'
            <4>1. i + 1 # 1
                BY <2>2
            <4>. QED BY <4>1, <2>1, <2>2, <2>3 DEF IInv, QueuesHoldUnstarted
        <3>2. Dispatched(pending[i + 1]) /\ Unstarted(pending[i + 1])
            BY <2>2 DEF IInv, QueuesHoldUnstarted
        <3>. QED BY <2>1, <2>2, <3>1, <3>2 DEF Dispatched, Unstarted
    <2>5. \A i, j \in DOMAIN pending' : pending'[i] = pending'[j] => i = j
        <3>. SUFFICES ASSUME NEW i \in DOMAIN pending', NEW j \in DOMAIN pending',
                             pending'[i] = pending'[j]
                      PROVE  i = j
            OBVIOUS
        <3>1. i + 1 = j + 1
            BY <2>2 DEF IInv, QueuesHoldUnstarted
        <3>. QED BY <2>2, <3>1
    <2>. QED BY <2>1, <2>4, <2>5 DEF QueuesHoldUnstarted
<1>6. InHand'
    BY AdminActionsAssumption DEF Pop, callVars, IInv, TypeOK, InHand, Dispatched,
       QueuesHoldUnstarted, Unstarted
<1>7. CellsTruthful'
    <2>1. current = None
        BY DEF Pop, IInv, WellFormed
    <2>. QED BY <2>1, CellTruthStays, AdminActionsAssumption DEF Pop, callVars, CellsTruthful
<1>8. RepliesFollowCells'
    <2>1. Settling
        BY DEF Pop, callVars, Settling, Over
    <2>. QED BY <2>1, RepliesStay DEF Pop, callVars, RepliesFollowCells
<1>. QED BY <1>1, <1>2, <1>3, <1>4, <1>5, <1>6, <1>7, <1>8 DEF IInv

\* An entry that was answered meanwhile is dropped.
LEMMA SkipKeepsInv ==
    ASSUME IInv, Skip
    PROVE  IInv'
<1>1. TypeOK'
    BY AdminActionsAssumption DEF Skip, callVars, ledgerVars, stopVars, NextEntry, IInv,
       TypeOK, WellFormed
<1>2. WellFormed'
    BY DEF Skip, callVars, ledgerVars, gameVars, stopVars, NextEntry, IInv, TypeOK,
       WellFormed
<1>3. CellsOwned'
    BY DEF Skip, callVars, ledgerVars, gameVars, stopVars, NextEntry, IInv, TypeOK,
       CellsOwned, OwnsCell, EntryOwned
<1>4. UntouchedBeforeDispatch'
    BY DEF Skip, callVars, ledgerVars, gameVars, stopVars, NextEntry, IInv, TypeOK,
       UntouchedBeforeDispatch, FreshResult
<1>5. QueuesHoldUnstarted'
    BY AdminActionsAssumption DEF Skip, callVars, stopVars, NextEntry, IInv, TypeOK,
       QueuesHoldUnstarted, Dispatched, Unstarted
<1>6. InHand'
    BY DEF Skip, callVars, ledgerVars, gameVars, stopVars, NextEntry, IInv, TypeOK,
       InHand, Dispatched
<1>7. CellsTruthful'
    <2>1. shared[current].response # None
        BY AdminActionsAssumption DEF Skip, IInv, WellFormed, CellsTruthful, CellTruthful,
           LineOutcomes, Replies, Answers
    <2>. QED BY <2>1, CellTruthStays DEF Skip, callVars, CellsTruthful
<1>8. RepliesFollowCells'
    <2>1. Settling
        BY DEF Skip, callVars, Settling, Over
    <2>. QED BY <2>1, RepliesStay DEF Skip, callVars, RepliesFollowCells
<1>. QED BY <1>1, <1>2, <1>3, <1>4, <1>5, <1>6, <1>7, <1>8 DEF IInv

\* A claimed entry is unanswered, so no refusal was given for it.
LEMMA ClaimKeepsInv ==
    ASSUME IInv, Claim
    PROVE  IInv'
<1>0. /\ shared' \in [Cells -> SharedResults]
      /\ shared'[current] = [shared[current] EXCEPT !.claimed = TRUE]
      /\ \A j \in Cells \ {current} : shared'[j] = shared[j]
    <2>1. current \in Cells
        BY DEF Claim, IInv, WellFormed, Cells
    <2>2. [shared[current] EXCEPT !.claimed = TRUE] \in SharedResults
        BY <2>1 DEF IInv, TypeOK, SharedResults
    <2>. QED BY <2>1, <2>2 DEF Claim, IInv, TypeOK
<1>1. TypeOK'
    BY <1>0, AdminActionsAssumption DEF Claim, callVars, ledgerVars, stopVars, IInv,
       TypeOK
<1>2. WellFormed'
    BY <1>0 DEF Claim, callVars, ledgerVars, gameVars, stopVars, IInv, TypeOK,
       WellFormed, SharedResults
<1>3. CellsOwned'
    BY <1>0 DEF Claim, callVars, ledgerVars, gameVars, stopVars, IInv, TypeOK,
       CellsOwned, OwnsCell, EntryOwned, SharedResults
<1>4. UntouchedBeforeDispatch'
    BY <1>0, AdminActionsAssumption DEF Claim, callVars, IInv, TypeOK,
       UntouchedBeforeDispatch, CellsOwned, OwnsCell, EntryOwned, Cells, QueuesHoldUnstarted, Dispatched,
       Unstarted, InHand, CellsTruthful, CellTruthful, SharedResults
<1>5. QueuesHoldUnstarted'
    BY <1>0 DEF Claim, callVars, stopVars, IInv, TypeOK, QueuesHoldUnstarted,
       Dispatched, Unstarted
<1>6. InHand'
    BY <1>0, AdminActionsAssumption DEF Claim, callVars, IInv, TypeOK, InHand, Dispatched
<1>7. CellsTruthful'
    <2>. SUFFICES ASSUME NEW d \in Calls PROVE CellTruthful(d)'
        BY DEF CellsTruthful
    <2>1. /\ current \in Calls /\ shared'[current].claimed
          /\ shared'[current].response = shared[current].response
          /\ shared'[current].cancelled = shared[current].cancelled
        BY <1>0 DEF Claim, SharedResults, IInv, TypeOK, WellFormed, Cells
    <2>2. /\ shared[current].response = None /\ ~shared[current].cancelled
          /\ runs' = runs /\ current' = current
        BY DEF Claim
    <2>3. CASE d = current
        BY <2>1, <2>2, <2>3, AdminActionsAssumption DEF CellTruthful, Refusals,
           ExecutionOutcomes, LineOutcomes, Replies, Answers
    <2>4. CASE d # current
        BY <2>2, <2>4, <1>0, CellTruthStays DEF Claim, callVars, IInv, WellFormed, Cells
    <2>. QED BY <2>3, <2>4
<1>8. RepliesFollowCells'
    <2>1. /\ current \in Calls /\ ~Over(current)
          /\ shared'[current].response = shared[current].response
        BY <1>0 DEF Claim, IInv, WellFormed, InHand, Dispatched, Over, TypeOK, SharedResults,
           Cells
    <2>2. Settling
        BY <1>0, <2>1, CompletionSettles DEF Claim, callVars
    <2>. QED BY <2>2, RepliesStay DEF Claim, callVars, RepliesFollowCells
<1>. QED BY <1>1, <1>2, <1>3, <1>4, <1>5, <1>6, <1>7, <1>8 DEF IInv

\* The request in hand is run for the first time.
LEMMA ExecuteKeepsInv ==
    ASSUME IInv, Execute
    PROVE  IInv'
<1>1. TypeOK'
    BY DEF Execute, callVars, ledgerVars, gameVars, stopVars, IInv, TypeOK, Labels,
       WellFormed
<1>2. WellFormed'
    BY DEF Execute, callVars, ledgerVars, gameVars, stopVars, IInv, TypeOK, WellFormed
<1>3. CellsOwned'
    BY DEF Execute, callVars, ledgerVars, gameVars, stopVars, IInv, TypeOK, CellsOwned, OwnsCell, EntryOwned
<1>4. UntouchedBeforeDispatch'
    BY AdminActionsAssumption DEF Execute, callVars, IInv, TypeOK,
       UntouchedBeforeDispatch, FreshResult, Cells, InHand
<1>5. QueuesHoldUnstarted'
    BY DEF Execute, callVars, ledgerVars, gameVars, stopVars, IInv, TypeOK,
       QueuesHoldUnstarted, Dispatched, Unstarted
<1>6. InHand'
    BY DEF Execute, callVars, ledgerVars, gameVars, stopVars, IInv, TypeOK, InHand,
       Dispatched, WellFormed
<1>7. CellsTruthful'
    <2>. SUFFICES ASSUME NEW d \in Calls PROVE CellTruthful(d)'
        BY DEF CellsTruthful
    <2>1. CASE d = current
        BY <2>1, AdminActionsAssumption DEF Execute, callVars, IInv, TypeOK, InHand,
           CellTruthful, LineOutcomes, Replies, Answers
    <2>2. CASE d # current
        BY <2>2, CellTruthStays DEF Execute, callVars, IInv, TypeOK
    <2>. QED BY <2>1, <2>2
<1>8. RepliesFollowCells'
    <2>1. /\ current \in Calls /\ ~Over(current) /\ runs[current] = <<>>
          /\ shared[current].response \notin Refusals
        BY AdminActionsAssumption DEF Execute, IInv, WellFormed, InHand, Dispatched, Over,
           LineOutcomes, Replies, Answers
    <2>2. Settling
        BY <2>1 DEF Execute, callVars, Settling, Over, IInv, TypeOK
    <2>. QED BY <2>2, RepliesStay DEF Execute, callVars, RepliesFollowCells
<1>. QED BY <1>1, <1>2, <1>3, <1>4, <1>5, <1>6, <1>7, <1>8 DEF IInv

\* The cell of the executed entry, still unanswered, reports what ran.
LEMMA PublishKeepsInv ==
    ASSUME IInv, Publish
    PROVE  IInv'
<1>0. /\ shared' \in [Cells -> SharedResults]
      /\ shared'[current] = [shared[current] EXCEPT !.response = execution]
      /\ \A j \in Cells \ {current} : shared'[j] = shared[j]
    BY CompleteEffect DEF Publish, IInv, WellFormed, Cells, Answers
<1>1. TypeOK'
    BY <1>0, AdminActionsAssumption DEF Publish, callVars, ledgerVars, stopVars,
       NextEntry, IInv, TypeOK, WellFormed
<1>2. WellFormed'
    BY <1>0 DEF Publish, callVars, ledgerVars, gameVars, stopVars, NextEntry, IInv,
       TypeOK, WellFormed, SharedResults
<1>3. CellsOwned'
    BY <1>0 DEF Publish, callVars, ledgerVars, gameVars, stopVars, NextEntry, IInv,
       TypeOK, CellsOwned, OwnsCell, EntryOwned, SharedResults
<1>4. UntouchedBeforeDispatch'
    <2>. SUFFICES ASSUME NEW d \in Calls
                  PROVE  /\ cell'[d] # d => shared'[d] = FreshResult /\ runs'[d] = <<>>
                         /\ pc'[d] \in {"gates", "accept", "enqueue"} =>
                               shared'[d] = FreshResult /\ runs'[d] = <<>>
        BY DEF UntouchedBeforeDispatch, FreshResult
    <2>1. cell[current] = current /\ pc[current] \notin {"gates", "accept", "enqueue"}
        BY DEF Publish, IInv, InHand, Dispatched
    <2>2. pc' = pc /\ cell' = cell /\ runs' = runs
        BY DEF Publish, callVars
    <2>3. CASE d = current
        BY <2>1, <2>2, <2>3
    <2>4. CASE d # current
        BY <2>2, <2>4, <1>0 DEF IInv, UntouchedBeforeDispatch, Cells
    <2>. QED BY <2>3, <2>4
<1>5. QueuesHoldUnstarted'
    BY <1>0, AdminActionsAssumption DEF Publish, callVars, stopVars, NextEntry, IInv,
       TypeOK, QueuesHoldUnstarted, Dispatched, Unstarted
<1>6. InHand'
    BY <1>0 DEF Publish, NextEntry, IInv, TypeOK, InHand
<1>7. CellsTruthful'
    <2>. SUFFICES ASSUME NEW d \in Calls PROVE CellTruthful(d)'
        BY DEF CellsTruthful
    <2>1. /\ shared'[current].response = execution
          /\ shared'[current].claimed = shared[current].claimed
          /\ shared'[current].cancelled = shared[current].cancelled
        BY <1>0 DEF SharedResults, IInv, TypeOK, Cells
    <2>2. /\ current \in Calls /\ shared[current].claimed /\ ~shared[current].cancelled
          /\ runs[current] = <<execution>> /\ execution \in ExecutionOutcomes
          /\ runs' = runs /\ current' = None
        BY DEF Publish, NextEntry, IInv, WellFormed, InHand
    <2>a. execution \notin Refusals \cup {None, "action_outcome_unknown"}
        BY <2>2, AdminActionsAssumption DEF Refusals, ExecutionOutcomes, Untracked,
           LineOutcomes, Replies, Answers
    <2>3. CASE d = current
        BY <2>1, <2>2, <2>3, <2>a DEF CellTruthful
    <2>4. CASE d # current
        BY <2>2, <2>4, <1>0, CellTruthStays DEF Publish, NextEntry, callVars, IInv, WellFormed, Cells
    <2>. QED BY <2>3, <2>4
<1>8. RepliesFollowCells'
    <2>1. /\ current \in Calls /\ ~Over(current)
          /\ shared[current].response \notin Refusals
        BY AdminActionsAssumption DEF Publish, IInv, WellFormed, InHand, Dispatched, Over,
           LineOutcomes, Replies, Answers
    <2>2. Settling
        BY <1>0, <2>1, CompletionSettles DEF Publish, callVars
    <2>. QED BY <2>2, RepliesStay DEF Publish, callVars, RepliesFollowCells
<1>. QED BY <1>1, <1>2, <1>3, <1>4, <1>5, <1>6, <1>7, <1>8 DEF IInv

\* The entries change queues.
LEMMA StopAcceptingKeepsInv ==
    ASSUME IInv, StopAccepting
    PROVE  IInv'
<1>1. TypeOK'
    BY DEF StopAccepting, callVars, ledgerVars, gameVars, stopVars, IInv, TypeOK,
       Labels, WellFormed
<1>2. WellFormed'
    BY DEF StopAccepting, callVars, ledgerVars, gameVars, stopVars, IInv, TypeOK,
       WellFormed
<1>3. CellsOwned'
    BY DEF StopAccepting, callVars, ledgerVars, gameVars, stopVars, IInv, TypeOK,
       CellsOwned, OwnsCell, EntryOwned
<1>4. UntouchedBeforeDispatch'
    BY DEF StopAccepting, callVars, ledgerVars, gameVars, stopVars, IInv, TypeOK,
       UntouchedBeforeDispatch, FreshResult
<1>5. QueuesHoldUnstarted'
    BY DEF StopAccepting, callVars, ledgerVars, gameVars, stopVars, IInv, TypeOK,
       QueuesHoldUnstarted, Dispatched, Unstarted
<1>6. InHand'
    BY DEF StopAccepting, callVars, ledgerVars, gameVars, stopVars, IInv, TypeOK,
       InHand, Dispatched
<1>7. CellsTruthful'
    BY DEF StopAccepting, callVars, ledgerVars, gameVars, stopVars, IInv, TypeOK,
       CellsTruthful, CellTruthful, Refusals, ExecutionOutcomes
<1>8. RepliesFollowCells'
    <2>1. Settling
        BY DEF StopAccepting, callVars, Settling, Over
    <2>. QED BY <2>1, RepliesStay DEF StopAccepting, callVars, RepliesFollowCells
<1>. QED BY <1>1, <1>2, <1>3, <1>4, <1>5, <1>6, <1>7, <1>8 DEF IInv

\* The completed entry was unstarted; its answer may replace another refusal.
LEMMA AnswerAbandonedKeepsInv ==
    ASSUME IInv, AnswerAbandoned
    PROVE  IInv'
<1>a. Head(abandoned) \in Calls /\ Tail(abandoned) \in Seq(Calls)
    BY DEF AnswerAbandoned, IInv, TypeOK
<1>b. Dispatched(Head(abandoned)) /\ Unstarted(Head(abandoned))
    BY <1>a, TailFacts DEF AnswerAbandoned, IInv, TypeOK, QueuesHoldUnstarted
<1>0. /\ shared' \in [Cells -> SharedResults]
      /\ shared'[Head(abandoned)] = [shared[Head(abandoned)] EXCEPT !.response = "companion_stopping"]
      /\ \A j \in Cells \ {Head(abandoned)} : shared'[j] = shared[j]
    BY <1>a, CompleteEffect DEF AnswerAbandoned, IInv, TypeOK, Cells, Refusals, Answers
<1>1. TypeOK'
    BY <1>a, <1>0 DEF AnswerAbandoned, callVars, ledgerVars, gameVars, stopVars, IInv,
       TypeOK, Labels, WellFormed, SharedResults
<1>2. WellFormed'
    BY <1>a, <1>0 DEF AnswerAbandoned, callVars, ledgerVars, gameVars, stopVars, IInv,
       TypeOK, WellFormed, SharedResults
<1>3. CellsOwned'
    BY <1>a, <1>0 DEF AnswerAbandoned, callVars, ledgerVars, gameVars, stopVars, IInv,
       TypeOK, CellsOwned, OwnsCell, EntryOwned, SharedResults
<1>4. UntouchedBeforeDispatch'
    <2>. SUFFICES ASSUME NEW d \in Calls
                  PROVE  /\ cell'[d] # d => shared'[d] = FreshResult /\ runs'[d] = <<>>
                         /\ pc'[d] \in {"gates", "accept", "enqueue"} =>
                               shared'[d] = FreshResult /\ runs'[d] = <<>>
        BY DEF UntouchedBeforeDispatch, FreshResult
    <2>. DEFINE k == Head(abandoned)
    <2>1. cell[k] = k /\ pc[k] \notin {"gates", "accept", "enqueue"}
        BY <1>b DEF Dispatched
    <2>2. pc' = pc /\ cell' = cell /\ runs' = runs
        BY DEF AnswerAbandoned, callVars
    <2>3. CASE d = k
        BY <2>1, <2>2, <2>3
    <2>4. CASE d # k
        <3>1. shared'[d] = shared[d]
            BY <2>4, <1>0 DEF Cells
        <3>. QED BY <2>2, <3>1 DEF IInv, UntouchedBeforeDispatch
    <2>. QED BY <2>3, <2>4
<1>5. QueuesHoldUnstarted'
    <2>. DEFINE k == Head(abandoned)
    <2>1. /\ pc' = pc /\ cell' = cell /\ runs' = runs /\ current' = current
          /\ pending' = pending /\ abandoned' = Tail(abandoned) /\ stopping' = stopping
          /\ pending \in Seq(Calls) /\ abandoned \in Seq(Calls) /\ abandoned # <<>>
        BY DEF AnswerAbandoned, callVars, gameVars, IInv, TypeOK
    <2>2. /\ shared'[k].response = "companion_stopping" /\ shared'[k].response # None
          /\ shared'[k].claimed = shared[k].claimed
        BY <1>0, <1>a, AdminActionsAssumption DEF SharedResults, IInv, TypeOK, Cells,
           LineOutcomes, Replies, Answers, Refusals
    <2>3. ASSUME NEW d \in Calls, Dispatched(d), Unstarted(d)
          PROVE  Dispatched(d)' /\ Unstarted(d)'
        <3>1. CASE d = k
            BY <2>1, <2>2, <2>3, <3>1 DEF Dispatched, Unstarted
        <3>2. CASE d # k
            <4>1. shared'[d] = shared[d]
                BY <3>2, <1>0 DEF Cells
            <4>. QED BY <2>1, <2>3, <4>1 DEF Dispatched, Unstarted
        <3>. QED BY <3>1, <3>2
    <2>4. \A i \in DOMAIN pending : pending[i] \in Calls
        BY <2>1
    <2>5. \A i \in DOMAIN abandoned : abandoned[i] \in Calls
        BY <2>1
    <2>6. \A i \in DOMAIN abandoned' :
              i \in Int /\ i + 1 \in DOMAIN abandoned /\ abandoned'[i] = abandoned[i + 1]
        BY <2>1, TailFacts
    <2>7. \A i \in DOMAIN abandoned' : (Dispatched(abandoned[i]) /\ Unstarted(abandoned[i]))'
        BY <2>3, <2>5, <2>6 DEF IInv, QueuesHoldUnstarted
    <2>8. \A i, j \in DOMAIN abandoned' : abandoned'[i] = abandoned'[j] => i = j
        <3>. SUFFICES ASSUME NEW i \in DOMAIN abandoned', NEW j \in DOMAIN abandoned',
                             abandoned'[i] = abandoned'[j]
                      PROVE  i = j
            OBVIOUS
        <3>1. i + 1 = j + 1
            BY <2>6 DEF IInv, QueuesHoldUnstarted
        <3>. QED BY <2>6, <3>1
    <2>9. stopping
        BY <2>1 DEF IInv, QueuesHoldUnstarted
    <2>10. \A i \in DOMAIN pending' : (Dispatched(pending[i]) /\ Unstarted(pending[i]))'
        BY <2>1, <2>3, <2>4 DEF IInv, QueuesHoldUnstarted
    <2>. QED BY <2>1, <2>7, <2>8, <2>9, <2>10 DEF IInv, QueuesHoldUnstarted
<1>6. InHand'
    BY <1>a, <1>0, AdminActionsAssumption DEF AnswerAbandoned, callVars, gameVars, IInv,
       TypeOK, InHand, Dispatched, WellFormed, QueuesHoldUnstarted, Unstarted
<1>7. CellsTruthful'
    <2>. SUFFICES ASSUME NEW d \in Calls PROVE CellTruthful(d)'
        BY DEF CellsTruthful
    <2>. DEFINE k == Head(abandoned)
    <2>1. /\ shared'[k].response = "companion_stopping"
          /\ shared'[k].claimed = shared[k].claimed
          /\ shared'[k].cancelled = shared[k].cancelled
        BY <1>0, <1>a DEF SharedResults, IInv, TypeOK, Cells
    <2>2. /\ k \in Calls /\ ~shared[k].claimed /\ runs[k] = <<>>
          /\ runs' = runs /\ current' = current
        BY <1>a DEF AnswerAbandoned, gameVars, IInv, TypeOK, QueuesHoldUnstarted,
           Unstarted
    <2>. HIDE DEF k
    <2>3. CASE d = k
        BY <2>1, <2>2, <2>3, AdminActionsAssumption DEF CellTruthful, Refusals,
           ExecutionOutcomes, Untracked
    <2>4. CASE d # k
        <3>1. shared'[d] = shared[d]
            BY <2>4, <1>0 DEF k, Cells
        <3>. QED BY <2>2, <3>1, CellTruthStays DEF AnswerAbandoned, callVars
    <2>. QED BY <2>3, <2>4
<1>8. RepliesFollowCells'
    <2>1. /\ Head(abandoned) \in Calls /\ ~Over(Head(abandoned))
          /\ shared'[Head(abandoned)].response \in Refusals
        BY <1>a, <1>b, <1>0 DEF Dispatched, Over, Refusals, IInv, TypeOK, SharedResults,
           Cells
    <2>2. Settling
        BY <1>0, <2>1, CompletionSettles DEF AnswerAbandoned, callVars
    <2>. QED BY <2>2, RepliesStay DEF AnswerAbandoned, callVars, RepliesFollowCells
<1>. QED BY <1>1, <1>2, <1>3, <1>4, <1>5, <1>6, <1>7, <1>8 DEF IInv

-----------------------------------------------------------------------------
(* The theorems *)

\* The initial state.
LEMMA InitHasInv == Init => IInv
<1>. SUFFICES ASSUME Init PROVE IInv
    OBVIOUS
<1>a. None \notin Calls /\ None \notin Answers
    BY AdminActionsAssumption DEF LineOutcomes, Replies
<1>1. TypeOK
    <2>1. ledger \in [{} -> [payload : Payloads, cell : Cells]]
        BY DEF Init
    <2>2. ledger \in Ledgers
        BY <2>1 DEF Ledgers
    <2>3. log \in Log
        BY DEF Init, EmptyLog, Log
    <2>4. shared \in [Cells -> SharedResults]
        BY DEF Init, FreshResult, SharedResults
    <2>5. processed \in 0..MaxActions
        BY AdminActionsAssumption DEF Init
    <2>6. /\ order \in Seq(RequestIds) /\ pending \in Seq(Calls) /\ abandoned \in Seq(Calls)
          /\ runs \in [Calls -> Seq(ExecutionOutcomes)]
        <3>1. <<>> \in Seq(ExecutionOutcomes)
            OBVIOUS
        <3>. QED BY <3>1 DEF Init
    <2>7. /\ pc \in [Calls -> Labels]
          /\ request \in [Calls -> Requests \cup {None}]
          /\ cell \in [Calls -> Cells \cup {None}]
          /\ reply \in [Calls -> Replies \cup {None}]
        BY DEF Init, Labels
    <2>. QED BY <2>2, <2>3, <2>4, <2>5, <2>6, <2>7 DEF Init, TypeOK
<1>2. WellFormed /\ CellsOwned
    BY <1>a, AdminActionsAssumption DEF Init, WellFormed, CellsOwned, OwnsCell
<1>3. UntouchedBeforeDispatch
    BY DEF Init, UntouchedBeforeDispatch, Cells
<1>4. QueuesHoldUnstarted /\ InHand
    BY DEF Init, QueuesHoldUnstarted, InHand
<1>5. CellsTruthful
    BY <1>a, AdminActionsAssumption DEF Init, CellsTruthful, CellTruthful, FreshResult,
       Cells, Answers
<1>6. RepliesFollowCells
    BY <1>a DEF Init, RepliesFollowCells, ReplyFollowsCell
<1>. QED BY <1>1, <1>2, <1>3, <1>4, <1>5, <1>6 DEF IInv

\* Every step of a worker thread.
LEMMA HandleKeepsInv ==
    ASSUME IInv, NEW c \in Calls, Handle(c)
    PROVE  IInv'
<1>1. CASE RejectUnauthenticated(c)
    BY <1>1, RejectUnauthenticatedKeepsInv
<1>2. CASE RejectMalformed(c)
    BY <1>2, RejectMalformedKeepsInv
<1>3. CASE Parse(c)
    BY <1>3, ParseKeepsInv
<1>4. CASE RejectConflict(c)
    BY <1>4, RejectConflictKeepsInv
<1>5. CASE JoinOriginal(c)
    BY <1>5, JoinOriginalKeepsInv
<1>6. CASE Admit(c)
    BY <1>6, AdmitKeepsInv
<1>7. CASE RefuseDisabled(c)
    BY <1>7, RefusingKeepsInv DEF RefuseDisabled, Refusals
<1>8. CASE RefuseUnsupported(c)
    BY <1>8, RefusingKeepsInv DEF RefuseUnsupported, Refusals
<1>9. CASE PassGates(c)
    BY <1>9, PassGatesKeepsInv
<1>10. CASE Accept(c)
    BY <1>10, AcceptKeepsInv
<1>11. CASE RefuseUnaudited(c)
    BY <1>11, RefuseUnauditedKeepsInv
<1>12. CASE Enqueue(c)
    BY <1>12, EnqueueKeepsInv
<1>13. CASE RefuseStopping(c)
    BY <1>13, RefusingKeepsInv DEF RefuseStopping, Refusals
<1>14. CASE Answered(c)
    BY <1>14, AnsweredKeepsInv
<1>15. CASE TimeOut(c)
    BY <1>15, TimeOutKeepsInv
<1>16. CASE ReplayAnswer(c)
    BY <1>16, ReplayAnswerKeepsInv
<1>17. CASE AuditReply(c)
    BY <1>17, AuditReplyKeepsInv
<1>. QED
    BY <1>1, <1>2, <1>3, <1>4, <1>5, <1>6, <1>7, <1>8, <1>9, <1>10, <1>11, <1>12, <1>13,
       <1>14, <1>15, <1>16, <1>17 DEF Handle

\* Every step.
LEMMA NextKeepsInv == IInv /\ [Next]_vars => IInv'
<1>. SUFFICES ASSUME IInv, [Next]_vars PROVE IInv'
    OBVIOUS
<1>1. ASSUME NEW c \in Calls, Handle(c) PROVE IInv'
    BY <1>1, HandleKeepsInv
<1>2. CASE BeginTick
    BY <1>2, BeginTickKeepsInv
<1>3. CASE EndTick
    BY <1>3, EndTickKeepsInv
<1>4. CASE Pop
    BY <1>4, PopKeepsInv
<1>5. CASE Skip
    BY <1>5, SkipKeepsInv
<1>6. CASE Claim
    BY <1>6, ClaimKeepsInv
<1>7. CASE Execute
    BY <1>7, ExecuteKeepsInv
<1>8. CASE Publish
    BY <1>8, PublishKeepsInv
<1>9. CASE StopAccepting
    BY <1>9, StopAcceptingKeepsInv
<1>10. CASE AnswerAbandoned
    BY <1>10, AnswerAbandonedKeepsInv
<1>11. CASE UNCHANGED vars
    <2>1. /\ TypeOK' /\ WellFormed' /\ UntouchedBeforeDispatch' /\ InHand'
          /\ QueuesHoldUnstarted'
        BY <1>11 DEF vars, callVars, ledgerVars, gameVars, stopVars, IInv, TypeOK,
           WellFormed, UntouchedBeforeDispatch, QueuesHoldUnstarted, Dispatched,
           Unstarted, InHand
    <2>2. CellsOwned'
        BY <1>11 DEF vars, callVars, ledgerVars, IInv, CellsOwned, OwnsCell, EntryOwned
    <2>3. CellsTruthful' /\ RepliesFollowCells'
        BY <1>11 DEF vars, callVars, gameVars, IInv, CellsTruthful, CellTruthful,
           RepliesFollowCells, ReplyFollowsCell, Over
    <2>. QED BY <2>1, <2>2, <2>3 DEF IInv
<1>. QED
    BY <1>1, <1>2, <1>3, <1>4, <1>5, <1>6, <1>7, <1>8, <1>9, <1>10, <1>11 DEF Next,
       GameThread

\* A cell that has an answer keeps one.
LEMMA AnswersStay ==
    ASSUME IInv, [Next]_vars
    PROVE  \A k \in Cells : shared[k].response # None => shared'[k].response # None
<1>1. ASSUME NEW k \in Cells, NEW a \in Answers, Complete(k, a)
      PROVE  shared'[k].response # None /\ \A j \in Cells \ {k} : shared'[j] = shared[j]
    <2>1. shared'[k] = [shared[k] EXCEPT !.response = a] /\ shared[k] \in SharedResults
        BY <1>1, CompleteEffect DEF IInv, TypeOK
    <2>2. a # None
        BY AdminActionsAssumption DEF LineOutcomes, Replies
    <2>. QED BY <1>1, <2>1, <2>2, CompleteEffect DEF IInv, SharedResults
<1>2. ASSUME NEW c \in Calls, Handle(c)
      PROVE  \A k \in Cells : shared[k].response # None => shared'[k].response # None
    <2>1. CASE \E a \in Answers : Complete(c, a)
        BY <1>1, <2>1 DEF Cells
    <2>2. CASE TimeOut(c)
        BY <2>2 DEF TimeOut, IInv, TypeOK, SharedResults, Cells
    <2>3. CASE shared' = shared
        BY <2>3
    <2>. QED BY <1>2, <2>1, <2>2, <2>3 DEF Handle, RejectUnauthenticated,
       RejectMalformed, Parse, RejectConflict, JoinOriginal, Admit, RefuseDisabled,
       RefuseUnsupported, PassGates, Accept, RefuseUnaudited, Enqueue, RefuseStopping,
       Refuse, Answered, ReplayAnswer, AuditReply, Refusals, Answers
<1>3. CASE Claim
    BY <1>3 DEF Claim, IInv, TypeOK, WellFormed, SharedResults, Cells
<1>4. CASE Publish
    BY <1>1, <1>4 DEF Publish, IInv, WellFormed, Cells, Answers
<1>5. CASE AnswerAbandoned
    <2>1. Head(abandoned) \in Calls
        BY <1>5 DEF AnswerAbandoned, IInv, TypeOK
    <2>. QED BY <1>1, <1>5, <2>1 DEF AnswerAbandoned, Cells, Answers, Refusals
<1>6. CASE shared' = shared
    BY <1>6
<1>. QED BY <1>2, <1>3, <1>4, <1>5, <1>6 DEF Next, GameThread, BeginTick, EndTick, Pop,
   Skip, Execute, StopAccepting, vars

\* As long as the process lives: no cell was loaded from the journal, no call
\* is lost, and a call that has finished with the ledger left an answer there.
OneLife ==
    /\ \A c \in Calls :
          /\ pc[c] # "lost"
          /\ cell[c] # None => cell[c] \in Calls
          /\ pc[c] \in {"audit", "done"} /\ cell[c] # None => shared[cell[c]].response # None
    /\ \A i \in DOMAIN ledger : ledger[i].cell \in Calls

LEMMA NextKeepsOneLife ==
    ASSUME IInv, OneLife, [Next]_vars
    PROVE  OneLife'
<1>1. ASSUME NEW c \in Calls, Handle(c) PROVE OneLife'
    <2>1. /\ pc \in [Calls -> Labels] /\ cell \in [Calls -> Cells \cup {None}]
          /\ shared \in [Cells -> SharedResults]
          /\ pc[c] \in {"idle", "lookup"} => cell[c] = None
          /\ pc[c] \in {"gates", "accept", "enqueue", "waiting"} => cell[c] = c
          /\ Calls \subseteq Cells
        BY DEF IInv, TypeOK, CellsOwned, OwnsCell, Cells
    <2>2. \A k \in Calls : shared[k].response # None => shared'[k].response # None
        BY <2>1, AnswersStay
    <2>3. CASE RejectUnauthenticated(c) \/ RejectMalformed(c) \/ RejectConflict(c)
        BY <2>1, <2>3 DEF RejectUnauthenticated, RejectMalformed, RejectConflict, Goto,
           ledgerVars, OneLife
    <2>4. CASE Parse(c) \/ PassGates(c) \/ Accept(c) \/ Enqueue(c)
        BY <2>1, <2>4 DEF Parse, PassGates, Accept, Enqueue, Goto, ledgerVars, OneLife
    <2>5. CASE JoinOriginal(c)
        BY <2>1, <2>5 DEF JoinOriginal, Known, Goto, ledgerVars, OneLife
    <2>6. CASE Admit(c)
        BY <2>1, <2>6 DEF Admit, Goto, OneLife
    <2>7. ASSUME NEW l \in {"audit", "done"}, NEW a \in Answers, Goto(c, l), cell' = cell,
                 ledger' = ledger, shared'[c].response = a, cell[c] = c
          PROVE  OneLife'
        <3>1. a # None
            BY AdminActionsAssumption DEF LineOutcomes, Replies
        <3>. QED BY <2>1, <2>2, <2>7, <3>1 DEF Goto, OneLife
    <2>8. CASE \E a \in Answers : Complete(c, a) /\ Goto(c, "audit") /\ cell' = cell
                                  /\ ledger' = ledger /\ cell[c] = c
        <3>1. PICK a \in Answers : /\ Complete(c, a) /\ Goto(c, "audit") /\ cell' = cell
                                   /\ ledger' = ledger /\ cell[c] = c
            BY <2>8
        <3>2. shared'[c].response = a
            BY <2>1, <3>1 DEF Complete, SharedResults
        <3>. QED BY <2>7, <3>1, <3>2
    <2>9. CASE RefuseDisabled(c) \/ RefuseUnsupported(c) \/ RefuseStopping(c)
        BY <2>1, <2>8, <2>9 DEF RefuseDisabled, RefuseUnsupported, RefuseStopping, Refuse,
           Refusals, Answers, ledgerVars
    <2>10. CASE RefuseUnaudited(c)
        <3>1. shared'[c].response = "audit_unavailable"
            BY <2>1, <2>10 DEF RefuseUnaudited, Complete, SharedResults
        <3>. QED BY <2>1, <2>7, <2>10, <3>1 DEF RefuseUnaudited, Refusals, Answers,
           ledgerVars
    <2>11. CASE TimeOut(c)
        <3>1. shared'[c].response = "game_thread_unavailable"
            BY <2>1, <2>11 DEF TimeOut, SharedResults
        <3>. QED BY <2>1, <2>7, <2>11, <3>1 DEF TimeOut, Refusals, Answers, ledgerVars
    <2>12. CASE Answered(c) \/ ReplayAnswer(c) \/ AuditReply(c)
        BY <2>1, <2>12 DEF Answered, ReplayAnswer, AuditReply, Goto, ledgerVars, OneLife
    <2>. QED BY <1>1, <2>3, <2>4, <2>5, <2>6, <2>9, <2>10, <2>11, <2>12 DEF Handle
<1>2. CASE pc' = pc /\ cell' = cell /\ ledger' = ledger
    BY <1>2, AnswersStay DEF OneLife, Cells
<1>. QED BY <1>1, <1>2 DEF Next, BeginTick, GameThread, EndTick, Pop, Skip, Claim,
   Execute, Publish, StopAccepting, AnswerAbandoned, callVars, ledgerVars, vars

\* The initial state.
LEMMA InitHasOneLife == Init => OneLife
BY DEF Init, OneLife

\* The inductive invariant holds in every reachable state.
THEOREM InvariantHolds == Spec => []IInv
<1>. QED BY InitHasInv, NextKeepsInv, PTL DEF Spec

\* Every variable of the service stays in its range, for any number of calls,
\* identifiers and payloads: in particular one tick never runs over its budget
\* and the ledger only names cells that exist.
THEOREM TypeCorrect == Spec => []TypeOK
<1>1. IInv => TypeOK
    BY DEF IInv
<1>. QED BY InvariantHolds, <1>1, PTL

\* No refused request is ever run, before or after the refusal, whatever the
\* number of callers and however their deadlines, the game thread and the
\* shutdown interleave.
THEOREM RefusalsHold == Spec => []RefusalsAreTruthful
<1>1. IInv => RefusalsAreTruthful
    <2>. SUFFICES ASSUME IInv, NEW c \in Calls, reply[c] \in Refusals, cell[c] \in Calls
                  PROVE  runs[cell[c]] = <<>>
        BY DEF RefusalsAreTruthful
    <2>1. reply[c] \in Answers
        BY DEF Answers
    <2>. QED BY <2>1 DEF IInv, RepliesFollowCells, ReplyFollowsCell
<1>. QED BY InvariantHolds, <1>1, PTL

\* Every reported execution took place once, with that result, for a request
\* with the same identifier and the same payload.
THEOREM ReportsHold == Spec => []ReportsAreTruthful
<1>1. IInv => ReportsAreTruthful
    <2>. SUFFICES ASSUME IInv, NEW c \in Calls, reply[c] \in ExecutionOutcomes,
                         cell[c] \in Calls
                  PROVE  runs[cell[c]] = <<reply[c]>> /\ request[cell[c]] = request[c]
        BY DEF ReportsAreTruthful
    <2>1. reply[c] \in Answers
        BY DEF Answers
    <2>2. runs[cell[c]] = <<reply[c]>>
        BY <2>1 DEF IInv, RepliesFollowCells, ReplyFollowsCell
    <2>3. request[cell[c]] = request[c]
        BY DEF IInv, CellsOwned, OwnsCell
    <2>. QED BY <2>2, <2>3
<1>. QED BY InvariantHolds, <1>1, PTL

\* The deadline of a caller and the game thread never both win an entry, and a
\* queued entry has not been started and still has a caller or an answer.
THEOREM FateIsUnique == Spec => []OneFatePerEntry
<1>1. IInv => OneFatePerEntry
    <2>. SUFFICES ASSUME IInv, NEW c \in Calls
                  PROVE  /\ ~(shared[c].claimed /\ shared[c].cancelled)
                         /\ c \in Elements(pending \o abandoned) =>
                               /\ ~shared[c].claimed
                               /\ pc[c] = "waiting" \/ shared[c].response # None
        BY DEF OneFatePerEntry
    <2>1. ~(shared[c].claimed /\ shared[c].cancelled)
        BY DEF IInv, CellsTruthful, CellTruthful
    <2>2. ASSUME c \in Elements(pending \o abandoned)
          PROVE  Dispatched(c) /\ Unstarted(c)
        <3>1. pending \in Seq(Calls) /\ abandoned \in Seq(Calls)
            BY DEF IInv, TypeOK
        <3>2. PICK i \in DOMAIN (pending \o abandoned) : (pending \o abandoned)[i] = c
            BY <2>2 DEF Elements
        <3>3. \/ i \in DOMAIN pending /\ pending[i] = c
              \/ i - Len(pending) \in DOMAIN abandoned /\ abandoned[i - Len(pending)] = c
            BY <3>1, <3>2
        <3>. QED BY <3>3 DEF IInv, QueuesHoldUnstarted
    <2>. QED BY <2>1, <2>2 DEF Dispatched, Unstarted
<1>. QED BY InvariantHolds, <1>1, PTL

\* An answer that reports an execution is never overwritten, neither by the
\* deadline nor by the shutdown: only unstarted entries are completed by them.
THEOREM ReportsStay == Spec => ReportsAreFinal
<1>. DEFINE Final == \A k \in Cells : shared[k].response \in ExecutionOutcomes =>
                        shared'[k].response = shared[k].response
<1>1. ASSUME IInv, [Next]_vars PROVE [Final]_vars
    <2>a. /\ \A o \in Refusals : o \notin ExecutionOutcomes
          /\ None \notin ExecutionOutcomes
        BY AdminActionsAssumption DEF Refusals, ExecutionOutcomes, LineOutcomes,
           Replies, Answers, Untracked
    <2>b. ASSUME NEW k \in Calls, NEW a \in Answers, Complete(k, a),
                 shared[k].response \notin ExecutionOutcomes
          PROVE  Final
        <3>1. \A j \in Cells \ {k} : shared'[j] = shared[j]
            BY <1>1, <2>b, CompleteEffect DEF IInv, Cells
        <3>. QED BY <2>b, <3>1 DEF Cells
    <2>c. ASSUME NEW c \in Calls, pc[c] \in {"gates", "accept", "enqueue"}
          PROVE  shared[c].response \notin ExecutionOutcomes
        BY <1>1, <2>a, <2>c DEF IInv, UntouchedBeforeDispatch, FreshResult
    <2>1. ASSUME NEW c \in Calls, Handle(c) PROVE Final
        <3>1. CASE \E a \in Refusals : Refuse(c, a) /\ pc[c] \in {"gates", "enqueue"}
            BY <3>1, <2>b, <2>c DEF Refuse, Answers
        <3>2. CASE RefuseUnaudited(c)
            BY <3>2, <2>b, <2>c DEF RefuseUnaudited, Answers, Refusals
        <3>3. CASE TimeOut(c)
            <4>1. \A j \in Cells \ {c} : shared'[j] = shared[j]
                BY <3>3, <1>1 DEF TimeOut, IInv, TypeOK
            <4>2. shared[c].response \notin ExecutionOutcomes
                BY <3>3, <2>a DEF TimeOut
            <4>. QED BY <4>1, <4>2
        <3>4. CASE UNCHANGED shared
            BY <3>4
        <3>. QED BY <2>1, <3>1, <3>2, <3>3, <3>4 DEF Handle, RejectUnauthenticated,
           RejectMalformed, Parse, RejectConflict, JoinOriginal, Admit, RefuseDisabled,
           RefuseUnsupported, PassGates, Accept, Enqueue, RefuseStopping, Answered,
           ReplayAnswer, AuditReply, Refusals
    <2>2. CASE Claim
        <3>1. current \in Calls /\ shared \in [Cells -> SharedResults]
            BY <1>1, <2>2 DEF Claim, IInv, TypeOK, WellFormed
        <3>. QED BY <2>2, <3>1 DEF Claim, SharedResults, Cells
    <2>3. CASE Publish
        <3>1. /\ current \in Calls /\ execution \in Answers
              /\ shared[current].response = None
            BY <1>1, <2>3 DEF Publish, IInv, WellFormed, InHand, Answers
        <3>. QED BY <2>3, <3>1, <2>a, <2>b DEF Publish
    <2>4. CASE AnswerAbandoned
        <3>1. /\ Head(abandoned) \in Calls
              /\ Unstarted(Head(abandoned))
            BY <1>1, <2>4, TailFacts DEF AnswerAbandoned, IInv, TypeOK,
               QueuesHoldUnstarted
        <3>2. shared[Head(abandoned)].response \notin ExecutionOutcomes
            BY <1>1, <3>1 DEF IInv, CellsTruthful, CellTruthful, Unstarted
        <3>. QED BY <2>4, <3>1, <3>2, <2>b DEF AnswerAbandoned, Answers, Refusals
    <2>5. CASE UNCHANGED shared
        BY <2>5
    <2>. QED BY <1>1, <2>1, <2>2, <2>3, <2>4, <2>5 DEF Next, GameThread, BeginTick,
       EndTick, Pop, Skip, Execute, StopAccepting, vars
<1>. QED BY <1>1, InvariantHolds, PTL DEF Spec, ReportsAreFinal

-----------------------------------------------------------------------------
(* The ledger: what idempotency_, the order of its identifiers and the     *)
(* journal promise about repeated requests. First, what a step can do.     *)

\* The requests that were accepted and that the game thread may still run.
InPlay(c) ==
    \/ pc[c] \in {"enqueue", "waiting"}
    \/ c \in Elements(pending) \cup Elements(abandoned) \cup {current}

\* A step of handle() moves the call that takes it and no other.
LEMMA OneCallMoves ==
    ASSUME IInv, NEW c \in Calls, Handle(c)
    PROVE  /\ \E l \in Labels : Goto(c, l)
           /\ \A d \in Calls \ {c} : pc'[d] = pc[d]
<1>1. \E l \in Labels : Goto(c, l)
    BY DEF Handle, RejectUnauthenticated, RejectMalformed, Parse, RejectConflict,
       JoinOriginal, Admit, RefuseDisabled, RefuseUnsupported, PassGates, Accept, Refuse,
       RefuseUnaudited, Enqueue, RefuseStopping, Answered, TimeOut, ReplayAnswer,
       AuditReply, Labels
<1>. QED BY <1>1 DEF Goto, IInv, TypeOK

\* A request comes into play when it is accepted, and in no other way.
LEMMA InPlayFromAccept ==
    ASSUME IInv, [Next]_vars, NEW c \in Calls, InPlay(c)'
    PROVE  InPlay(c) \/ Accept(c)
<1>. USE DEF InPlay
<1>1. ASSUME NEW d \in Calls, Handle(d) PROVE InPlay(c) \/ Accept(c)
    <2>1. CASE Enqueue(d)
        <3>1. /\ \A e \in Elements(pending') : e \in Elements(pending) \/ e = d
              /\ abandoned' = abandoned /\ current' = current
            BY <2>1, AppendFacts DEF Enqueue, gameVars, stopVars, Elements, IInv, TypeOK
        <3>2. pc[d] = "enqueue" /\ \A e \in Calls \ {d} : pc'[e] = pc[e]
            BY <2>1 DEF Enqueue, Goto, IInv, TypeOK
        <3>. QED BY <3>1, <3>2
    <2>2. CASE ~Enqueue(d) /\ ~Accept(d)
        <3>1. UNCHANGED <<pending, abandoned, current>>
            BY <1>1, <2>2 DEF Handle, RejectUnauthenticated, RejectMalformed, Parse,
               RejectConflict, JoinOriginal, Admit, RefuseDisabled, RefuseUnsupported,
               PassGates, Refuse, RefuseUnaudited, RefuseStopping, Answered, TimeOut,
               ReplayAnswer, AuditReply, gameVars, stopVars
        <3>2. \E l \in Labels \ {"enqueue", "waiting"} : Goto(d, l)
            BY <1>1, <2>2 DEF Handle, RejectUnauthenticated, RejectMalformed, Parse,
               RejectConflict, JoinOriginal, Admit, RefuseDisabled, RefuseUnsupported,
               PassGates, Refuse, RefuseUnaudited, RefuseStopping, Answered, TimeOut,
               ReplayAnswer, AuditReply, Labels
        <3>3. pc'[c] \in {"enqueue", "waiting"} => pc'[c] = pc[c]
            BY <3>2 DEF Goto, IInv, TypeOK
        <3>. QED BY <3>1, <3>3
    <2>3. CASE Accept(d)
        BY <2>3 DEF Accept, Goto, gameVars, stopVars, IInv, TypeOK
    <2>. QED BY <2>1, <2>2, <2>3
<1>2. CASE Pop
    <2>1. /\ current' \in Elements(pending)
          /\ \A e \in Elements(pending') : e \in Elements(pending)
        BY <1>2, TailFacts DEF Pop, Elements, IInv, TypeOK
    <2>. QED BY <1>2, <2>1 DEF Pop, callVars, stopVars
<1>3. CASE StopAccepting
    BY <1>3 DEF StopAccepting, callVars, gameVars, Elements
<1>4. CASE AnswerAbandoned
    <2>1. \A e \in Elements(abandoned') : e \in Elements(abandoned)
        BY <1>4, TailFacts DEF AnswerAbandoned, Elements, IInv, TypeOK
    <2>. QED BY <1>4, <2>1 DEF AnswerAbandoned, callVars, gameVars
<1>5. CASE Skip \/ Publish
    BY <1>5, AdminActionsAssumption DEF Skip, Publish, NextEntry, callVars, stopVars
<1>6. CASE UNCHANGED <<pc, pending, abandoned, current>>
    BY <1>6
<1>. QED BY <1>1, <1>2, <1>3, <1>4, <1>5, <1>6 DEF Next, GameThread, BeginTick, EndTick,
   Claim, Execute, callVars, gameVars, stopVars, vars

\* Only a request in play is run, and only once.
LEMMA RunInPlay ==
    ASSUME IInv, [Next]_vars, NEW c \in Calls, runs'[c] # runs[c]
    PROVE  /\ Execute /\ c = current /\ gpc = "execute" /\ runs[c] = <<>>
           /\ Len(runs'[c]) = 1 /\ InPlay(c)
<1>1. Execute
    BY DEF Next, Handle, RejectUnauthenticated, RejectMalformed, Parse, RejectConflict,
       JoinOriginal, Admit, RefuseDisabled, RefuseUnsupported, PassGates, Accept, Refuse,
       RefuseUnaudited, Enqueue, RefuseStopping, Answered, TimeOut, ReplayAnswer,
       AuditReply, BeginTick, GameThread, EndTick, Pop, Skip, Claim, Publish,
       StopAccepting, AnswerAbandoned, vars
<1>2. /\ runs \in [Calls -> Seq(ExecutionOutcomes)] /\ runs[current] = <<>>
      /\ gpc = "execute"
    BY <1>1 DEF Execute, IInv, TypeOK, InHand
<1>3. PICK o \in ExecutionOutcomes : runs' = [runs EXCEPT ![current] = Append(@, o)]
    BY <1>1 DEF Execute
<1>4. c = current /\ runs'[c] = Append(<<>>, o)
    BY <1>2, <1>3
<1>. QED BY <1>1, <1>2, <1>4 DEF InPlay

\* A parsed request is never replaced.
LEMMA RequestStays ==
    ASSUME IInv, [Next]_vars, NEW c \in Calls, pc[c] # "idle"
    PROVE  request'[c] = request[c]
<1>1. ASSUME NEW d \in Calls, Parse(d) PROVE request'[c] = request[c]
    BY <1>1 DEF Parse, IInv, TypeOK
<1>2. CASE request' = request
    BY <1>2
<1>. QED BY <1>1, <1>2 DEF Next, Handle, RejectUnauthenticated, RejectMalformed,
   RejectConflict, JoinOriginal, Admit, RefuseDisabled, RefuseUnsupported, PassGates,
   Accept, Refuse, RefuseUnaudited, Enqueue, RefuseStopping, Answered, TimeOut,
   ReplayAnswer, AuditReply, BeginTick, GameThread, EndTick, Pop, Skip, Claim, Execute,
   Publish, StopAccepting, AnswerAbandoned, callVars, vars

\* The ledger changes when a new identifier is admitted, and in no other way.
LEMMA LedgerFromAdmit ==
    ASSUME [Next]_vars, ledgerVars' # ledgerVars
    PROVE  \E c \in Calls : Admit(c)
BY DEF Next, Handle, RejectUnauthenticated, RejectMalformed, Parse, RejectConflict,
   JoinOriginal, RefuseDisabled, RefuseUnsupported, PassGates, Accept, Refuse,
   RefuseUnaudited, Enqueue, RefuseStopping, Answered, TimeOut, ReplayAnswer, AuditReply,
   BeginTick, GameThread, EndTick, Pop, Skip, Claim, Execute, Publish, StopAccepting,
   AnswerAbandoned, vars

-----------------------------------------------------------------------------
(* The ledger and its order *)

\* What an admission does to both.
LEMMA AdmitEffect ==
    ASSUME IInv, LedgerMatchesOrder, NEW c \in Calls, Admit(c)
    PROVE  LET id == request[c].id IN
           /\ id \in RequestIds \ DOMAIN ledger
           /\ id \in DOMAIN ledger' /\ ledger'[id] = [payload |-> request[c].payload, cell |-> c]
           /\ \A i \in DOMAIN ledger' \ {id} : i \in DOMAIN ledger /\ ledger'[i] = ledger[i]
           /\ Len(order) < MaxIdempotencyRecords => DOMAIN ledger \subseteq DOMAIN ledger'
           /\ LedgerMatchesOrder'
<1>. DEFINE id == request[c].id
            longer == Append(order, id)
            evict == Len(longer) > MaxIdempotencyRecords
            kept == IF evict THEN (DOMAIN ledger \cup {id}) \ {Head(longer)}
                    ELSE DOMAIN ledger \cup {id}
<1>1. /\ id \in RequestIds /\ id \notin DOMAIN ledger /\ order \in Seq(RequestIds)
      /\ MaxIdempotencyRecords \in Nat \ {0}
    BY AdminActionsAssumption DEF Admit, Known, IInv, WellFormed, Requests, TypeOK
<1>2. /\ longer \in Seq(RequestIds) /\ Len(longer) = Len(order) + 1
      /\ longer[Len(order) + 1] = id
      /\ \A i \in DOMAIN order : i \in DOMAIN longer /\ longer[i] = order[i]
      /\ \A i \in DOMAIN longer : i \in DOMAIN order \/ i = Len(order) + 1
      /\ Len(order) + 1 \in DOMAIN longer
    BY <1>1
<1>3. /\ \A i, j \in DOMAIN order : order[i] = order[j] => i = j
      /\ Len(order) <= MaxIdempotencyRecords /\ Elements(order) = DOMAIN ledger
    BY DEF LedgerMatchesOrder
<1>4. Elements(longer) = DOMAIN ledger \cup {id}
    BY <1>2, <1>3 DEF Elements
<1>5. \A i, j \in DOMAIN longer : longer[i] = longer[j] => i = j
    <2>1. \A i \in DOMAIN order : order[i] # id
        BY <1>1, <1>3 DEF Elements
    <2>. QED BY <1>2, <1>3, <2>1
<1>6. /\ ledger' = [i \in kept |-> IF i = id THEN [payload |-> request[c].payload, cell |-> c]
                                   ELSE ledger[i]]
      /\ order' = IF evict THEN Tail(longer) ELSE longer
    BY DEF Admit
<1>. HIDE DEF longer, id
<1>7. CASE ~evict
    BY <1>1, <1>2, <1>3, <1>4, <1>5, <1>6, <1>7 DEF LedgerMatchesOrder, id
<1>8. CASE evict
    <2>1. /\ Len(order) = MaxIdempotencyRecords /\ longer # <<>>
          /\ Head(longer) = longer[1] /\ 1 \in DOMAIN longer /\ Len(order) + 1 # 1
          /\ Len(order) \in Nat
        BY <1>1, <1>2, <1>3, <1>8
    <2>2. Head(longer) # id
        BY <1>2, <1>5, <2>1
    <2>3. /\ \A i \in DOMAIN Tail(longer) :
                i \in Int /\ i >= 1 /\ i + 1 \in DOMAIN longer /\ Tail(longer)[i] = longer[i + 1]
          /\ Len(Tail(longer)) = Len(longer) - 1
          /\ \A i \in DOMAIN longer : i # 1 => i - 1 \in DOMAIN Tail(longer) /\ i = (i - 1) + 1
        BY <1>2, <2>1
    <2>4. Elements(Tail(longer)) = Elements(longer) \ {Head(longer)}
        <3>1. ASSUME NEW x \in Elements(Tail(longer)) PROVE x \in Elements(longer) /\ x # Head(longer)
            BY <1>5, <2>1, <2>3 DEF Elements
        <3>2. ASSUME NEW x \in Elements(longer), x # Head(longer) PROVE x \in Elements(Tail(longer))
            <4>1. PICK i \in DOMAIN longer : x = longer[i]
                BY DEF Elements
            <4>2. i - 1 \in DOMAIN Tail(longer) /\ i = (i - 1) + 1
                BY <3>2, <4>1, <2>1, <2>3
            <4>3. Tail(longer)[i - 1] = x
                BY <4>1, <4>2, <2>3
            <4>. QED BY <4>2, <4>3 DEF Elements
        <3>. QED BY <3>1, <3>2
    <2>5. \A i, j \in DOMAIN Tail(longer) : Tail(longer)[i] = Tail(longer)[j] => i = j
        <3>. SUFFICES ASSUME NEW i \in DOMAIN Tail(longer), NEW j \in DOMAIN Tail(longer),
                             Tail(longer)[i] = Tail(longer)[j]
                      PROVE  i = j
            OBVIOUS
        <3>1. i + 1 = j + 1
            BY <1>5, <2>3
        <3>. QED BY <3>1, <2>3
    <2>6. /\ order' = Tail(longer) /\ kept = Elements(Tail(longer)) /\ DOMAIN ledger' = kept
          /\ Len(order') <= MaxIdempotencyRecords
        BY <1>2, <1>4, <1>6, <1>8, <2>1, <2>3, <2>4
    <2>7. LedgerMatchesOrder'
        BY <2>5, <2>6 DEF LedgerMatchesOrder
    <2>. QED BY <1>1, <1>6, <1>8, <2>1, <2>2, <2>7 DEF id
<1>. QED BY <1>7, <1>8

\* Every other step leaves both alone.
LEMMA NextKeepsLedger ==
    ASSUME IInv, LedgerMatchesOrder, [Next]_vars
    PROVE  LedgerMatchesOrder'
<1>1. CASE ledgerVars' = ledgerVars
    BY <1>1 DEF ledgerVars, LedgerMatchesOrder
<1>2. CASE ledgerVars' # ledgerVars
    BY <1>2, LedgerFromAdmit, AdmitEffect
<1>. QED BY <1>1, <1>2

\* The ledger and the order of its identifiers never disagree: each identifier
\* stands in it once, and every eviction finds the entry it removes.
THEOREM LedgerHolds == Spec => []LedgerMatchesOrder
<1>1. Init => LedgerMatchesOrder
    BY AdminActionsAssumption DEF Init, LedgerMatchesOrder, Elements
<1>2. IInv /\ LedgerMatchesOrder /\ [Next]_vars => LedgerMatchesOrder'
    BY NextKeepsLedger
<1>. QED BY <1>1, <1>2, InvariantHolds, PTL DEF Spec

-----------------------------------------------------------------------------
(* Repeats *)

\* A cell whose answer is there or is still to come from its own call.
LiveCell(k) ==
    \/ shared[k].response # None
    \/ k \in Calls /\ pc[k] \in {"gates", "accept", "enqueue", "waiting"}

\* Whoever may wait for a cell waits for a live one.
CellsLive ==
    /\ \A c \in Calls : pc[c] = "replaying" => LiveCell(cell[c])
    /\ \A i \in DOMAIN ledger : LiveCell(ledger[i].cell)

\* A call leaves the gates and the queue only with its own cell answered.
LEMMA LiveStays ==
    ASSUME IInv, [Next]_vars, NEW k \in Cells, LiveCell(k)
    PROVE  LiveCell(k)'
<1>. DEFINE Moving == {"gates", "accept", "enqueue", "waiting"}
<1>1. CASE shared[k].response # None
    BY <1>1, AnswersStay DEF LiveCell
<1>2. CASE k \in Calls /\ pc[k] \in Moving
    <2>1. ASSUME NEW a \in Answers, Complete(k, a) PROVE shared'[k].response # None
        <3>1. shared'[k] = [shared[k] EXCEPT !.response = a] /\ shared[k] \in SharedResults
            BY <2>1, CompleteEffect DEF IInv, TypeOK
        <3>2. a # None
            BY AdminActionsAssumption DEF LineOutcomes, Replies
        <3>. QED BY <3>1, <3>2 DEF SharedResults
    <2>2. CASE Handle(k)
        <3>1. CASE RefuseDisabled(k) \/ RefuseUnsupported(k) \/ RefuseStopping(k)
                   \/ RefuseUnaudited(k)
            BY <2>1, <3>1 DEF RefuseDisabled, RefuseUnsupported, RefuseStopping, Refuse,
               RefuseUnaudited, Answers, Refusals, LiveCell
        <3>2. CASE TimeOut(k)
            BY <3>2, AdminActionsAssumption DEF TimeOut, IInv, TypeOK, SharedResults, LiveCell,
               LineOutcomes, Replies, Answers, Refusals
        <3>3. CASE PassGates(k) \/ Accept(k) \/ Enqueue(k)
            BY <1>2, <3>3 DEF PassGates, Accept, Enqueue, Goto, LiveCell, IInv, TypeOK
        <3>4. CASE Answered(k)
            BY <3>4 DEF Answered, LiveCell
        <3>. QED BY <1>2, <2>2, <3>1, <3>2, <3>3, <3>4 DEF Handle, RejectUnauthenticated,
           RejectMalformed, Parse, RejectConflict, JoinOriginal, Admit, ReplayAnswer, AuditReply
    <2>3. ASSUME NEW d \in Calls \ {k}, Handle(d) PROVE LiveCell(k)'
        <3>1. pc'[k] = pc[k]
            BY <1>2, <2>3, OneCallMoves
        <3>. QED BY <1>2, <3>1 DEF LiveCell
    <2>4. CASE pc' = pc
        BY <1>2, <2>4 DEF LiveCell
    <2>. QED BY <1>2, <2>2, <2>3, <2>4 DEF Next, BeginTick, GameThread, EndTick, Pop, Skip,
       Claim, Execute, Publish, StopAccepting, AnswerAbandoned, callVars, vars, LiveCell
<1>. QED BY <1>1, <1>2 DEF LiveCell

\* A repeat is given the cell of a ledger entry and keeps it.
LEMMA JoinsFromLedger ==
    ASSUME IInv, [Next]_vars, NEW c \in Calls, pc'[c] = "replaying"
    PROVE  \/ pc[c] = "replaying" /\ cell'[c] = cell[c]
           \/ JoinOriginal(c)
<1>1. ASSUME NEW d \in Calls, Handle(d)
      PROVE  (pc[c] = "replaying" /\ cell'[c] = cell[c]) \/ JoinOriginal(c)
    BY <1>1 DEF Handle, RejectUnauthenticated, RejectMalformed, Parse, RejectConflict,
       JoinOriginal, Admit, RefuseDisabled, RefuseUnsupported, PassGates, Accept, Refuse,
       RefuseUnaudited, Enqueue, RefuseStopping, Answered, TimeOut, ReplayAnswer,
       AuditReply, Goto, IInv, TypeOK
<1>2. CASE UNCHANGED <<pc, cell>>
    BY <1>2
<1>. QED BY <1>1, <1>2 DEF Next, BeginTick, GameThread, EndTick, Pop, Skip, Claim, Execute,
   Publish, StopAccepting, AnswerAbandoned, callVars, vars

LEMMA NextKeepsCellsLive ==
    ASSUME IInv, LedgerMatchesOrder, CellsLive, [Next]_vars
    PROVE  CellsLive'
<1>1. ASSUME NEW i \in DOMAIN ledger PROVE \A k : k = ledger[i].cell => LiveCell(k)'
    <2>1. ledger[i].cell \in Cells
        BY DEF IInv, TypeOK, Ledgers
    <2>. QED BY <2>1, LiveStays DEF CellsLive
<1>2. ASSUME NEW c \in Calls, pc'[c] = "replaying", NEW k, k = cell'[c] PROVE LiveCell(k)'
    <2>1. CASE pc[c] = "replaying" /\ cell'[c] = cell[c]
        <3>1. cell[c] \in Cells
            BY <2>1 DEF IInv, TypeOK, CellsOwned, OwnsCell
        <3>. QED BY <1>2, <2>1, <3>1, LiveStays DEF CellsLive
    <2>2. CASE JoinOriginal(c)
        <3>1. request[c].id \in DOMAIN ledger /\ k = ledger[request[c].id].cell
            BY <1>2, <2>2 DEF JoinOriginal, Known, IInv, TypeOK
        <3>. QED BY <1>1, <3>1
    <2>. QED BY <1>2, <2>1, <2>2, JoinsFromLedger
<1>3. ASSUME NEW i \in DOMAIN ledger', NEW k, k = ledger'[i].cell PROVE LiveCell(k)'
    <2>1. CASE ledgerVars' = ledgerVars
        BY <1>1, <1>3, <2>1 DEF ledgerVars
    <2>2. ASSUME NEW c \in Calls, Admit(c) PROVE LiveCell(k)'
        <3>1. CASE i = request[c].id
            <4>1. ledger'[i] = [payload |-> request[c].payload, cell |-> c]
                BY <2>2, <3>1, AdmitEffect
            <4>2. pc'[c] = "gates"
                BY <2>2 DEF Admit, Goto, IInv, TypeOK
            <4>. QED BY <1>3, <4>1, <4>2 DEF LiveCell
        <3>2. CASE i # request[c].id
            <4>1. i \in DOMAIN ledger /\ ledger'[i] = ledger[i]
                BY <1>3, <2>2, <3>2, AdmitEffect
            <4>. QED BY <1>1, <1>3, <4>1
        <3>. QED BY <3>1, <3>2
    <2>. QED BY <2>1, <2>2, LedgerFromAdmit
<1>4. ASSUME NEW c \in Calls, pc'[c] = "replaying" PROVE LiveCell(cell[c])'
    BY <1>2, <1>4 DEF LiveCell
<1>5. ASSUME NEW i \in DOMAIN ledger' PROVE LiveCell(ledger[i].cell)'
    BY <1>3, <1>5 DEF LiveCell
<1>. QED BY <1>4, <1>5 DEF CellsLive

\* No repeat waits for a result that nobody is going to produce, even when the
\* entry it found was evicted or its original timed out.
THEOREM RepeatsHold == Spec => []RepeatsHaveALiveOriginal
<1>1. Init => CellsLive
    BY DEF Init, CellsLive
<1>2. IInv /\ LedgerMatchesOrder /\ CellsLive /\ [Next]_vars => CellsLive'
    BY NextKeepsCellsLive
<1>3. CellsLive => RepeatsHaveALiveOriginal
    BY DEF CellsLive, LiveCell, RepeatsHaveALiveOriginal
<1>. QED BY <1>1, <1>2, <1>3, InvariantHolds, LedgerHolds, PTL DEF Spec

-----------------------------------------------------------------------------
(* Entries and the calls that hold them *)

\* The call holds the cell of the ledger entry of its identifier.
HoldsEntry(c) ==
    request[c].id \in DOMAIN ledger /\ ledger[request[c].id].cell = cell[c]

\* An entry is evicted or stays as it is.
LEMMA EntriesStay ==
    ASSUME IInv, LedgerMatchesOrder, [Next]_vars, NEW i \in DOMAIN ledger, i \in DOMAIN ledger'
    PROVE  ledger'[i] = ledger[i]
<1>1. CASE ledgerVars' = ledgerVars
    BY <1>1 DEF ledgerVars
<1>2. ASSUME NEW c \in Calls, Admit(c) PROVE ledger'[i] = ledger[i]
    BY <1>2, AdmitEffect
<1>. QED BY <1>1, <1>2, LedgerFromAdmit

\* A call is given its cell by the ledger, once.
LEMMA CellsFromLedger ==
    ASSUME IInv, LedgerMatchesOrder, [Next]_vars, NEW c \in Calls
    PROVE  \/ cell'[c] = cell[c]
           \/ (JoinOriginal(c) \/ Admit(c)) /\ HoldsEntry(c)'
<1>1. ASSUME cell'[c] # cell[c] PROVE JoinOriginal(c) \/ Admit(c)
    <2>1. ASSUME NEW d \in Calls, JoinOriginal(d) \/ Admit(d) PROVE d = c
        BY <1>1, <2>1 DEF JoinOriginal, Admit, IInv, TypeOK
    <2>. QED BY <1>1, <2>1 DEF Next, Handle, RejectUnauthenticated, RejectMalformed, Parse,
       RejectConflict, RefuseDisabled, RefuseUnsupported, PassGates, Accept, Refuse,
       RefuseUnaudited, Enqueue, RefuseStopping, Answered, TimeOut, ReplayAnswer, AuditReply,
       BeginTick, GameThread, EndTick, Pop, Skip, Claim, Execute, Publish, StopAccepting,
       AnswerAbandoned, callVars, vars
<1>2. ASSUME JoinOriginal(c) PROVE HoldsEntry(c)'
    BY <1>2 DEF JoinOriginal, Known, ledgerVars, HoldsEntry, IInv, TypeOK
<1>3. ASSUME Admit(c) PROVE HoldsEntry(c)'
    <2>1. /\ request[c].id \in DOMAIN ledger'
          /\ ledger'[request[c].id] = [payload |-> request[c].payload, cell |-> c]
        BY <1>3, AdmitEffect
    <2>2. request' = request /\ cell'[c] = c
        BY <1>3 DEF Admit, IInv, TypeOK
    <2>. QED BY <2>1, <2>2 DEF HoldsEntry
<1>. QED BY <1>1, <1>2, <1>3

\* Its entry stays with it until it is evicted.
LEMMA EntryHeld ==
    ASSUME IInv, LedgerMatchesOrder, [Next]_vars, NEW c \in Calls, cell[c] # None,
           HoldsEntry(c), request[c].id \in DOMAIN ledger'
    PROVE  HoldsEntry(c)'
<1>1. pc[c] \notin {"idle", "lookup"}
    BY DEF IInv, CellsOwned, OwnsCell
<1>2. request'[c] = request[c]
    BY <1>1, RequestStays
<1>3. cell'[c] = cell[c] \/ HoldsEntry(c)'
    BY CellsFromLedger
<1>4. ledger'[request[c].id] = ledger[request[c].id]
    BY EntriesStay DEF HoldsEntry
<1>. QED BY <1>2, <1>3, <1>4 DEF HoldsEntry

-----------------------------------------------------------------------------
(* A ledger with room for every identifier in use *)

LedgerHasRoom ==
    IsFiniteSet(RequestIds) /\ Cardinality(RequestIds) <= MaxIdempotencyRecords

\* As long as an identifier is new there is room for it.
LEMMA RoomForOneMore ==
    ASSUME LedgerHasRoom, IInv, LedgerMatchesOrder, NEW id \in RequestIds \ DOMAIN ledger
    PROVE  Len(order) < MaxIdempotencyRecords
<1>. DEFINE S == 1..Len(order)
            T == RequestIds \ {id}
<1>1. order \in Seq(RequestIds) /\ Len(order) \in Nat
    BY DEF IInv, TypeOK
<1>2. order \in Injection(S, T)
    BY <1>1 DEF LedgerMatchesOrder, Elements, Injection, IsInjective
<1>3. /\ IsFiniteSet(T) /\ Cardinality(T) = Cardinality(RequestIds) - 1
      /\ Cardinality(RequestIds) \in Nat
    BY FS_RemoveElement, FS_CardinalityType DEF LedgerHasRoom
<1>4. Cardinality(S) <= Cardinality(T)
    BY <1>2, <1>3, FS_Injection
<1>5. Cardinality(S) = Len(order)
    <2>1. \A n \in Nat : Cardinality(1..n) = n
        BY FS_Interval
    <2>. QED BY <1>1, <2>1
<1>. QED BY <1>1, <1>3, <1>4, <1>5, AdminActionsAssumption DEF LedgerHasRoom

\* So nothing is ever evicted.
LEMMA NothingEvicted ==
    ASSUME LedgerHasRoom, IInv, LedgerMatchesOrder, [Next]_vars
    PROVE  DOMAIN ledger \subseteq DOMAIN ledger'
<1>1. ASSUME NEW c \in Calls, Admit(c) PROVE DOMAIN ledger \subseteq DOMAIN ledger'
    BY <1>1, AdmitEffect, RoomForOneMore
<1>. QED BY <1>1, LedgerFromAdmit DEF ledgerVars

\* Every call that has been through the ledger holds the entry of its
\* identifier for good.
EntriesHeld == \A c \in Calls : cell[c] # None => HoldsEntry(c)

LEMMA NextKeepsEntriesHeld ==
    ASSUME LedgerHasRoom, IInv, LedgerMatchesOrder, EntriesHeld, [Next]_vars
    PROVE  EntriesHeld'
<1>. SUFFICES ASSUME NEW c \in Calls, cell'[c] # None PROVE HoldsEntry(c)'
    BY DEF EntriesHeld
<1>1. CASE cell'[c] = cell[c]
    BY <1>1, NothingEvicted, EntryHeld DEF EntriesHeld, HoldsEntry
<1>. QED BY <1>1, CellsFromLedger

\* A request is run once.
RanOnce == \A c \in Calls : runs[c] # <<>> => Len(runs[c]) = 1

LEMMA NextKeepsRanOnce ==
    ASSUME IInv, RanOnce, [Next]_vars
    PROVE  RanOnce'
BY RunInPlay DEF RanOnce

\* Whatever is sent how often and by how many clients at the same time, one
\* identifier leads to at most one teleport.
THEOREM AtMostOnceHolds == LedgerHasRoom => (Spec => []AtMostOncePerRequest)
<1>. SUFFICES ASSUME LedgerHasRoom PROVE Spec => []AtMostOncePerRequest
    OBVIOUS
<1>1. Init => EntriesHeld /\ RanOnce
    BY DEF Init, EntriesHeld, RanOnce
<1>2. IInv /\ LedgerMatchesOrder /\ EntriesHeld /\ RanOnce /\ [Next]_vars
        => EntriesHeld' /\ RanOnce'
    BY NextKeepsEntriesHeld, NextKeepsRanOnce
<1>3. IInv /\ EntriesHeld /\ RanOnce => AtMostOncePerRequest
    <2>. SUFFICES ASSUME IInv, EntriesHeld, RanOnce, NEW c \in Calls, NEW d \in Calls,
                         runs[c] # <<>>, runs[d] # <<>>, request[c].id = request[d].id
                  PROVE  c = d /\ Len(runs[c]) = 1
        BY DEF AtMostOncePerRequest
    <2>1. cell[c] = c /\ cell[d] = d /\ None \notin Calls
        BY AdminActionsAssumption DEF IInv, UntouchedBeforeDispatch
    <2>. QED BY <2>1 DEF EntriesHeld, HoldsEntry, RanOnce
<1>. QED BY <1>1, <1>2, <1>3, InvariantHolds, LedgerHolds, PTL DEF Spec

-----------------------------------------------------------------------------
(* The promise *)

Refused == {c \in Calls : shared[c].response \in Refusals}

\* A call that has not started has asked for nothing.
IdleAsksNothing == \A c \in Calls : pc[c] = "idle" => request[c] = None

LEMMA NextKeepsIdle ==
    ASSUME IInv, IdleAsksNothing, [Next]_vars
    PROVE  IdleAsksNothing'
<1>1. ASSUME NEW c \in Calls, Handle(c) PROVE IdleAsksNothing'
    <2>1. pc'[c] # "idle"
        BY <1>1 DEF Handle, RejectUnauthenticated, RejectMalformed, Parse, RejectConflict,
           JoinOriginal, Admit, RefuseDisabled, RefuseUnsupported, PassGates, Accept, Refuse,
           RefuseUnaudited, Enqueue, RefuseStopping, Answered, TimeOut, ReplayAnswer,
           AuditReply, Goto, IInv, TypeOK
    <2>2. \A d \in Calls \ {c} : request'[d] = request[d]
        BY <1>1 DEF Handle, RejectUnauthenticated, RejectMalformed, Parse, RejectConflict,
           JoinOriginal, Admit, RefuseDisabled, RefuseUnsupported, PassGates, Accept, Refuse,
           RefuseUnaudited, Enqueue, RefuseStopping, Answered, TimeOut, ReplayAnswer,
           AuditReply, Goto, IInv, TypeOK
    <2>. QED BY <1>1, <2>1, <2>2, OneCallMoves DEF IdleAsksNothing
<1>2. CASE UNCHANGED callVars
    BY <1>2 DEF callVars, IdleAsksNothing
<1>. QED BY <1>1, <1>2 DEF Next, BeginTick, GameThread, EndTick, Pop, Skip, Claim, Execute,
   Publish, StopAccepting, AnswerAbandoned, vars

\* What is needed of a state to see a step of the promise in the next one.
PInv == IInv /\ OneLife /\ EntriesHeld /\ IdleAsksNothing

\* A call is told something when it is done, and keeps what it was told.
LEMMA ToldWhenDone ==
    ASSUME PInv, NEW c \in Calls, Handle(c)
    PROVE  /\ Told(c) = None
           /\ \A d \in Calls \ {c} : Told(d)' = Told(d)
           /\ pc'[c] # "done" => Told(c)' = Told(c)
<1>1. pc[c] # "done"
    BY DEF Handle, RejectUnauthenticated, RejectMalformed, Parse, RejectConflict, JoinOriginal,
       Admit, RefuseDisabled, RefuseUnsupported, PassGates, Accept, RefuseUnaudited, Enqueue,
       RefuseStopping, Answered, TimeOut, ReplayAnswer, AuditReply
<1>2. \A d \in Calls \ {c} : reply'[d] = reply[d] /\ cell'[d] = cell[d] /\ pc'[d] = pc[d]
    BY OneCallMoves DEF Handle, RejectUnauthenticated, RejectMalformed, Parse, RejectConflict,
       JoinOriginal, Admit, RefuseDisabled, RefuseUnsupported, PassGates, Accept, Refuse,
       RefuseUnaudited, Enqueue, RefuseStopping, Answered, TimeOut, ReplayAnswer, AuditReply,
       PInv, IInv, TypeOK
<1>. QED BY <1>1, <1>2 DEF Told

\* A step that gives no answer and runs nothing.
LEMMA PromiseStutters ==
    ASSUME request' = request, runs' = runs, Refused' = Refused,
           \A c \in Calls : Told(c)' = Told(c)
    PROVE  UNCHANGED Promise!vars
BY DEF Promise!vars, Refused

\* A step that refuses one request, whose call may be told at once.
LEMMA PromiseRefuses ==
    ASSUME NEW c \in Calls, request' = request, runs' = runs, runs[c] = <<>>,
           Refused' = Refused \cup {c},
           \A d \in Calls \ {c} : Told(d)' = Told(d),
           Told(c)' \in {Told(c), [of |-> c, says |-> "refused"]}
    PROVE  Promise!Refuse(c)
<1>. DEFINE told == [d \in Calls |-> Told(d)]
<1>1. \/ told' = told
      \/ told' = [told EXCEPT ![c] = [of |-> c, says |-> "refused"]]
    OBVIOUS
<1>. QED BY <1>1 DEF Promise!Refuse, Refused

\* complete() and the set of refused requests.
LEMMA CompletionRefuses ==
    ASSUME PInv, NEW c \in Calls, NEW a \in Refusals, Complete(c, a)
    PROVE  Refused' = Refused \cup {c}
<1>1. /\ shared'[c] = [shared[c] EXCEPT !.response = a] /\ shared[c] \in SharedResults
      /\ \A j \in Cells \ {c} : shared'[j] = shared[j]
    BY CompleteEffect DEF PInv, IInv, TypeOK, Cells, Answers
<1>2. shared'[c].response = a
    BY <1>1 DEF SharedResults
<1>. QED BY <1>1, <1>2 DEF Refused, Cells

\* Every step of a call is a step of the promise, or none.
LEMMA HandleKeepsPromise ==
    ASSUME PInv, NEW c \in Calls, Handle(c)
    PROVE  [Promise!Next]_Promise!vars
<1>0. /\ pc \in [Calls -> Labels] /\ reply \in [Calls -> Replies \cup {None}]
      /\ pc[c] \in {"gates", "accept", "enqueue"} => runs[c] = <<>>
      /\ pc[c] \in {"gates", "accept", "enqueue", "waiting"} => cell[c] = c
    BY DEF PInv, IInv, TypeOK, UntouchedBeforeDispatch, CellsOwned, OwnsCell
<1>1. CASE Parse(c)
    <2>1. PICK r \in Requests : request' = [request EXCEPT ![c] = r]
        BY <1>1 DEF Parse
    <2>2. request[c] = None
        BY <1>1 DEF Parse, PInv, IdleAsksNothing
    <2>3. pc'[c] # "done" /\ runs' = runs /\ Refused' = Refused
        BY <1>0, <1>1 DEF Parse, Goto, Refused
    <2>4. \A d \in Calls : Told(d)' = Told(d)
        BY <2>3, ToldWhenDone
    <2>5. Promise!Ask(c)
        BY <2>1, <2>2, <2>3, <2>4 DEF Promise!Ask, Refused
    <2>. QED BY <2>5 DEF Promise!Next
<1>2. CASE \/ RejectUnauthenticated(c) \/ RejectMalformed(c) \/ RejectConflict(c)
    <2>1. reply'[c] \notin Answers
        BY <1>0, <1>2, AdminActionsAssumption DEF RejectUnauthenticated, RejectMalformed,
           RejectConflict, Answers, Refusals, ExecutionOutcomes, Untracked
    <2>2. Told(c)' = None
        BY <2>1 DEF Told
    <2>3. \A d \in Calls : Told(d)' = Told(d)
        BY <2>2, ToldWhenDone
    <2>. QED BY <1>2, <2>3, PromiseStutters DEF RejectUnauthenticated, RejectMalformed,
       RejectConflict, Refused
<1>3. CASE \/ JoinOriginal(c) \/ Admit(c) \/ PassGates(c) \/ Accept(c) \/ Enqueue(c)
           \/ Answered(c) \/ ReplayAnswer(c)
    <2>1. pc'[c] # "done"
        BY <1>0, <1>3 DEF JoinOriginal, Admit, PassGates, Accept, Enqueue, Answered,
           ReplayAnswer, Goto
    <2>2. \A d \in Calls : Told(d)' = Told(d)
        BY <2>1, ToldWhenDone
    <2>. QED BY <1>3, <2>2, PromiseStutters DEF JoinOriginal, Admit, PassGates, Accept,
       Enqueue, Answered, ReplayAnswer, Refused
<1>4. CASE \/ RefuseDisabled(c) \/ RefuseUnsupported(c) \/ RefuseStopping(c)
    <2>1. PICK a \in Refusals : Refuse(c, a)
        BY <1>4 DEF RefuseDisabled, RefuseUnsupported, RefuseStopping, Refusals
    <2>2. runs[c] = <<>>
        BY <1>0, <1>4 DEF RefuseDisabled, RefuseUnsupported, RefuseStopping
    <2>3. pc'[c] # "done" /\ request' = request /\ runs' = runs
        BY <1>0, <2>1 DEF Refuse, Goto
    <2>4. \A d \in Calls : Told(d)' = Told(d)
        BY <2>3, ToldWhenDone
    <2>5. Refused' = Refused \cup {c}
        BY <2>1, CompletionRefuses DEF Refuse
    <2>6. Promise!Refuse(c)
        BY <2>2, <2>3, <2>4, <2>5, PromiseRefuses
    <2>. QED BY <2>6 DEF Promise!Next
<1>5. CASE RefuseUnaudited(c)
    <2>1. /\ runs[c] = <<>> /\ request' = request /\ runs' = runs
          /\ Refused' = Refused \cup {c}
        BY <1>0, <1>5, CompletionRefuses DEF RefuseUnaudited, Refusals
    <2>2. /\ reply'[c] = "audit_unavailable" /\ pc'[c] = "done" /\ cell'[c] = c
        BY <1>0, <1>5 DEF RefuseUnaudited, Goto
    <2>3. Told(c)' = [of |-> c, says |-> "refused"]
        BY <2>2 DEF Told, Answers, Refusals
    <2>4. Promise!Refuse(c)
        BY <2>1, <2>3, ToldWhenDone, PromiseRefuses
    <2>. QED BY <2>4 DEF Promise!Next
<1>6. CASE TimeOut(c)
    <2>1. request' = request /\ runs' = runs /\ pc'[c] # "done"
        BY <1>0, <1>6 DEF TimeOut, Goto
    <2>2. runs[c] = <<>>
        <3>1. CASE c = current
            <4>1. gpc = "claim"
                BY <1>6, <3>1, AdminActionsAssumption DEF TimeOut, PInv, IInv, TypeOK, WellFormed,
                   InHand
            <4>. QED BY <3>1, <4>1 DEF PInv, IInv, InHand
        <3>2. CASE c # current
            BY <1>6, <3>2 DEF TimeOut, PInv, IInv, CellsTruthful, CellTruthful
        <3>. QED BY <3>1, <3>2
    <2>3. Refused' = Refused \cup {c}
        <3>1. /\ shared'[c].response = "game_thread_unavailable"
              /\ \A j \in Cells \ {c} : shared'[j] = shared[j]
            BY <1>6 DEF TimeOut, PInv, IInv, TypeOK, SharedResults, Cells
        <3>. QED BY <3>1 DEF Refused, Cells, Refusals
    <2>4. \A d \in Calls : Told(d)' = Told(d)
        BY <2>1, ToldWhenDone
    <2>5. Promise!Refuse(c)
        BY <2>1, <2>2, <2>3, <2>4, PromiseRefuses
    <2>. QED BY <2>5 DEF Promise!Next
<1>7. CASE AuditReply(c)
    <2>1. /\ request' = request /\ runs' = runs /\ Refused' = Refused
          /\ cell' = cell /\ reply' = reply /\ pc'[c] = "done"
        BY <1>0, <1>7 DEF AuditReply, Goto, Refused
    <2>2. reply[c] \in Answers /\ cell[c] \in Calls /\ request[cell[c]] = request[c]
        BY <1>7 DEF AuditReply, PInv, IInv, WellFormed, CellsOwned, OwnsCell, OneLife
    <2>. DEFINE says == IF reply[c] \in Refusals THEN "refused" ELSE reply[c]
    <2>3. Told(c)' = [of |-> cell[c], says |-> says]
        BY <2>1, <2>2 DEF Told
    <2>4. ~Over(cell[c])
        <3>1. cell[cell[c]] = cell[c] /\ pc[cell[c]] # "lost"
            BY <2>2 DEF PInv, IInv, CellsOwned, OwnsCell, OneLife
        <3>2. cell[c] # None
            BY <2>2, AdminActionsAssumption
        <3>. QED BY <2>2, <3>1, <3>2 DEF PInv, OneLife, Over
    <2>5. ReplyFollowsCell(c)
        BY DEF PInv, IInv, RepliesFollowCells
    <2>6. \/ says = "refused" /\ cell[c] \in Refused
          \/ says \in ExecutionOutcomes /\ says # "refused" /\ runs[cell[c]] = <<says>>
        <3>1. CASE reply[c] \in Refusals
            BY <2>2, <2>4, <2>5, <3>1 DEF ReplyFollowsCell, Refused
        <3>2. CASE reply[c] \in ExecutionOutcomes
            BY <2>2, <2>5, <3>2, AdminActionsAssumption DEF ReplyFollowsCell, Refusals,
               ExecutionOutcomes
        <3>. QED BY <2>2, <2>5, <3>1, <3>2 DEF ReplyFollowsCell, Answers
    <2>. HIDE DEF says
    <2>. DEFINE told == [d \in Calls |-> Told(d)]
    <2>7. told' = [told EXCEPT ![c] = [of |-> cell[c], says |-> says]]
        BY <2>3, ToldWhenDone
    <2>8. told[c] = None
        BY ToldWhenDone
    <2>9. Promise!Tell(c, cell[c])
        BY <2>1, <2>2, <2>6, <2>7, <2>8 DEF Promise!Tell, Refused
    <2>. QED BY <2>2, <2>9 DEF Promise!Next
<1>. QED BY <1>1, <1>2, <1>3, <1>4, <1>5, <1>6, <1>7 DEF Handle

\* Every step of the game thread and of shutdown().
LEMMA NextKeepsPromise ==
    ASSUME PInv, [Next]_vars
    PROVE  [Promise!Next]_Promise!vars
<1>1. ASSUME NEW c \in Calls, Handle(c) PROVE [Promise!Next]_Promise!vars
    BY <1>1, HandleKeepsPromise
<1>2. CASE UNCHANGED <<callVars, shared, runs>>
    BY <1>2, PromiseStutters DEF callVars, Refused, Told
<1>3. CASE Claim
    <2>1. /\ current \in Calls /\ \A j \in Cells : shared'[j].response = shared[j].response
        BY <1>3 DEF Claim, PInv, IInv, TypeOK, WellFormed, SharedResults, Cells
    <2>. QED BY <1>3, <2>1, PromiseStutters DEF Claim, callVars, Refused, Told, Cells
<1>4. CASE Execute
    <2>1. PICK o \in ExecutionOutcomes : runs' = [runs EXCEPT ![current] = Append(@, o)]
        BY <1>4 DEF Execute
    <2>2. /\ current \in Calls /\ cell[current] = current /\ shared[current].response = None
          /\ runs[current] = <<>> /\ runs \in [Calls -> Seq(ExecutionOutcomes)]
        BY <1>4 DEF Execute, PInv, IInv, TypeOK, WellFormed, InHand, Dispatched
    <2>3. current \notin Refused /\ request[current] # None
        <3>1. None \notin Refusals /\ None \notin Calls /\ None \notin Requests
            BY AdminActionsAssumption DEF LineOutcomes, Replies, Answers
        <3>2. OwnsCell(current) /\ current # None
            BY <2>2, <3>1 DEF PInv, IInv, CellsOwned
        <3>3. request[current] \in Requests
            BY <2>2, <3>2 DEF OwnsCell
        <3>. QED BY <2>2, <3>1, <3>3 DEF Refused
    <2>4. ASSUME NEW d \in Calls, runs[d] # <<>> PROVE request[d].id # request[current].id
        <3>1. cell[d] = d /\ None \notin Calls
            BY <2>4, AdminActionsAssumption DEF PInv, IInv, UntouchedBeforeDispatch
        <3>. QED BY <2>2, <2>4, <3>1 DEF PInv, EntriesHeld, HoldsEntry
    <2>5. runs' = [runs EXCEPT ![current] = <<o>>]
        BY <2>1, <2>2
    <2>6. Refused' = Refused /\ \A c \in Calls : Told(c)' = Told(c)
        BY <1>4 DEF Execute, callVars, Refused, Told
    <2>7. Promise!Run(current)
        BY <1>4, <2>2, <2>3, <2>4, <2>5, <2>6 DEF Promise!Run, Execute, callVars, Refused
    <2>. QED BY <2>2, <2>7 DEF Promise!Next
<1>5. CASE Publish
    <2>1. /\ current \in Calls /\ execution \in ExecutionOutcomes
          /\ shared[current].response = None
        BY <1>5 DEF Publish, PInv, IInv, WellFormed, InHand
    <2>2. /\ shared'[current] = [shared[current] EXCEPT !.response = execution]
          /\ shared[current] \in SharedResults
          /\ \A j \in Cells \ {current} : shared'[j] = shared[j]
        BY <1>5, <2>1, CompleteEffect DEF Publish, PInv, IInv, TypeOK, Cells, Answers
    <2>3. shared'[current].response = execution
        BY <2>2 DEF SharedResults
    <2>4. execution \notin Refusals /\ None \notin Refusals
        BY <2>1, AdminActionsAssumption DEF ExecutionOutcomes, Refusals, LineOutcomes, Replies,
           Answers
    <2>5. Refused' = Refused
        BY <2>1, <2>2, <2>3, <2>4 DEF Refused, Cells
    <2>. QED BY <1>5, <2>5, PromiseStutters DEF Publish, callVars, Told
<1>6. CASE AnswerAbandoned
    <2>1. Head(abandoned) \in Calls /\ runs[Head(abandoned)] = <<>>
        BY <1>6, TailFacts DEF AnswerAbandoned, PInv, IInv, TypeOK, QueuesHoldUnstarted, Unstarted
    <2>2. PICK c \in Calls : c = Head(abandoned)
        BY <2>1
    <2>3. Refused' = Refused \cup {c}
        BY <1>6, <2>2, CompletionRefuses DEF AnswerAbandoned, Refusals
    <2>4. \A d \in Calls : Told(d)' = Told(d)
        BY <1>6 DEF AnswerAbandoned, callVars, Told
    <2>5. Promise!Refuse(c)
        BY <1>6, <2>1, <2>2, <2>3, <2>4, PromiseRefuses DEF AnswerAbandoned, callVars
    <2>. QED BY <2>5 DEF Promise!Next
<1>. QED BY <1>1, <1>2, <1>3, <1>4, <1>5, <1>6 DEF Next, BeginTick, GameThread, EndTick, Pop,
   Skip, StopAccepting, vars

\* The initial state.
LEMMA InitMakesPromise == Init => Promise!Init
<1>. SUFFICES ASSUME Init PROVE Promise!Init
    OBVIOUS
<1>1. Refused = {}
    BY AdminActionsAssumption DEF Init, Refused, FreshResult, Cells, LineOutcomes, Replies, Answers
<1>2. \A c \in Calls : Told(c) = None
    BY DEF Init, Told
<1>. QED BY <1>1, <1>2 DEF Init, Promise!Init, Refused

\* The service implements the promise: whatever its threads, deadlines and
\* queues do, a client sees requests that are run once or refused for good, and
\* is told which.
THEOREM PromiseKept == LedgerHasRoom => (Spec => KeepsThePromise)
<1>. SUFFICES ASSUME LedgerHasRoom PROVE Spec => KeepsThePromise
    OBVIOUS
<1>1. Init => EntriesHeld /\ IdleAsksNothing
    BY DEF Init, EntriesHeld, IdleAsksNothing
<1>2. IInv /\ LedgerMatchesOrder /\ EntriesHeld /\ IdleAsksNothing /\ [Next]_vars
        => EntriesHeld' /\ IdleAsksNothing'
    BY NextKeepsEntriesHeld, NextKeepsIdle
<1>3. IInv /\ OneLife /\ [Next]_vars => OneLife'
    BY NextKeepsOneLife
<1>4. IInv /\ OneLife /\ EntriesHeld /\ IdleAsksNothing /\ [Next]_vars
        => [Promise!Next]_Promise!vars
    BY NextKeepsPromise DEF PInv
<1>. QED BY <1>1, <1>2, <1>3, <1>4, InitHasOneLife, InitMakesPromise, InvariantHolds, LedgerHolds,
   PTL DEF Spec, KeepsThePromise, Promise!Spec

-----------------------------------------------------------------------------
(* What is written to the journal *)

\* The line that c writes in this step.
LineOf(c, line) ==
    \/ line.outcome \in Untracked
    \/ /\ Accept(c)
       /\ line = [id |-> request[c].id, payload |-> request[c].payload, outcome |-> "requested"]
    \/ /\ AuditReply(c)
       /\ line = [id |-> request[c].id, payload |-> request[c].payload, outcome |-> reply[c]]

\* A call writes when it is rejected, when it is accepted, and its answer.
LEMMA LogStep ==
    ASSUME IInv, [Next]_vars, log' # log
    PROVE  \E c \in Calls :
              /\ Handle(c)
              /\ \/ pc[c] \in {"idle", "lookup", "audit"} /\ Goto(c, "done")
                 \/ pc[c] = "accept" /\ (Goto(c, "enqueue") \/ Goto(c, "done"))
              /\ \/ log' \in FailedWrites(log)
                 \/ \E line \in Line : log' = Appended(log, line) /\ LineOf(c, line)
<1>1. PICK c \in Calls : Handle(c)
    BY DEF Next, BeginTick, GameThread, EndTick, Pop, Skip, Claim, Execute, Publish,
       StopAccepting, AnswerAbandoned, vars
<1>2. \/ RejectUnauthenticated(c) \/ RejectMalformed(c) \/ RejectConflict(c)
      \/ Accept(c) \/ RefuseUnaudited(c) \/ AuditReply(c)
    BY <1>1 DEF Handle, Parse, JoinOriginal, Admit, RefuseDisabled, RefuseUnsupported,
       PassGates, Refuse, Enqueue, RefuseStopping, Answered, TimeOut, ReplayAnswer
<1>. DEFINE Written == \/ log' \in FailedWrites(log)
                       \/ \E line \in Line : log' = Appended(log, line) /\ LineOf(c, line)
<1>3. ASSUME NEW i \in RequestIds \cup {None}, NEW p \in Payloads \cup {None},
             NEW o \in LineOutcomes
      PROVE  [id |-> i, payload |-> p, outcome |-> o] \in Line
    BY DEF Line
<1>4. CASE RejectUnauthenticated(c) \/ RejectMalformed(c)
    <2>1. PICK o \in Untracked : AnonymousAudit(o) /\ o \in LineOutcomes
        BY <1>4 DEF RejectUnauthenticated, RejectMalformed, Untracked, LineOutcomes, Replies
    <2>2. Written
        BY <1>3, <2>1 DEF AnonymousAudit, AuditFails, LineOf
    <2>. QED BY <1>1, <1>4, <2>2 DEF RejectUnauthenticated, RejectMalformed
<1>5. ASSUME pc[c] \in {"lookup", "accept", "audit"}
      PROVE  request[c].id \in RequestIds /\ request[c].payload \in Payloads
    BY <1>5 DEF IInv, WellFormed, Requests
<1>6. CASE RejectConflict(c)
    <2>1. Written
        BY <1>3, <1>5, <1>6 DEF RejectConflict, AuditSucceeds, AuditFails, LineOf, Untracked,
           LineOutcomes, Replies
    <2>. QED BY <1>1, <1>6, <2>1 DEF RejectConflict
<1>7. CASE Accept(c)
    <2>1. Written
        BY <1>3, <1>5, <1>7 DEF Accept, AuditSucceeds, LineOf, LineOutcomes
    <2>. QED BY <1>1, <1>7, <2>1 DEF Accept
<1>8. CASE RefuseUnaudited(c)
    BY <1>1, <1>8 DEF RefuseUnaudited, AuditFails
<1>9. CASE AuditReply(c)
    <2>1. reply[c] \in LineOutcomes
        BY <1>9 DEF AuditReply, IInv, WellFormed, LineOutcomes, Replies
    <2>2. Written
        BY <1>3, <1>5, <1>9, <2>1 DEF AuditReply, AuditSucceeds, AuditFails, LineOf
    <2>. QED BY <1>1, <1>9, <2>2 DEF AuditReply
<1>. QED BY <1>2, <1>4, <1>6, <1>7, <1>8, <1>9

\* What a line becomes when it is written to the end of the file.
Glue(l, line) == IF l.torn THEN [line EXCEPT !.outcome = "unreadable"] ELSE line

\* A write to a file that is not full adds a line, or at most a fragment.
LEMMA WriteWithoutRotation ==
    ASSUME NEW l \in Log, ~Full(l)
    PROVE  /\ \A line \in Line :
                 /\ Glue(l, line) \in Line
                 /\ Appended(l, line).current = Append(l.current, Glue(l, line))
                 /\ Appended(l, line).backup = l.backup
                 /\ ~Appended(l, line).torn
           /\ \A m \in FailedWrites(l) :
                 m.current = l.current /\ m.backup = l.backup /\ (m.torn => l.torn \/ TornWrites)
<1>1. ASSUME NEW line \in Line
      PROVE  /\ Glue(l, line) \in Line
             /\ Appended(l, line).current = Append(l.current, Glue(l, line))
             /\ Appended(l, line).backup = l.backup
             /\ ~Appended(l, line).torn
    <2>1. [line EXCEPT !.outcome = "unreadable"] \in Line
        BY DEF Line, LineOutcomes
    <2>2. Glue(l, line) \in Line
        BY <2>1 DEF Glue
    <2>3. Appended(l, line) = [l EXCEPT !.current = Append(@, Glue(l, line)), !.torn = FALSE]
        BY DEF Appended, Writable, Glue
    <2>. QED BY <2>2, <2>3 DEF Log
<1>. QED BY <1>1 DEF FailedWrites, Writable, Log

-----------------------------------------------------------------------------
(* Files with room for every line *)

FilesHaveRoom == IsFiniteSet(Calls) /\ MaxAuditLines >= 2 * Cardinality(Calls)

\* The calls that may have written a line, and those that may have written two.
Begun == {c \in Calls : pc[c] \in {"enqueue", "waiting", "audit", "done", "lost"}}
Ended == {c \in Calls : pc[c] = "done"}

LinesCounted ==
    /\ log.backup = <<>>
    /\ Len(log.current) <= Cardinality(Begun) + Cardinality(Ended)

\* Sets of calls are finite, and no larger than their supersets.
LEMMA CountCalls ==
    ASSUME FilesHaveRoom, NEW S \in SUBSET Calls, NEW T \in SUBSET S
    PROVE  /\ Cardinality(S) \in Nat /\ Cardinality(T) \in Nat /\ Cardinality(Calls) \in Nat
           /\ Cardinality(T) <= Cardinality(S) /\ Cardinality(S) <= Cardinality(Calls)
           /\ T # S => Cardinality(T) < Cardinality(S)
<1>1. IsFiniteSet(Calls) /\ IsFiniteSet(S) /\ IsFiniteSet(T)
    BY FS_Subset DEF FilesHaveRoom
<1>2. Cardinality(S) \in Nat /\ Cardinality(T) \in Nat /\ Cardinality(Calls) \in Nat
    BY <1>1, FS_CardinalityType
<1>3. /\ Cardinality(T) <= Cardinality(S) /\ Cardinality(S) <= Cardinality(Calls)
      /\ Cardinality(S) = Cardinality(T) => S = T
    BY <1>1, FS_Subset
<1>. QED BY <1>2, <1>3

\* A call that is not done finds room for its line.
LEMMA RoomForALine ==
    ASSUME FilesHaveRoom, IInv, LinesCounted, NEW c \in Calls, pc[c] # "done"
    PROVE  ~Full(log)
<1>1. /\ Begun \in SUBSET Calls /\ Ended \in SUBSET Calls /\ Ended # Calls
    BY DEF Begun, Ended
<1>2. /\ Cardinality(Begun) \in Nat /\ Cardinality(Begun) <= Cardinality(Calls)
      /\ Cardinality(Ended) \in Nat /\ Cardinality(Ended) < Cardinality(Calls)
      /\ Cardinality(Calls) \in Nat
    BY <1>1, CountCalls
<1>3. Len(log.current) \in Nat /\ MaxAuditLines \in Nat
    BY AuditLogAssumption DEF IInv, TypeOK, Log
<1>. QED BY <1>2, <1>3 DEF Full, LinesCounted, FilesHaveRoom

LEMMA NextKeepsLinesCounted ==
    ASSUME FilesHaveRoom, IInv, LinesCounted, [Next]_vars
    PROVE  LinesCounted'
<1>1. ASSUME NEW c \in Calls, Handle(c)
      PROVE  Begun \subseteq Begun' /\ Ended \subseteq Ended'
    <2>1. pc[c] \in {"enqueue", "waiting", "audit"} => pc'[c] \in {"waiting", "audit", "done"}
        BY <1>1 DEF Handle, RejectUnauthenticated, RejectMalformed, Parse, RejectConflict,
           JoinOriginal, Admit, RefuseDisabled, RefuseUnsupported, PassGates, Accept, Refuse,
           RefuseUnaudited, Enqueue, RefuseStopping, Answered, TimeOut, ReplayAnswer,
           AuditReply, Goto, IInv, TypeOK
    <2>2. pc[c] \notin {"done", "lost"}
        BY <1>1 DEF Handle, RejectUnauthenticated, RejectMalformed, Parse, RejectConflict,
           JoinOriginal, Admit, RefuseDisabled, RefuseUnsupported, PassGates, Accept,
           RefuseUnaudited, Enqueue, RefuseStopping, Answered, TimeOut, ReplayAnswer, AuditReply
    <2>. QED BY <1>1, <2>1, <2>2, OneCallMoves DEF Begun, Ended
<1>2. Begun \subseteq Begun' /\ Ended \subseteq Ended'
    <2>1. CASE pc' = pc
        BY <2>1 DEF Begun, Ended
    <2>. QED BY <1>1, <2>1 DEF Next, BeginTick, GameThread, EndTick, Pop, Skip, Claim, Execute,
       Publish, StopAccepting, AnswerAbandoned, callVars, vars
<1>3. /\ Begun' \in SUBSET Calls /\ Ended' \in SUBSET Calls
    BY DEF Begun, Ended
<1>4. /\ Cardinality(Begun) \in Nat /\ Cardinality(Begun') \in Nat
      /\ Cardinality(Begun) <= Cardinality(Begun')
      /\ Begun # Begun' => Cardinality(Begun) < Cardinality(Begun')
    BY <1>2, <1>3, CountCalls
<1>5. /\ Cardinality(Ended) \in Nat /\ Cardinality(Ended') \in Nat
      /\ Cardinality(Ended) <= Cardinality(Ended')
      /\ Ended # Ended' => Cardinality(Ended) < Cardinality(Ended')
    BY <1>2, <1>3, CountCalls
<1>6. log \in Log /\ Len(log.current) \in Nat
    BY DEF IInv, TypeOK, Log
<1>7. CASE log' = log
    BY <1>4, <1>5, <1>6, <1>7 DEF LinesCounted
<1>8. CASE log' # log
    <2>1. PICK c \in Calls :
              /\ Handle(c)
              /\ \/ pc[c] \in {"idle", "lookup", "audit"} /\ Goto(c, "done")
                 \/ pc[c] = "accept" /\ (Goto(c, "enqueue") \/ Goto(c, "done"))
              /\ \/ log' \in FailedWrites(log)
                 \/ \E line \in Line : log' = Appended(log, line) /\ LineOf(c, line)
        BY <1>8, LogStep
    <2>2. ~Full(log)
        BY <2>1, RoomForALine
    <2>3. \/ c \notin Ended /\ c \in Ended'
          \/ c \notin Begun /\ c \in Begun'
        BY <2>1 DEF Goto, Begun, Ended, IInv, TypeOK
    <2>4. Len(log'.current) <= Len(log.current) + 1 /\ log'.backup = log.backup
        <3>1. CASE log' \in FailedWrites(log)
            <4>1. \A m \in FailedWrites(log) : m.current = log.current /\ m.backup = log.backup
                BY <1>6, <2>2, WriteWithoutRotation
            <4>2. log'.current = log.current /\ log'.backup = log.backup
                BY <3>1, <4>1
            <4>. QED BY <1>6, <4>2
        <3>2. ASSUME NEW line \in Line, log' = Appended(log, line)
              PROVE  Len(log'.current) <= Len(log.current) + 1 /\ log'.backup = log.backup
            <4>1. /\ log'.current = Append(log.current, Glue(log, line))
                  /\ log'.backup = log.backup
                BY <1>6, <2>2, <3>2, WriteWithoutRotation
            <4>. QED BY <1>6, <4>1 DEF Log
        <3>. QED BY <2>1, <3>1, <3>2
    <2>5. Len(log'.current) \in Nat
        BY NextKeepsInv DEF IInv, TypeOK, Log
    <2>. QED BY <1>4, <1>5, <1>6, <2>3, <2>4, <2>5 DEF LinesCounted
<1>. QED BY <1>7, <1>8

-----------------------------------------------------------------------------
(* Accepted requests are on disk *)

OnDisk(c) ==
    \E i \in DOMAIN log.current :
        log.current[i] = [id |-> request[c].id, payload |-> request[c].payload,
                          outcome |-> "requested"]

\* What may still be run, and what was run, is on disk.
AcceptedOnDisk ==
    /\ ~log.torn
    /\ \A c \in Calls : InPlay(c) \/ runs[c] # <<>> => OnDisk(c)

\* Nothing is taken from the file, and no fragment is left in it.
LEMMA LinesStay ==
    ASSUME FilesHaveRoom, ~TornWrites, IInv, LinesCounted, ~log.torn, [Next]_vars
    PROVE  /\ ~log'.torn
           /\ \A i \in DOMAIN log.current :
                 i \in DOMAIN log'.current /\ log'.current[i] = log.current[i]
<1>1. log \in Log
    BY DEF IInv, TypeOK
<1>2. CASE log' = log
    BY <1>2
<1>3. CASE log' # log
    <2>1. PICK c \in Calls :
              /\ Handle(c)
              /\ \/ pc[c] \in {"idle", "lookup", "audit"} /\ Goto(c, "done")
                 \/ pc[c] = "accept" /\ (Goto(c, "enqueue") \/ Goto(c, "done"))
              /\ \/ log' \in FailedWrites(log)
                 \/ \E line \in Line : log' = Appended(log, line) /\ LineOf(c, line)
        BY <1>3, LogStep
    <2>2. ~Full(log)
        BY <2>1, RoomForALine
    <2>3. CASE log' \in FailedWrites(log)
        <3>1. \A m \in FailedWrites(log) : m.current = log.current /\ (m.torn => log.torn)
            BY <1>1, <2>2, WriteWithoutRotation
        <3>2. log'.current = log.current /\ ~log'.torn
            BY <2>3, <3>1
        <3>. QED BY <3>2
    <2>4. CASE \E line \in Line : log' = Appended(log, line)
        <3>1. PICK line \in Line : log' = Appended(log, line)
            BY <2>4
        <3>2. /\ log'.current = Append(log.current, Glue(log, line)) /\ ~log'.torn
              /\ Glue(log, line) \in Line /\ log.current \in Seq(Line)
            BY <1>1, <2>2, <3>1, WriteWithoutRotation DEF Log
        <3>. QED BY <3>2
    <2>. QED BY <2>1, <2>3, <2>4
<1>. QED BY <1>2, <1>3

LEMMA NextKeepsAcceptedOnDisk ==
    ASSUME FilesHaveRoom, ~TornWrites, IInv, LinesCounted, AcceptedOnDisk, [Next]_vars
    PROVE  AcceptedOnDisk'
<1>1. /\ ~log'.torn
      /\ \A i \in DOMAIN log.current :
            i \in DOMAIN log'.current /\ log'.current[i] = log.current[i]
    BY LinesStay DEF AcceptedOnDisk
<1>. SUFFICES ASSUME NEW c \in Calls, InPlay(c)' \/ runs'[c] # <<>>
              PROVE  OnDisk(c)'
    BY <1>1 DEF AcceptedOnDisk
<1>2. CASE InPlay(c) \/ runs[c] # <<>>
    <2>1. OnDisk(c)
        BY <1>2 DEF AcceptedOnDisk
    <2>2. pc[c] # "idle"
        <3>1. CASE cell[c] = c
            BY <3>1, AdminActionsAssumption DEF IInv, CellsOwned, OwnsCell
        <3>2. CASE pc[c] \in {"enqueue", "waiting"} /\ cell[c] # c
            BY <3>2
        <3>3. CASE c \in Elements(pending) \cup Elements(abandoned)
            BY <3>3 DEF Elements, IInv, QueuesHoldUnstarted, Dispatched
        <3>4. CASE c = current
            BY <3>4, AdminActionsAssumption DEF IInv, InHand, Dispatched, WellFormed, TypeOK
        <3>. QED BY <1>2, <3>1, <3>2, <3>3, <3>4 DEF InPlay, IInv, UntouchedBeforeDispatch
    <2>3. request'[c] = request[c]
        BY <2>2, RequestStays
    <2>. QED BY <1>1, <2>1, <2>3 DEF OnDisk
<1>3. CASE Accept(c)
    <2>. DEFINE line == [id |-> request[c].id, payload |-> request[c].payload,
                         outcome |-> "requested"]
    <2>1. line \in Line /\ log \in Log /\ log.current \in Seq(Line)
        BY <1>3 DEF Accept, Line, LineOutcomes, IInv, TypeOK, WellFormed, Requests, Log
    <2>2. ~Full(log)
        BY <1>3, RoomForALine DEF Accept
    <2>3. log' = Appended(log, line) /\ request' = request
        BY <1>3 DEF Accept, AuditSucceeds
    <2>. HIDE DEF line
    <2>4. log'.current = Append(log.current, line)
        <3>1. Appended(log, line).current = Append(log.current, Glue(log, line))
            BY <2>1, <2>2, WriteWithoutRotation
        <3>2. Glue(log, line) = line
            BY DEF Glue, AcceptedOnDisk
        <3>. QED BY <2>3, <3>1, <3>2
    <2>5. Len(log.current) + 1 \in DOMAIN log'.current /\ log'.current[Len(log.current) + 1] = line
        BY <2>1, <2>4
    <2>. QED BY <2>3, <2>5 DEF OnDisk, line
<1>4. ASSUME ~InPlay(c), runs[c] = <<>> PROVE Accept(c)
    <2>1. CASE InPlay(c)'
        BY <1>4, <2>1, InPlayFromAccept
    <2>2. CASE runs'[c] # <<>>
        BY <1>4, <2>2, RunInPlay
    <2>. QED BY <2>1, <2>2
<1>. QED BY <1>2, <1>3, <1>4

\* Nothing is done to a player that the administrator's journal does not know
\* of, however early the game thread picks the request up.
THEOREM AuditedFirst ==
    FilesHaveRoom /\ ~TornWrites => (Spec => []AuditedBeforeExecution)
<1>. SUFFICES ASSUME FilesHaveRoom, ~TornWrites PROVE Spec => []AuditedBeforeExecution
    OBVIOUS
<1>1. ASSUME Init PROVE LinesCounted /\ AcceptedOnDisk
    <2>1. Begun \in SUBSET Calls /\ Ended \in SUBSET Calls
        BY DEF Begun, Ended
    <2>2. Cardinality(Begun) \in Nat /\ Cardinality(Ended) \in Nat
        BY <2>1, CountCalls
    <2>3. LinesCounted
        BY <1>1, <2>2 DEF Init, EmptyLog, LinesCounted
    <2>4. \A c \in Calls : ~InPlay(c) /\ runs[c] = <<>>
        BY <1>1, AdminActionsAssumption DEF Init, InPlay, Elements
    <2>. QED BY <1>1, <2>3, <2>4 DEF Init, EmptyLog, AcceptedOnDisk
<1>2. IInv /\ LinesCounted /\ AcceptedOnDisk /\ [Next]_vars => LinesCounted' /\ AcceptedOnDisk'
    BY NextKeepsLinesCounted, NextKeepsAcceptedOnDisk
<1>3. ASSUME IInv, LinesCounted, AcceptedOnDisk PROVE AuditedBeforeExecution
    <2>1. Lines(log) = log.current
        BY <1>3 DEF Lines, LinesCounted, IInv, TypeOK, Log
    <2>. QED BY <1>3, <2>1 DEF AcceptedOnDisk, OnDisk, AuditedBeforeExecution
<1>. QED BY <1>1, <1>2, <1>3, InvariantHolds, PTL DEF Spec
=============================================================================
