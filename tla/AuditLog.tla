------------------------------- MODULE AuditLog -------------------------------
(***************************************************************************)
(* The audit journal of the admin actions: PalCenterCompanion.teleport-    *)
(* audit.jsonl and its one backup (AdminActionService::audit and           *)
(* load_idempotency_records, src/src/admin_actions.cpp).                   *)
(*                                                                         *)
(* The module has no variables: a journal is a value                       *)
(*   backup  -- the lines of "<path>.1",                                   *)
(*   current -- the lines of "<path>",                                     *)
(*   torn    -- the last write to "<path>" stopped inside a line, so the   *)
(*              next line written is glued to the fragment.                *)
(*                                                                         *)
(* A line keeps what loading it back uses: the request identifier, the     *)
(* fingerprint of the request (here its payload) and the outcome.  The     *)
(* outcome stands for the record's result, failureReason and httpStatus,   *)
(* which the code always writes together.  "replayed_" is written in front *)
(* of the result of a repeated answer and erased again by the loader, so   *)
(* a line does not carry it.                                               *)
(***************************************************************************)
EXTENDS Integers, Sequences, FiniteSets

CONSTANTS
    MaxAuditLines,  \* lines a file holds before it is rotated (5 MiB of bytes)
    TornWrites      \* can a failing write leave part of a line in the file?

ASSUME AuditLogAssumption == MaxAuditLines \in Nat \ {0} /\ TornWrites \in BOOLEAN

-----------------------------------------------------------------------------
\* What is answered to a request that is refused before it reaches the ledger.
Untracked ==
    {"authentication_required", "invalid_request", "idempotency_conflict"}

\* Mutant of IdempotencyTracked: only final records rebuild the ledger.
TrackedWhenFinal(outcome) == outcome \notin Untracked \cup {"unreadable", "requested"}

\* "unreadable" is a line that is not one JSON record.
IdempotencyTracked(outcome) == outcome \notin Untracked \cup {"unreadable"}

EmptyLog == [backup |-> <<>>, current |-> <<>>, torn |-> FALSE]

Lines(log) == log.backup \o log.current

\* The size check that precedes every write; a size that cannot be read (in the
\* code, one that does not make the file full) is left out.
Full(log) == Len(log.current) + 1 > MaxAuditLines

Rotated(log) == [backup |-> log.current, current |-> <<>>, torn |-> FALSE]

Writable(log) == IF Full(log) THEN Rotated(log) ELSE log

\* A write that succeeds: a line on its own, or glued to a fragment.
Appended(log, line) ==
    LET w == Writable(log)
        l == IF w.torn THEN [line EXCEPT !.outcome = "unreadable"] ELSE line
    IN  [w EXCEPT !.current = Append(@, l), !.torn = FALSE]

\* What a write that reports failure can leave behind: nothing changed, the
\* backup deleted although the rename then failed, the files rotated although
\* the new one could not be opened, or a fragment of the line.
FailedWrites(log) ==
    {log}
    \cup (IF Full(log) THEN {[log EXCEPT !.backup = <<>>], Rotated(log)} ELSE {})
    \cup (IF TornWrites THEN {[Writable(log) EXCEPT !.torn = TRUE]} ELSE {})

-----------------------------------------------------------------------------
(* Loading: backup first, then the current file, one line after the other. *)

TrackedLines(log) == {i \in DOMAIN Lines(log) : IdempotencyTracked(Lines(log)[i].outcome)}

LinesOf(log, id) == {i \in TrackedLines(log) : Lines(log)[i].id = id}

RetainedIds(log) == {Lines(log)[i].id : i \in TrackedLines(log)}

\* A later line of an identifier replaces what an earlier one set ...
LastLine(log, id) ==
    Lines(log)[CHOOSE i \in LinesOf(log, id) : \A j \in LinesOf(log, id) : j <= i]

\* ... but the identifier keeps the place of its first line in the order.
FirstMention(log, id) ==
    CHOOSE i \in LinesOf(log, id) : \A j \in LinesOf(log, id) : i <= j

\* Mutant of LoadOrders: the backup is not read.
LoadOrdersOfCurrent(log) ==
    LET ids == RetainedIds([log EXCEPT !.backup = <<>>])
    IN  {o \in [1..Cardinality(ids) -> ids] :
            \A i, j \in DOMAIN o : i < j => FirstMention(log, o[i]) < FirstMention(log, o[j])}

LoadOrders(log) ==
    {o \in [1..Cardinality(RetainedIds(log)) -> RetainedIds(log)] :
        \A i, j \in DOMAIN o : i < j => FirstMention(log, o[i]) < FirstMention(log, o[j])}

\* Mutant of LoadedOutcome: an unfinished request counts as not executed.
LoadedAsStopped(line) ==
    IF line.outcome = "requested" THEN "companion_stopping" ELSE line.outcome

\* Mutant of LoadedOutcome: only a success is remembered.
LoadedUnlessSucceeded(line) ==
    IF line.outcome = "succeeded" THEN "succeeded" ELSE "action_outcome_unknown"

\* Accepted and never finished: nobody knows whether it was executed.
LoadedOutcome(line) ==
    IF line.outcome = "requested" THEN "action_outcome_unknown" ELSE line.outcome
=============================================================================
