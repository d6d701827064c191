---------------------------- MODULE CapabilityProbe ----------------------------
(***************************************************************************)
(* Which teleport actions the companion advertises.  The game thread       *)
(* probes the reflected functions of the game (extension/dllmain.cpp) and  *)
(* stores what it found in three atomics, one after the other.  A worker   *)
(* thread that answers GET /palcenter/v1/capabilities (capabilities_json,  *)
(* src/src/admin_actions.cpp) loads them one after the other, several      *)
(* times, with no lock: stores and loads interleave.                       *)
(*                                                                         *)
(* The game is external: what a probe looks for comes and goes, and        *)
(* looking for it may throw.  Probing intervals are abstract: a probe may  *)
(* begin whenever none is running.                                         *)
(***************************************************************************)
EXTENDS Integers, Sequences

CONSTANTS
    Configured,  \* the actions the configuration enables
    MayLack      \* bound: the prerequisites that may be what the game lacks

Actions == <<"teleportAdminToPlayer", "teleportPlayerToAdmin", "teleportPlayerToLocation">>
Location == Actions[3]

\* What map teleports need, in the order in which the probe judges it.
Prerequisites ==
    <<"collision_function", "collision_signature", "utility_object", "floor_function",
      "floor_signature", "ocean_function", "ocean_signature">>

Members(s) == {s[i] : i \in DOMAIN s}

ASSUME CapabilityProbeAssumption ==
    /\ Configured \subseteq Members(Actions)
    /\ MayLack \subseteq Members(Prerequisites)

VARIABLES
    lacking,            \* the prerequisites the game lacks
    throwing,           \* looking for them throws
    playerSupported,    \* player_teleport_supported_
    locationSupported,  \* location_teleport_supported_
    supportState,       \* location_support_state_
    probe,              \* the next store of the running probe
    found,              \* the state the running probe has found
    unloading,          \* the next store of unregister_player_hooks()
    stage, at,          \* the worker's next load, and the action it is for
    document,           \* the answer it has put together so far
    changed             \* history: actions whose support changed meanwhile

gameVars == <<lacking, throwing>>
supportVars == <<playerSupported, locationSupported, supportState>>
probeVars == <<probe, found, unloading>>
readerVars == <<stage, at, document, changed>>
vars == <<gameVars, supportVars, probeVars, readerVars>>

EmptyDocument ==
    [summary |-> FALSE, actions |-> [i \in DOMAIN Actions |-> FALSE],
     diagnostics |-> [i \in DOMAIN Actions |-> "null"]]

Init ==
    /\ lacking \in SUBSET MayLack /\ throwing \in BOOLEAN
    /\ playerSupported = FALSE /\ locationSupported = FALSE
    /\ supportState = "runtime_initializing"
    /\ probe = "idle" /\ found = "ready" /\ unloading = "no"
    /\ stage = "summary" /\ at = 1 /\ document = EmptyDocument /\ changed = {}

-----------------------------------------------------------------------------
(* The game *)

ChangeGame ==
    /\ lacking' \in SUBSET MayLack /\ throwing' \in BOOLEAN
    /\ UNCHANGED <<supportVars, probeVars, readerVars>>

-----------------------------------------------------------------------------
(* Support as the executor answers it *)

\* supports()
Supports(i) == IF Actions[i] = Location THEN locationSupported ELSE playerSupported

\* unsupported_reason() of the executor: a code, or nothing.
ExecutorReason(i) ==
    IF Actions[i] = Location
    THEN IF supportState = "ready" THEN "" ELSE supportState
    ELSE IF playerSupported THEN "" ELSE "collision_function"

\* The actions whose support the step changes, for the document being read.
NoteChanges ==
    changed' = changed \cup
        (IF playerSupported' # playerSupported THEN {1, 2} ELSE {}) \cup
        (IF locationSupported' # locationSupported THEN {3} ELSE {})

-----------------------------------------------------------------------------
(* probe_admin_action_support() on the game thread *)

FirstMissing ==
    IF lacking = {} THEN "ready"
    ELSE LET first == CHOOSE i \in DOMAIN Prerequisites :
                         /\ Prerequisites[i] \in lacking
                         /\ \A j \in 1..(i - 1) : Prerequisites[j] \notin lacking
         IN  Prerequisites[first]

\* Mutant of BeginProbe: the first result is kept for good.
BeginFirstProbe ==
    /\ probe = "idle" /\ unloading = "no" /\ supportState = "runtime_initializing"
    /\ IF throwing THEN probe' = "withdraw" /\ UNCHANGED found
       ELSE probe' = "player" /\ found' = FirstMissing
    /\ UNCHANGED <<gameVars, supportVars, unloading, readerVars>>

\* The probe looks at everything first; if that throws it goes on to the
\* handler.
BeginProbe ==
    /\ probe = "idle" /\ unloading = "no"
    /\ IF throwing THEN probe' = "withdraw" /\ UNCHANGED found
       ELSE probe' = "player" /\ found' = FirstMissing
    /\ UNCHANGED <<gameVars, supportVars, unloading, readerVars>>

StorePlayerSupport ==
    /\ probe = "player"
    /\ probe' = "state"
    /\ playerSupported' = (found # "collision_function")
    /\ UNCHANGED <<gameVars, locationSupported, supportState, found, unloading, stage, at, document>>
    /\ NoteChanges

StoreSupportState ==
    /\ probe = "state"
    /\ probe' = "location"
    /\ supportState' = found
    /\ UNCHANGED <<gameVars, playerSupported, locationSupported, found, unloading, readerVars>>

\* Mutant of StoreLocationSupport: support once found is never withdrawn.
StoreLocationSupportOnce ==
    /\ probe = "location"
    /\ probe' = IF throwing THEN "withdraw" ELSE "idle"
    /\ locationSupported' = (locationSupported \/ found = "ready")
    /\ UNCHANGED <<gameVars, playerSupported, supportState, found, unloading, stage, at, document>>
    /\ NoteChanges

\* The log lines that follow describe signatures, which may throw as well.
StoreLocationSupport ==
    /\ probe = "location"
    /\ probe' = IF throwing THEN "withdraw" ELSE "idle"
    /\ locationSupported' = (found = "ready")
    /\ UNCHANGED <<gameVars, playerSupported, supportState, found, unloading, stage, at, document>>
    /\ NoteChanges

\* Mutant of WithdrawLocationSupport: the handler forgets the flag.
WithdrawNothing ==
    /\ probe = "withdraw"
    /\ probe' = "failed"
    /\ UNCHANGED <<gameVars, supportVars, found, unloading, readerVars>>

\* The handler of a probe that threw; what it knew of player teleports stays.
WithdrawLocationSupport ==
    /\ probe = "withdraw"
    /\ probe' = "failed"
    /\ locationSupported' = FALSE
    /\ UNCHANGED <<gameVars, playerSupported, supportState, found, unloading, stage, at, document>>
    /\ NoteChanges

StoreProbeFailed ==
    /\ probe = "failed"
    /\ probe' = "idle"
    /\ supportState' = "probe_failed"
    /\ UNCHANGED <<gameVars, playerSupported, locationSupported, found, unloading, readerVars>>

Probe ==
    \/ BeginProbe \/ StorePlayerSupport \/ StoreSupportState \/ StoreLocationSupport
    \/ WithdrawLocationSupport \/ StoreProbeFailed

\* unregister_player_hooks() before the application is destroyed: no probe
\* begins any more, but one may be running on the game thread.
Unregister ==
    /\ \/ unloading = "no" /\ unloading' = "player" /\ UNCHANGED supportVars
       \/ /\ unloading = "player" /\ unloading' = "location"
          /\ playerSupported' = FALSE /\ UNCHANGED <<locationSupported, supportState>>
       \/ /\ unloading = "location" /\ unloading' = "state"
          /\ locationSupported' = FALSE /\ UNCHANGED <<playerSupported, supportState>>
       \/ /\ unloading = "state" /\ unloading' = "done"
          /\ supportState' = "runtime_initializing"
          /\ UNCHANGED <<playerSupported, locationSupported>>
    /\ UNCHANGED <<gameVars, probe, found, stage, at, document>>
    /\ NoteChanges

-----------------------------------------------------------------------------
(* capabilities_json() on a worker thread *)

\* configured(); a service that is switched off configures none.
IsConfigured(i) == Actions[i] \in Configured

\* advertised()
Advertised(i) == IsConfigured(i) /\ Supports(i)

\* On to the next action, or to the next part of the document.
Proceed(next) ==
    IF at < Len(Actions) THEN at' = at + 1 /\ UNCHANGED stage ELSE at' = 1 /\ stage' = next

ReadSummary ==
    /\ stage = "summary"
    /\ document' = [document EXCEPT !.summary = @ \/ Advertised(at)]
    /\ Proceed("actions")
    /\ UNCHANGED <<gameVars, supportVars, probeVars, changed>>

ReadAction ==
    /\ stage = "actions"
    /\ document' = [document EXCEPT !.actions[at] = Advertised(at)]
    /\ Proceed("diagnostics")
    /\ UNCHANGED <<gameVars, supportVars, probeVars, changed>>

\* unsupported_reason() of the service: the configuration, then supports().
ReadDiagnostic ==
    /\ stage = "diagnostics"
    /\ IF ~IsConfigured(at)
       THEN /\ document' = [document EXCEPT !.diagnostics[at] = "action_configuration_disabled"]
            /\ Proceed("done")
       ELSE IF Supports(at)
       THEN UNCHANGED document /\ Proceed("done")
       ELSE stage' = "reason" /\ UNCHANGED <<at, document>>
    /\ UNCHANGED <<gameVars, supportVars, probeVars, changed>>

\* Mutant of ReasonOf: an empty code is passed on as it is.
ReasonUnchecked(i) == ExecutorReason(i)

\* Mutant of ReasonOf: an empty code is passed on and becomes null.
ReasonOrNull(i) == IF ExecutorReason(i) = "" THEN "null" ELSE ExecutorReason(i)

\* By the time the executor is asked for a reason there may be none any more.
ReasonOf(i) ==
    IF ExecutorReason(i) = "" THEN "runtime_support_unavailable" ELSE ExecutorReason(i)

ReadReason ==
    /\ stage = "reason"
    /\ document' = [document EXCEPT !.diagnostics[at] = ReasonOf(at)]
    /\ IF at < Len(Actions) THEN at' = at + 1 /\ stage' = "diagnostics"
       ELSE at' = 1 /\ stage' = "done"
    /\ UNCHANGED <<gameVars, supportVars, probeVars, changed>>

\* The document is sent, and a client asks for the next one.
Send ==
    /\ stage = "done"
    /\ stage' = "summary" /\ document' = EmptyDocument /\ changed' = {}
    /\ UNCHANGED <<gameVars, supportVars, probeVars, at>>

Next ==
    \/ ChangeGame \/ Probe \/ Unregister
    \/ ReadSummary \/ ReadAction \/ ReadDiagnostic \/ ReadReason \/ Send

Spec == Init /\ [][Next]_vars

\* The engine keeps ticking, probing intervals elapse, and a probe ends.
FairSpec == Spec /\ WF_vars(Probe)

-----------------------------------------------------------------------------
(* Properties *)

States == Members(Prerequisites) \cup {"runtime_initializing", "probe_failed", "ready"}

Diagnostics ==
    States \cup {"null", "action_configuration_disabled", "runtime_support_unavailable"}

Documents ==
    [summary : BOOLEAN, actions : [DOMAIN Actions -> BOOLEAN],
     diagnostics : [DOMAIN Actions -> Diagnostics]]

\* Every variable stays in its range.
TypeOK ==
    /\ lacking \subseteq MayLack /\ throwing \in BOOLEAN
    /\ playerSupported \in BOOLEAN /\ locationSupported \in BOOLEAN
    /\ supportState \in States /\ found \in States
    /\ probe \in {"idle", "player", "state", "location", "withdraw", "failed"}
    /\ unloading \in {"no", "player", "location", "state", "done"}
    /\ stage \in {"summary", "actions", "diagnostics", "reason", "done"}
    /\ at \in DOMAIN Actions /\ changed \subseteq DOMAIN Actions
    /\ document \in Documents

\* docs/CAPABILITIES.md: diagnostics hold "a reason code for each false action
\* and null for an available action".  Each part is loaded on its own, so this
\* can only hold of an action whose support did not change while the document
\* was put together; then it does, also between the stores of a probe.  The
\* same goes for the summary.
TornOnlyByAProbe ==
    stage = "done" =>
        /\ \A i \in DOMAIN Actions \ changed :
              document.actions[i] <=> document.diagnostics[i] = "null"
        /\ changed = {} =>
              (document.summary <=> \E i \in DOMAIN Actions : document.actions[i])

\* Between probes the three atomics tell one story: map teleports are
\* supported exactly in the state "ready", also after a probe that threw, and
\* player teleports are not while their function is what is missing.
SupportAgreesBetweenProbes ==
    probe = "idle" /\ unloading = "no" =>
        /\ locationSupported <=> supportState = "ready"
        /\ supportState = "collision_function" => ~playerSupported
        /\ locationSupported => playerSupported

\* docs/CAPABILITIES.md: "A later successful probe changes the action to true
\* without requiring a Companion restart."
RecoversWithoutRestart ==
    <>[](lacking = {} /\ ~throwing /\ unloading = "no") => <>[]locationSupported

\* docs/CAPABILITIES.md: "A later failed probe withdraws support again."
WithdrawsSupport ==
    <>[]((lacking # {} \/ throwing) /\ unloading = "no") => <>[]~locationSupported
=============================================================================
