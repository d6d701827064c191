------------------------- MODULE CapabilityProbeProofs -------------------------
(***************************************************************************)
(* Proofs about CapabilityProbe for every configuration and every set of   *)
(* prerequisites the game may lack.                                        *)
(***************************************************************************)
EXTENDS CapabilityProbe, TLAPS

-----------------------------------------------------------------------------
(* What the three constant sequences say *)

\* The three actions, of which the last one is the map teleport.
LEMMA ActionFacts ==
    /\ DOMAIN Actions = {1, 2, 3} /\ Len(Actions) = 3
    /\ \A i \in DOMAIN Actions : Actions[i] = Location <=> i = 3
BY DEF Actions, Location

\* What the probe judges names a prerequisite, or nothing that is missing.
LEMMA FirstMissingIsState ==
    ASSUME lacking \subseteq MayLack
    PROVE  FirstMissing \in States
<1>1. CASE lacking = {}
    BY <1>1 DEF FirstMissing, States
<1>2. CASE lacking # {}
    <2>1. DOMAIN Prerequisites = 1..7
        BY DEF Prerequisites
    <2>2. PICK n \in 1..7 : Prerequisites[n] \in lacking
        BY <1>2, <2>1, CapabilityProbeAssumption DEF Members
    <2>. DEFINE First(i) == /\ Prerequisites[i] \in lacking
                            /\ \A j \in 1..(i - 1) : Prerequisites[j] \notin lacking
    <2>3. \E i \in 1..7 : First(i)
        <3>1. \/ First(1) \/ First(2) \/ First(3) \/ First(4) \/ First(5) \/ First(6)
              \/ First(7)
            BY <2>2, SMTT(30)
        <3>. QED BY <3>1
    <2>4. (CHOOSE i \in DOMAIN Prerequisites : First(i)) \in DOMAIN Prerequisites
        BY <2>1, <2>3
    <2>. QED BY <1>2, <2>4 DEF FirstMissing, States, Members
<1>. QED BY <1>1, <1>2

-----------------------------------------------------------------------------
(* Between the stores of a probe *)

\* What a running probe has stored so far, until the application is unloaded:
\* the end of a probe is the only moment at which the three flags must agree.
ProbeStores ==
    unloading = "no" =>
        /\ probe = "idle" => /\ locationSupported <=> supportState = "ready"
                             /\ supportState = "collision_function" => ~playerSupported
                             /\ locationSupported => playerSupported
        /\ probe \in {"state", "location"} => (playerSupported <=> found # "collision_function")
        /\ probe = "location" => supportState = found
        /\ probe = "failed" => ~locationSupported

-----------------------------------------------------------------------------
(* Between the loads of a reader *)

\* The parts of the document that have been put together.
Summarised(i) == stage # "summary" \/ i < at
Listed(i) == stage \in {"diagnostics", "reason", "done"} \/ (stage = "actions" /\ i < at)
Diagnosed(i) == stage = "done" \/ (stage \in {"diagnostics", "reason"} /\ i < at)

\* Of an action whose support has not changed since, every part that has been
\* put together says what the executor says now.
DocumentFollowsSupport ==
    /\ changed = {} =>
          (document.summary <=> \E i \in DOMAIN Actions : Summarised(i) /\ Advertised(i))
    /\ \A i \in DOMAIN Actions \ changed :
          /\ Listed(i) => (document.actions[i] <=> Advertised(i))
          /\ Diagnosed(i) => (document.diagnostics[i] = "null" <=> Advertised(i))
    /\ \A i \in DOMAIN Actions : ~Diagnosed(i) => document.diagnostics[i] = "null"
    /\ stage = "reason" => IsConfigured(at) /\ (at \notin changed => ~Supports(at))
    /\ stage = "done" => at = 1

IInv ==
    /\ TypeOK
    /\ ProbeStores
    /\ DocumentFollowsSupport

-----------------------------------------------------------------------------
(* The game and the probe: the document stays, the support may change *)

\* A step that leaves the reader alone and notes what it changes.
LEMMA SupportStepKeepsDocument ==
    ASSUME TypeOK, DocumentFollowsSupport, UNCHANGED <<stage, at, document>>,
           TypeOK', NoteChanges
    PROVE  DocumentFollowsSupport'
<1>1. \A i \in DOMAIN Actions : i \notin changed' => i \notin changed /\ Supports(i)' = Supports(i)
    BY ActionFacts DEF NoteChanges, Supports, TypeOK
<1>2. changed' = {} => changed = {} /\ \A i \in DOMAIN Actions : Supports(i)' = Supports(i)
    BY <1>1 DEF NoteChanges
<1>3. /\ \A i \in DOMAIN Actions : /\ Summarised(i)' = Summarised(i)
                                   /\ Listed(i)' = Listed(i)
                                   /\ Diagnosed(i)' = Diagnosed(i)
                                   /\ IsConfigured(i)' = IsConfigured(i)
      /\ at' = at /\ stage' = stage /\ document' = document /\ at \in DOMAIN Actions
    BY DEF Summarised, Listed, Diagnosed, IsConfigured, TypeOK
<1>4. \A i \in DOMAIN Actions : Supports(i)' = Supports(i) => Advertised(i)' = Advertised(i)
    BY <1>3 DEF Advertised
<1>5. changed' = {} => (document'.summary <=> \E i \in DOMAIN Actions : Summarised(i)' /\ Advertised(i)')
    BY <1>2, <1>3, <1>4 DEF DocumentFollowsSupport
<1>. QED BY <1>1, <1>3, <1>4, <1>5 DEF DocumentFollowsSupport

\* A step that changes neither the support nor the document.
LEMMA NoSupportStep ==
    ASSUME TypeOK, changed' = changed, supportVars' = supportVars
    PROVE  NoteChanges
BY DEF NoteChanges, supportVars, TypeOK

\* A step of the game or of a probe.
LEMMA WriterKeepsInv ==
    ASSUME IInv, ChangeGame \/ Probe \/ Unregister
    PROVE  IInv'
<1>1. UNCHANGED <<stage, at, document>>
    BY DEF ChangeGame, Probe, BeginProbe, StorePlayerSupport, StoreSupportState,
       StoreLocationSupport, WithdrawLocationSupport, StoreProbeFailed, Unregister,
       readerVars
<1>2. NoteChanges
    <2>1. CASE ChangeGame \/ BeginProbe
        BY <2>1, NoSupportStep DEF ChangeGame, BeginProbe, readerVars, IInv
    <2>2. CASE StoreSupportState \/ StoreProbeFailed
        BY <2>2 DEF StoreSupportState, StoreProbeFailed, NoteChanges, readerVars, IInv,
           TypeOK
    <2>. QED BY <2>1, <2>2 DEF Probe, StorePlayerSupport, StoreLocationSupport,
       WithdrawLocationSupport, Unregister
<1>3. changed' \subseteq DOMAIN Actions
    BY <1>2, ActionFacts DEF NoteChanges, IInv, TypeOK
<1>4. TypeOK'
    <2>1. CASE ChangeGame
        BY <2>1, <1>1, <1>3 DEF ChangeGame, supportVars, probeVars, IInv, TypeOK
    <2>2. CASE BeginProbe
        BY <2>2, <1>1, <1>3, FirstMissingIsState DEF BeginProbe, gameVars, supportVars,
           IInv, TypeOK
    <2>3. CASE StorePlayerSupport \/ StoreSupportState \/ StoreLocationSupport
        BY <2>3, <1>1, <1>3 DEF StorePlayerSupport, StoreSupportState,
           StoreLocationSupport, gameVars, IInv, TypeOK
    <2>4. CASE WithdrawLocationSupport \/ StoreProbeFailed
        BY <2>4, <1>1, <1>3 DEF WithdrawLocationSupport, StoreProbeFailed, gameVars, IInv,
           TypeOK, States
    <2>5. CASE Unregister
        BY <2>5, <1>1, <1>3 DEF Unregister, gameVars, supportVars, IInv, TypeOK, States
    <2>. QED BY <2>1, <2>2, <2>3, <2>4, <2>5 DEF Probe
<1>5. ProbeStores'
    <2>1. CASE ChangeGame
        BY <2>1 DEF ChangeGame, supportVars, probeVars, IInv, ProbeStores
    <2>2. CASE BeginProbe
        BY <2>2 DEF BeginProbe, supportVars, IInv, ProbeStores
    <2>3. CASE StorePlayerSupport \/ StoreSupportState
        BY <2>3 DEF StorePlayerSupport, StoreSupportState, IInv, ProbeStores
    <2>4. CASE StoreLocationSupport
        BY <2>4 DEF StoreLocationSupport, IInv, ProbeStores, TypeOK
    <2>5. CASE WithdrawLocationSupport \/ StoreProbeFailed
        BY <2>5 DEF WithdrawLocationSupport, StoreProbeFailed, IInv, ProbeStores
    <2>6. CASE Unregister
        BY <2>6 DEF Unregister, ProbeStores, IInv, TypeOK
    <2>. QED BY <2>1, <2>2, <2>3, <2>4, <2>5, <2>6 DEF Probe
<1>6. DocumentFollowsSupport'
    BY <1>1, <1>2, <1>4, SupportStepKeepsDocument DEF IInv
<1>. QED BY <1>4, <1>5, <1>6 DEF IInv

-----------------------------------------------------------------------------
(* The reader: the support stays, the document grows *)

\* What a step of the reader leaves alone.
LEMMA ReaderKeepsRest ==
    ASSUME IInv, UNCHANGED <<gameVars, supportVars, probeVars>>
    PROVE  /\ ProbeStores'
           /\ \A i \in DOMAIN Actions : /\ Supports(i)' = Supports(i)
                                       /\ Advertised(i)' = Advertised(i)
                                       /\ IsConfigured(i)' = IsConfigured(i)
BY DEF gameVars, supportVars, probeVars, ProbeStores, IInv, Supports, Advertised,
   IsConfigured

\* The summary is one step further.
LEMMA ReadSummaryKeepsInv ==
    ASSUME IInv, ReadSummary
    PROVE  IInv'
<1>1. /\ at \in {1, 2, 3} /\ document \in Documents /\ Advertised(at) \in BOOLEAN
      /\ stage = "summary" /\ changed' = changed
      /\ document' = [document EXCEPT !.summary = @ \/ Advertised(at)]
      /\ \/ at < 3 /\ at' = at + 1 /\ stage' = stage
         \/ at = 3 /\ at' = 1 /\ stage' = "actions"
    BY ActionFacts DEF ReadSummary, Proceed, IInv, TypeOK, Advertised, IsConfigured
<1>2. /\ document' \in Documents
      /\ document'.summary <=> document.summary \/ Advertised(at)
      /\ document'.actions = document.actions
      /\ document'.diagnostics = document.diagnostics
    BY <1>1 DEF Documents
<1>3. UNCHANGED <<gameVars, supportVars, probeVars>>
    BY DEF ReadSummary
<1>4. TypeOK'
    BY <1>1, <1>2, <1>3, ActionFacts DEF IInv, TypeOK, gameVars, supportVars, probeVars
<1>5. DocumentFollowsSupport'
    BY <1>1, <1>2, <1>3, ReaderKeepsRest, ActionFacts DEF IInv, DocumentFollowsSupport,
       Summarised, Listed, Diagnosed
<1>. QED BY <1>3, <1>4, <1>5, ReaderKeepsRest DEF IInv

\* One more action is listed.
LEMMA ReadActionKeepsInv ==
    ASSUME IInv, ReadAction
    PROVE  IInv'
<1>1. /\ at \in {1, 2, 3} /\ document \in Documents /\ Advertised(at) \in BOOLEAN
      /\ stage = "actions" /\ changed' = changed
      /\ document' = [document EXCEPT !.actions[at] = Advertised(at)]
      /\ \/ at < 3 /\ at' = at + 1 /\ stage' = stage
         \/ at = 3 /\ at' = 1 /\ stage' = "diagnostics"
    BY ActionFacts DEF ReadAction, Proceed, IInv, TypeOK, Advertised, IsConfigured
<1>2. /\ document' \in Documents
      /\ document'.summary = document.summary
      /\ document'.actions[at] = Advertised(at)
      /\ \A i \in {1, 2, 3} \ {at} : document'.actions[i] = document.actions[i]
      /\ document'.diagnostics = document.diagnostics
    BY <1>1, ActionFacts DEF Documents
<1>3. UNCHANGED <<gameVars, supportVars, probeVars>>
    BY DEF ReadAction
<1>4. TypeOK'
    BY <1>1, <1>2, <1>3, ActionFacts DEF IInv, TypeOK, gameVars, supportVars, probeVars
<1>5. DocumentFollowsSupport'
    BY <1>1, <1>2, <1>3, ReaderKeepsRest, ActionFacts DEF IInv, DocumentFollowsSupport,
       Summarised, Listed, Diagnosed
<1>. QED BY <1>3, <1>4, <1>5, ReaderKeepsRest DEF IInv

\* One more diagnostic is settled, or the executor is asked for a reason.
LEMMA ReadDiagnosticKeepsInv ==
    ASSUME IInv, ReadDiagnostic
    PROVE  IInv'
<1>1. /\ at \in {1, 2, 3} /\ document \in Documents
      /\ stage = "diagnostics" /\ changed' = changed
      /\ \/ /\ ~IsConfigured(at)
            /\ document' = [document EXCEPT !.diagnostics[at] = "action_configuration_disabled"]
            /\ Proceed("done")
         \/ IsConfigured(at) /\ Supports(at) /\ document' = document /\ Proceed("done")
         \/ /\ IsConfigured(at) /\ ~Supports(at) /\ document' = document
            /\ at' = at /\ stage' = "reason"
    BY ActionFacts DEF ReadDiagnostic, IInv, TypeOK
<1>2. Proceed("done") =>
        \/ at < 3 /\ at' = at + 1 /\ stage' = "diagnostics"
        \/ at = 3 /\ at' = 1 /\ stage' = "done"
    BY <1>1, ActionFacts DEF Proceed
<1>3. UNCHANGED <<gameVars, supportVars, probeVars>>
    BY DEF ReadDiagnostic
<1>4. /\ document' \in Documents /\ document'.summary = document.summary
      /\ document'.actions = document.actions
      /\ \A i \in {1, 2, 3} \ {at} : document'.diagnostics[i] = document.diagnostics[i]
      /\ \/ ~IsConfigured(at) /\ document'.diagnostics[at] = "action_configuration_disabled"
         \/ IsConfigured(at) /\ document'.diagnostics[at] = document.diagnostics[at]
    <2>1. "action_configuration_disabled" \in Diagnostics
        BY DEF Diagnostics
    <2>2. CASE ~IsConfigured(at)
        BY <1>1, <2>1, <2>2, ActionFacts DEF Documents
    <2>3. CASE IsConfigured(at)
        BY <1>1, <2>3
    <2>. QED BY <2>2, <2>3
<1>5. TypeOK'
    BY <1>1, <1>2, <1>3, <1>4, ActionFacts DEF IInv, TypeOK, gameVars, supportVars,
       probeVars
<1>6. DocumentFollowsSupport'
    <2>1. CASE ~IsConfigured(at)
        <3>1. ~IsConfigured(at) => ~Advertised(at)
            BY DEF Advertised
        <3>2. /\ document'.diagnostics[at] # "null"
              /\ \/ at < 3 /\ at' = at + 1 /\ stage' = "diagnostics"
                 \/ at = 3 /\ at' = 1 /\ stage' = "done"
            BY <1>1, <1>2, <1>4, <2>1 DEF IInv, DocumentFollowsSupport
        <3>. QED BY <2>1, <3>1, <3>2, <1>1, <1>3, <1>4, ReaderKeepsRest, ActionFacts
           DEF IInv, DocumentFollowsSupport, Summarised, Listed, Diagnosed
    <2>2. CASE IsConfigured(at) /\ Supports(at)
        <3>1. Advertised(at)
            BY <2>2 DEF Advertised
        <3>. QED BY <2>2, <3>1, <1>1, <1>2, <1>3, <1>4, ReaderKeepsRest, ActionFacts DEF IInv,
           DocumentFollowsSupport, Summarised, Listed, Diagnosed
    <2>3. CASE IsConfigured(at) /\ ~Supports(at)
        BY <2>3, <1>1, <1>3, ReaderKeepsRest, ActionFacts DEF IInv,
           DocumentFollowsSupport, Summarised, Listed, Diagnosed
    <2>. QED BY <2>1, <2>2, <2>3
<1>. QED BY <1>3, <1>5, <1>6, ReaderKeepsRest DEF IInv

\* The reason is a reason: it is never the null of an available action.
LEMMA ReadReasonKeepsInv ==
    ASSUME IInv, ReadReason
    PROVE  IInv'
<1>1. /\ at \in {1, 2, 3} /\ document \in Documents
      /\ stage = "reason" /\ changed' = changed
      /\ document' = [document EXCEPT !.diagnostics[at] = ReasonOf(at)]
      /\ \/ at < 3 /\ at' = at + 1 /\ stage' = "diagnostics"
         \/ at = 3 /\ at' = 1 /\ stage' = "done"
    BY ActionFacts DEF ReadReason, IInv, TypeOK
<1>2. ReasonOf(at) \in Diagnostics /\ ReasonOf(at) # "null"
    <2>1. supportState \in States /\ "collision_function" \in States
        BY DEF IInv, TypeOK, States, Members, Prerequisites
    <2>2. "null" \notin States
        BY DEF States, Members, Prerequisites
    <2>. QED BY <2>1, <2>2 DEF ReasonOf, ExecutorReason, Diagnostics
<1>3. UNCHANGED <<gameVars, supportVars, probeVars>>
    BY DEF ReadReason
<1>4. /\ document' \in Documents /\ document'.summary = document.summary
      /\ document'.actions = document.actions
      /\ \A i \in {1, 2, 3} \ {at} : document'.diagnostics[i] = document.diagnostics[i]
      /\ document'.diagnostics[at] # "null"
    BY <1>1, <1>2, ActionFacts DEF Documents
<1>5. TypeOK'
    BY <1>1, <1>3, <1>4, ActionFacts DEF IInv, TypeOK, gameVars, supportVars, probeVars
<1>6. at \notin changed => ~Advertised(at)
    BY <1>1 DEF IInv, DocumentFollowsSupport, Advertised
<1>7. DocumentFollowsSupport'
    BY <1>1, <1>3, <1>4, <1>6, ReaderKeepsRest, ActionFacts DEF IInv,
       DocumentFollowsSupport, Summarised, Listed, Diagnosed
<1>. QED BY <1>3, <1>5, <1>7, ReaderKeepsRest DEF IInv

\* The next document starts empty.
LEMMA SendKeepsInv ==
    ASSUME IInv, Send
    PROVE  IInv'
<1>1. /\ stage' = "summary" /\ at = 1 /\ at' = 1 /\ changed' = {}
      /\ document' = EmptyDocument
    BY DEF Send, IInv, DocumentFollowsSupport
<1>2. /\ EmptyDocument \in Documents /\ ~EmptyDocument.summary
      /\ \A i \in {1, 2, 3} : EmptyDocument.diagnostics[i] = "null"
    BY ActionFacts DEF EmptyDocument, Documents, Diagnostics
<1>3. UNCHANGED <<gameVars, supportVars, probeVars>>
    BY DEF Send
<1>4. TypeOK'
    BY <1>1, <1>2, <1>3, ActionFacts DEF IInv, TypeOK, gameVars, supportVars, probeVars
<1>5. DocumentFollowsSupport'
    BY <1>1, <1>2, ActionFacts DEF DocumentFollowsSupport, Summarised, Listed, Diagnosed
<1>. QED BY <1>3, <1>4, <1>5, ReaderKeepsRest DEF IInv

-----------------------------------------------------------------------------
(* The theorems *)

\* The initial state.
LEMMA InitHasInv == Init => IInv
<1>. SUFFICES ASSUME Init PROVE IInv
    OBVIOUS
<1>1. /\ EmptyDocument \in Documents /\ ~EmptyDocument.summary
      /\ \A i \in {1, 2, 3} : EmptyDocument.diagnostics[i] = "null"
    BY ActionFacts DEF EmptyDocument, Documents, Diagnostics
<1>2. TypeOK
    BY <1>1, ActionFacts DEF Init, TypeOK, States
<1>3. ProbeStores
    BY DEF Init, ProbeStores
<1>4. DocumentFollowsSupport
    BY <1>1, ActionFacts DEF Init, DocumentFollowsSupport, Summarised, Listed, Diagnosed
<1>. QED BY <1>2, <1>3, <1>4 DEF IInv

\* The inductive invariant holds in every reachable state.
THEOREM InvariantHolds == Spec => []IInv
<1>1. ASSUME IInv, [Next]_vars PROVE IInv'
    <2>1. CASE UNCHANGED vars
        <3>1. TypeOK' /\ ProbeStores'
            BY <1>1, <2>1 DEF vars, gameVars, supportVars, probeVars, readerVars, IInv,
               TypeOK, ProbeStores
        <3>2. NoteChanges /\ UNCHANGED <<stage, at, document>>
            BY <1>1, <2>1, NoSupportStep DEF vars, readerVars, IInv
        <3>. QED BY <1>1, <3>1, <3>2, SupportStepKeepsDocument DEF IInv
    <2>. QED BY <1>1, <2>1, WriterKeepsInv, ReadSummaryKeepsInv, ReadActionKeepsInv,
       ReadDiagnosticKeepsInv, ReadReasonKeepsInv, SendKeepsInv DEF Next
<1>. QED BY <1>1, InitHasInv, PTL DEF Spec

\* Every variable stays in its range, whatever the game lacks and whenever
\* looking for it throws: every diagnostic is null or a reason code.
THEOREM TypeCorrect == Spec => []TypeOK
<1>1. IInv => TypeOK
    BY DEF IInv
<1>. QED BY InvariantHolds, <1>1, PTL

\* The flags agree whenever no probe is running, although they are stored one
\* after the other and a probe may throw half-way.
THEOREM SupportAgrees == Spec => []SupportAgreesBetweenProbes
<1>1. IInv => SupportAgreesBetweenProbes
    BY DEF IInv, ProbeStores, SupportAgreesBetweenProbes
<1>. QED BY InvariantHolds, <1>1, PTL

\* A capability document contradicts itself only about an action whose support
\* changed while it was being put together.
THEOREM OnlyAProbeTears == Spec => []TornOnlyByAProbe
<1>1. IInv => TornOnlyByAProbe
    <2>. SUFFICES ASSUME IInv, stage = "done" PROVE TornOnlyByAProbe
        BY DEF TornOnlyByAProbe
    <2>1. \A i \in DOMAIN Actions : Summarised(i) /\ Listed(i) /\ Diagnosed(i)
        BY DEF Summarised, Listed, Diagnosed
    <2>2. \A i \in DOMAIN Actions \ changed :
              (document.actions[i] <=> Advertised(i)) /\
              (document.diagnostics[i] = "null" <=> Advertised(i))
        BY <2>1 DEF IInv, DocumentFollowsSupport
    <2>3. changed = {} => (document.summary <=> \E i \in DOMAIN Actions : Advertised(i))
        BY <2>1 DEF IInv, DocumentFollowsSupport
    <2>. QED BY <2>2, <2>3 DEF TornOnlyByAProbe
<1>. QED BY InvariantHolds, <1>1, PTL
=============================================================================
