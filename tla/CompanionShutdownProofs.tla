------------------------ MODULE CompanionShutdownProofs ------------------------
(***************************************************************************)
(* Proofs about CompanionShutdown, on top of the invariant of the service  *)
(* (AdminActionsProofs): the lifecycle only restricts when the service     *)
(* runs, and shutdown() returns to a caller that nothing will disturb.     *)
(***************************************************************************)
EXTENDS CompanionShutdown, AdminActionsProofs

-----------------------------------------------------------------------------
(* The application runs the service as it is *)

\* A step of the application is a step of the service, or none.
LEMMA LifecycleStepIsStep == [LifecycleNext]_lifecycleVars => [Next]_vars
<1>. SUFFICES ASSUME [LifecycleNext]_lifecycleVars PROVE [Next]_vars
    OBVIOUS
<1>1. CASE Initialize \/ ListenerEnds \/ StopListener \/ JoinListener
    BY <1>1 DEF Initialize, ListenerEnds, StopListener, JoinListener
<1>2. ASSUME NEW c \in Calls, Serve(c) PROVE Next
    BY <1>2 DEF Serve, Next
<1>3. CASE Tick \/ ContinueTick \/ BeginShutdown \/ Answer
    BY <1>3 DEF Tick, ContinueTick, BeginShutdown, Answer, Next
<1>4. CASE UNCHANGED lifecycleVars
    BY <1>4 DEF lifecycleVars
<1>. QED BY <1>1, <1>2, <1>3, <1>4 DEF LifecycleNext

\* Whatever AdminActions promises of any schedule of its threads holds in the
\* running application too.
THEOREM LifecycleRunsService == LifecycleSpec => Spec
<1>1. LifecycleInit => Init
    BY DEF LifecycleInit
<1>. QED BY <1>1, LifecycleStepIsStep, PTL DEF LifecycleSpec, Spec

-----------------------------------------------------------------------------
(* The inductive invariant *)

\* How far shutdown() has come, and what it has made sure of by then.
Shutdown ==
    /\ app \in {"stopping", "stopped"} => stopping
    /\ listener = "stopped" \/ app = "stopped" => stopping /\ abandoned = <<>>
    /\ app = "stopped" =>
          /\ listener = "none"
          /\ \A c \in Calls : pc[c] \in {"idle", "done"}

LInv == IInv /\ Shutdown /\ OneLife

-----------------------------------------------------------------------------

\* The states shutdown() has returned in are those of a service at rest.
LEMMA StepKeepsShutdown ==
    ASSUME LInv, [LifecycleNext]_lifecycleVars
    PROVE  Shutdown'
<1>. USE DEF LInv, Shutdown
<1>1. CASE Initialize
    BY <1>1 DEF Initialize, vars, stopVars
<1>2. CASE ListenerEnds
    BY <1>2 DEF ListenerEnds, vars, stopVars, callVars
<1>3. ASSUME NEW c \in Calls, Serve(c) PROVE Shutdown'
    <2>1. app # "stopped"
        <3>1. pc[c] # "done"
            BY <1>3 DEF Serve, Handle, RejectUnauthenticated, RejectMalformed, Parse,
               RejectConflict, JoinOriginal, Admit, RefuseDisabled, RefuseUnsupported,
               PassGates, Accept, RefuseUnaudited, Enqueue, RefuseStopping, Answered,
               TimeOut, ReplayAnswer, AuditReply
        <3>. QED BY <1>3, <3>1 DEF Serve
    <2>2. UNCHANGED <<stopVars, app, listener>>
        BY <1>3 DEF Serve, Handle, RejectUnauthenticated, RejectMalformed, Parse,
           RejectConflict, JoinOriginal, Admit, RefuseDisabled, RefuseUnsupported,
           PassGates, Accept, RefuseUnaudited, Enqueue, RefuseStopping, Refuse,
           Answered, TimeOut, ReplayAnswer, AuditReply
    <2>. QED BY <2>1, <2>2 DEF stopVars
<1>4. CASE Tick
    BY <1>4 DEF Tick, BeginTick, stopVars, callVars
<1>5. CASE ContinueTick
    BY <1>5 DEF ContinueTick, GameThread, EndTick, Pop, Skip, Claim, Execute, Publish,
       stopVars, callVars
<1>6. CASE BeginShutdown
    BY <1>6 DEF BeginShutdown, StopAccepting
<1>7. CASE Answer
    BY <1>7 DEF Answer, AnswerAbandoned, callVars
<1>8. CASE StopListener
    BY <1>8 DEF StopListener, vars, stopVars
<1>9. CASE JoinListener
    BY <1>9 DEF JoinListener, vars, stopVars, callVars
<1>10. CASE UNCHANGED lifecycleVars
    BY <1>10 DEF lifecycleVars, vars, stopVars, callVars
<1>. QED BY <1>1, <1>2, <1>3, <1>4, <1>5, <1>6, <1>7, <1>8, <1>9, <1>10 DEF LifecycleNext

\* The invariant holds in every reachable state of the application.
THEOREM LifecycleInvariantHolds == LifecycleSpec => []LInv
<1>1. LifecycleInit => LInv
    <2>1. LifecycleInit => IInv
        BY InitHasInv DEF LifecycleInit
    <2>. QED BY <2>1, InitHasOneLife DEF LifecycleInit, Init, LInv, Shutdown
<1>2. LInv /\ [LifecycleNext]_lifecycleVars => LInv'
    BY LifecycleStepIsStep, NextKeepsInv, StepKeepsShutdown, NextKeepsOneLife DEF LInv
<1>. QED BY <1>1, <1>2, PTL DEF LifecycleSpec

-----------------------------------------------------------------------------
(* What shutdown() promises its caller *)

\* After shutdown() has returned, the game thread claims nothing and moves no
\* character, even if it was inside process_pending() all along: the entry in
\* its hands was answered before the last worker thread ended.
THEOREM NothingRunsAfterwards == LifecycleSpec => NothingRunsAfterShutdown
<1>. DEFINE Still == app = "stopped" =>
                /\ runs' = runs
                /\ \A c \in Calls : shared'[c].claimed => shared[c].claimed
<1>1. ASSUME LInv, [LifecycleNext]_lifecycleVars PROVE [Still]_lifecycleVars
    <2>. SUFFICES ASSUME app = "stopped", LifecycleNext PROVE Still
        BY <1>1
    <2>. USE DEF LInv, Shutdown
    <2>1. listener = "none" /\ stopping /\ abandoned = <<>>
          /\ \A c \in Calls : pc[c] \in {"idle", "done"}
        BY <1>1
    <2>2. ASSUME NEW c \in Calls, Serve(c) PROVE FALSE
        BY <2>1, <2>2 DEF Serve, Handle, RejectUnauthenticated, RejectMalformed, Parse,
           RejectConflict, JoinOriginal, Admit, RefuseDisabled, RefuseUnsupported,
           PassGates, Accept, RefuseUnaudited, Enqueue, RefuseStopping, Answered,
           TimeOut, ReplayAnswer, AuditReply
    <2>3. CASE ContinueTick
        <3>1. gpc \in {"claim", "execute"} => shared[current].response # None
            BY <1>1, <2>1 DEF IInv, InHand, Dispatched, WellFormed
        <3>2. gpc # "execute"
            BY <1>1, <3>1 DEF IInv, InHand
        <3>3. CASE EndTick \/ Pop \/ Skip
            BY <3>3 DEF EndTick, Pop, Skip
        <3>4. CASE Publish
            <4>1. /\ shared \in [Cells -> SharedResults]
                  /\ current \in Calls
                BY <1>1, <3>4 DEF IInv, TypeOK, WellFormed, Publish
            <4>2. \A c \in Calls : shared'[c].claimed = shared[c].claimed
                BY <3>4, <4>1 DEF Publish, Complete, SharedResults, Cells
            <4>. QED BY <3>4, <4>2 DEF Publish
        <3>. QED BY <2>3, <3>1, <3>2, <3>3, <3>4 DEF ContinueTick, GameThread, Claim, Execute
    <2>4. CASE ListenerEnds \/ StopListener \/ JoinListener \/ Initialize
        BY <2>4 DEF ListenerEnds, StopListener, JoinListener, Initialize, vars
    <2>5. CASE Tick \/ BeginShutdown \/ Answer
        BY <2>5 DEF Tick, BeginShutdown, Answer
    <2>. QED BY <2>2, <2>3, <2>4, <2>5 DEF LifecycleNext
<1>. QED BY <1>1, LifecycleInvariantHolds, PTL DEF LifecycleSpec, NothingRunsAfterShutdown

\* When shutdown() has returned, no entry is left in a queue and every request
\* that entered the ledger has its answer.
THEOREM NothingIsLeftOpen == LifecycleSpec => []ShutdownLeavesNothingOpen
<1>1. LInv => ShutdownLeavesNothingOpen
    <2>. SUFFICES ASSUME LInv, app = "stopped" PROVE
              /\ pending = <<>> /\ abandoned = <<>>
              /\ \A c \in Calls : cell[c] # None => shared[cell[c]].response # None
        BY DEF ShutdownLeavesNothingOpen
    <2>1. pending = <<>> /\ abandoned = <<>>
        BY DEF LInv, Shutdown, IInv, QueuesHoldUnstarted
    <2>2. ASSUME NEW c \in Calls, cell[c] # None
          PROVE  shared[cell[c]].response # None
        <3>1. pc[c] = "done"
            BY <2>2 DEF LInv, Shutdown, IInv, CellsOwned, OwnsCell
        <3>. QED BY <2>2, <3>1 DEF LInv, OneLife
    <2>. QED BY <2>1, <2>2
<1>. QED BY LifecycleInvariantHolds, <1>1, PTL
=============================================================================
