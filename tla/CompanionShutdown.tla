--------------------------- MODULE CompanionShutdown ---------------------------
(***************************************************************************)
(* CompanionApplication (src/src/application.cpp) around the service of    *)
(* AdminActions: initialize() starts the HTTP listener, engine ticks reach *)
(* the service through the application, shutdown() stops the service, then *)
(* the listener, and waits for the worker threads inside handle().         *)
(*                                                                         *)
(* shutdown() holds lifecycle_mutex_ from its first step to its last; a    *)
(* tick takes it only to copy the pointer to the service, so that a tick   *)
(* that has begun goes on beside a shutdown, and none begins during it.    *)
(***************************************************************************)
EXTENDS AdminActions

VARIABLES
    app,      \* what initialize() and shutdown() have made of the application
    listener  \* the listener thread and its socket

lifecycleVars == <<vars, app, listener>>

LifecycleInit == Init /\ app = "new" /\ listener = "none"

-----------------------------------------------------------------------------
(* initialize() *)

\* Only the first call does anything: the configuration disables the companion
\* or an exception is caught ("failed"), the address cannot be bound and the
\* service is left without a listener ("unreachable"), or the listener starts.
Initialize ==
    /\ app = "new"
    /\ \/ app' = "failed" /\ UNCHANGED listener
       \/ app' = "unreachable" /\ UNCHANGED listener
       \/ app' = "running" /\ listener' = "open"
    /\ UNCHANGED vars

\* The listener thread ends on its own; is_running() turns false and nothing
\* else notices.
ListenerEnds ==
    /\ listener = "open"
    /\ listener' = "ended"
    /\ UNCHANGED <<vars, app>>

-----------------------------------------------------------------------------
(* The threads while the application lives *)

\* The HTTP library (external) starts a call only while it listens, and lets
\* the ones it has started finish.
Serve(c) ==
    /\ pc[c] = "idle" => listener = "open"
    /\ Handle(c)
    /\ UNCHANGED <<app, listener>>

\* process_pending_admin_actions(): needs the lifecycle mutex, and a service.
Tick ==
    /\ app \in {"unreachable", "running"}
    /\ BeginTick
    /\ UNCHANGED <<app, listener>>

ContinueTick == GameThread /\ UNCHANGED <<app, listener>>

-----------------------------------------------------------------------------
(* shutdown() *)

\* Without a listener shutdown() does nothing, not even to the service.
BeginShutdown ==
    /\ app = "running"
    /\ app' = "stopping"
    /\ StopAccepting
    /\ UNCHANGED listener

Answer == app = "stopping" /\ AnswerAbandoned /\ UNCHANGED <<app, listener>>

StopListener ==
    /\ app = "stopping" /\ abandoned = <<>> /\ listener \in {"open", "ended"}
    /\ listener' = "stopped"
    /\ UNCHANGED <<vars, app>>

\* Mutant of JoinListener: the worker threads are not waited for.
DetachListener ==
    /\ listener = "stopped"
    /\ listener' = "none" /\ app' = "stopped"
    /\ UNCHANGED vars

\* The listener thread returns when the last worker has; then the session
\* tracker, the activity buffer and the service are released.
JoinListener ==
    /\ listener = "stopped"
    /\ \A c \in Calls : pc[c] \in {"idle", "done"}
    /\ listener' = "none" /\ app' = "stopped"
    /\ UNCHANGED vars

LifecycleNext ==
    \/ Initialize \/ ListenerEnds
    \/ \E c \in Calls : Serve(c)
    \/ Tick \/ ContinueTick
    \/ BeginShutdown \/ Answer \/ StopListener \/ JoinListener

LifecycleSpec == LifecycleInit /\ [][LifecycleNext]_lifecycleVars

\* The fairness of AdminActions, and a shutdown that keeps running once called.
\* Nothing makes anybody call it, and nothing makes the game thread tick.
LifecycleFairSpec ==
    /\ LifecycleSpec
    /\ \A c \in Calls : WF_lifecycleVars(pc[c] # "idle" /\ Serve(c))
    /\ WF_lifecycleVars(ContinueTick)
    /\ WF_lifecycleVars(Answer \/ StopListener \/ JoinListener)

-----------------------------------------------------------------------------
(* Properties *)

\* Once shutdown() has returned, the adapter and the application may be
\* destroyed: the game thread, which may still be inside process_pending(),
\* claims no entry and moves no character any more.
NothingRunsAfterShutdown ==
    [][app = "stopped" =>
            /\ runs' = runs
            /\ \A c \in Calls : shared'[c].claimed => shared[c].claimed]_lifecycleVars

\* shutdown() leaves nobody behind: every queue is empty, and every request
\* that ever entered the ledger has an answer for whoever repeats it.
ShutdownLeavesNothingOpen ==
    app = "stopped" =>
        /\ pending = <<>> /\ abandoned = <<>>
        /\ \A c \in Calls : cell[c] # None => shared[cell[c]].response # None

\* shutdown() returns, although it holds the mutex every tick begins with and
\* waits for workers that wait for the game thread: what it left in the game
\* thread's hands is finished without the mutex, and the rest has a deadline.
ShutdownReturns == app = "stopping" ~> app = "stopped"
=============================================================================
