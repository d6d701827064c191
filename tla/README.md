# A TLA+ model of PalCenter Companion

PalCenter Companion is a native extension of the Palworld dedicated server. It
follows players through Unreal hooks on the game thread and serves what it knows
over an embedded HTTP listener; an administrator's client can also ask it to
teleport players, which an HTTP worker thread hands over to the game thread.
This directory holds the specifications of that behaviour, the TLC runs that
check them on small instances, and the proofs TLAPS checks for every instance.

Paths are relative to the repository: `src/` below stands for its `src/`
directory, `extension/` for its `extension/` directory.

## 1. Inventory

| part | state it keeps | operations | module |
| --- | --- | --- | --- |
| admin action service, `src/admin_actions.cpp` | `idempotency_`, `idempotency_order_`, `pending_`, `stopping_`, one `SharedResult` per request (`response`, `claimed`, `cancelled`) | `handle` (worker threads), `process_pending` (game thread), `shutdown` | `AdminActions` |
| audit journal, same file | `PalCenterCompanion.teleport-audit.jsonl` and its backup `.1` | `audit`, rotation, `load_idempotency_records` | `AuditLog`, `AdminActionsRestart` |
| request validation, `src/admin_actions.cpp` | none | `parse_request` | `TeleportExecution` |
| teleport execution, `extension/dllmain.cpp` | none of its own (reads `active_players_`) | `find_online_player`, `execute_teleport` | `TeleportExecution`; one step of `AdminActions` |
| player hooks, `extension/dllmain.cpp` | `pending_joins_`, `active_players_`, sampling time | BeginPlay, EndPlay, K2_OnLogout, engine tick | `PlayerTracking` |
| location store, `src/player_location.cpp` | `locations_` | `update`, `remove`, `current` | `PlayerTracking` |
| session tracker and activity buffer, `src/player_activity.cpp` | `active_sessions_`, `records_`, `event_ids_` | `player_joined`, `player_left`, `publish`, `query` | `ActivityFeed` |
| application lifecycle, `src/application.cpp` | the owned parts, `initialization_attempted_`, `lifecycle_mutex_` | `initialize`, `process_pending_admin_actions`, `shutdown` | `CompanionShutdown` |
| HTTP server, `src/http_server.cpp` | the listener thread, `running_` | `start`, `stop`, the routes | `CompanionShutdown`, `ActivityFeed` |
| capability document and support probe | `player_teleport_supported_`, `location_teleport_supported_`, `location_support_state_` | `capabilities_json`, `probe_admin_action_support` | `CapabilityProbe` |
| configuration, `src/config.cpp` | an ini file | `load_config` | `Configuration` |
| authentication, instance identity | the token file and the identifier file | load or create | `ExtensionLifecycle` |
| extension object, `extension/dllmain.cpp` | `application_`, `hooks_registered_`, four hook handles | `on_unreal_init`, the destructor, registration and removal of hooks | `ExtensionLifecycle` |

**Who talks to whom.** HTTP worker threads call `handle`, which waits on a
condition variable; the game thread calls `process_pending` from the engine tick,
runs the executor and completes the cell the worker waits on. The lifecycle
thread calls `initialize` once and `shutdown`, which holds the lifecycle mutex
until the listener thread, and with it every worker, has ended. The hooks of the
extension run on the game thread one after the other and drive the session
tracker and the location store through the application; HTTP workers read both
stores under the stores' own mutexes.

**What is hard.** The three-way race for one request between its caller's
deadline, the game thread and the shutdown; repeats of a request that arrive
before, during and after it; a crash between any two journal lines; the rotation
of the journal and the eviction of ledger entries that are still in use; a
shutdown that waits for threads that wait for the game thread; the order in
which the game ends actors to which the extension keeps raw pointers; a teleport
executed on players who have come and gone since it was accepted; polls that fall
between two records of one session event; a start that stops between two of its
steps, and what the next one finds on disk. `PROJECT.json` lists each hazard
with its line and the properties aimed at it.

## 2. The modules

```text
AuditLog                    a journal as a value: write, fail, rotate, load
  AdminActions              the service: handle, process_pending, shutdown
    AdminActionsRestart     the service over several lives of the process,
                            with a history of what it had to forget
    CompanionShutdown       the application and the listener around the service
    AdminActionsProofs      theorems about AdminActions, its ledger, its journal
                            and the promise
      AdminActionsRestartProofs  theorems about AdminActionsRestart
      CompanionShutdownProofs    theorems about CompanionShutdown
AdminActionPromise          what a client may rely on; AdminActions implements it
Selection                   the elements of a sequence that belong to a set
  SelectionProofs           what that keeps, for every sequence and set
PlayerTracking              hooks, join queue, active players, sessions, locations
  TeleportExecution         requests, validated, executed on those players
    PlayerTrackingProofs    theorems about both
ActivityFeed                session tracker, activity buffer, polling clients
  ActivityFeedProofs        theorems about ActivityFeed
Configuration               the configuration file, read line by line
  ExtensionLifecycle        start, credentials, hooks, removal, over many processes
    ExtensionLifecycleProofs    theorems about both
CapabilityProbe             the support probe and the capability document
  CapabilityProbeProofs     theorems about CapabilityProbe
MC*                         the instances TLC checks
```

### AdminActions

A call `c` is one execution of `handle()`; `pc[c]` says where it is.

| code | actions |
| --- | --- |
| bearer check of the route, `parse_request` | `RejectUnauthenticated`, `RejectMalformed`, `Parse` |
| the block under `idempotency_mutex_` | `RejectConflict`, `JoinOriginal`, `Admit` (insertion and eviction) |
| `configured`, `supports` | `RefuseDisabled`, `RefuseUnsupported`, `PassGates` |
| the "requested" line | `Accept`, `RefuseUnaudited` |
| the block under `queue_mutex_` | `Enqueue`, `RefuseStopping` |
| `wait_for` and its deadline | `Answered`, `TimeOut` |
| the wait of a repeat | `ReplayAnswer` |
| the final line and the return | `AuditReply` |
| `process_pending` | `BeginTick`, `EndTick`, `Pop`, `Skip`, `Claim`, `Execute`, `Publish` |
| `shutdown` | `StopAccepting`, `AnswerAbandoned` |

One step is one critical section, one write of the journal or one call of the
executor. The two places where the code writes a line while it still holds
another mutex are one step when nothing can tell (the conflict), and two steps
when that only adds interleavings (the refusal of a stopping companion).

Abstractions: a payload is the fingerprint of a request, which contains its
action; an outcome stands for status, error and HTTP status, which the code
always sets together; time is abstract, so a deadline may pass whenever its call
waits; `supports()` may answer either way at any call, because the probe of the
game thread may store its flag at any moment; whether a write of the journal
succeeds is a free choice. A `SharedResult` never moves, so the cell of an
accepted request is named by the call that created it.

`AdminActionPromise` is the abstract specification: a request is run at most once
per identifier or refused for good, and whoever asks is told which. The
refinement mapping reads `refused` off the cells, `ran` off the executor's
history and `told` off the replies of finished calls.

### AuditLog and AdminActionsRestart

A journal is a record of the lines of the backup, the lines of the current file,
and whether the last write stopped inside a line. `Appended` includes the
rotation that precedes a write; `FailedWrites` is every journal a write that
reports failure can leave behind. `Restart` stands for the end of the process
at any point and the constructor of the next service: everything but the journal
is lost, and `Load` rebuilds the ledger with the loader's two rules, the last
line of an identifier wins and the first one gives its place in the order.

`forgettable` is a history variable: the identifiers for which one of the limits
the code sets itself has been reached. They were evicted from the ledger or
trimmed at a start, the last line that records them as accepted or answered was
rotated away, or the line that accepted them was appended to a fragment, so that
no later start can read it.
`AtMostOnceUnlessForgotten` and `RetainedIdsAreKnown` say that nothing else ever
makes the service forget. `JournalAnswersAreTruthful` needs the same exception: a
request that was run and then forgotten may be sent again, refused this time, and
a later start answers "refused" from that last line.

### CompanionShutdown

`app` and `listener` are the application around the service. `shutdown()` is a
sequence of four actions (`BeginShutdown`, `Answer`, `StopListener`,
`JoinListener`) under the lifecycle mutex: no tick and no other lifecycle call
begins during it, but a tick that has copied the pointer to the service goes on.
The HTTP library is external: it starts calls only while it listens, and its
listening thread returns only when the workers have. When the address cannot be
bound, `initialize` keeps the service and drops the listener, so that ticks still
reach a service nobody calls ("unreachable").

### PlayerTracking

All callbacks run on the game thread one after the other, so one callback is one
step. The game is the environment: a controller begins to play, its player state
shows the id and then the name, the state and the controller end in either
order, with or without a logout, ticks fall anywhere in between, and an address
may be used again. `dropped` and `overlapped` are history variables: the joins
that were refused or expired, and the logins that shared their player with
another one. The model lets every controller that ends reach the EndPlay callback,
whichever way its player left; `docs/EVENT-MODEL.md` reports that EndPlay and
`K2_OnLogout` were not reliable signals of a normal disconnect in live tests. A logout
is optional in the model, an EndPlay is not: if the game frees a controller without
it, the extension has no other way to learn of it, and `NoDanglingControllers` and the
properties of teleports say nothing about that case. `active_players_` never holds two entries of one player (an entry
is added only if there is none), so it is a function. What the loops leave of the
join queue is `Selected`, the elements of a sequence that belong to a set, a
recursive function: the provers know nothing of `SelectSeq`.

### TeleportExecution

The module has no variables of its own. A tick calls `process_pending` before it
does anything else, so a request may be executed in every state of
`PlayerTracking`; the properties quantify over every document `parse_request`
accepts (`Accepted`) and over what the game alone decides (`Worlds`). Both
functions are chains of early returns, written as sequences of checks in the
code's order of which the first that fails names the error. Letter case is kept,
as one bit per identifier, because the code compares identifiers by their text.

### Configuration and ExtensionLifecycle

`Reading` is the loop of `load_config` as a recursive function, what the reader
knows after each line of a file, and `LoadConfig` its last value;
`MeansItsLastLines` says what a file means without reading it in order, and `IsFile`
which sequences of lines are files. A line is
what it is about and a value; trimming and letter case are abstract. `Stoul` keeps
the width of `unsigned long`: a minus sign wraps, so the text of -4294967295 is
accepted as port 1 where `unsigned long` has 32 bits.

`ExtensionLifecycle` is the game thread, one call of the modding framework and one
step of file input or output at a time: `OnUnrealInit`, `Load` or `Create` and
`Write` for the identifier and then the token, `Listen`, `RegisterHook` four times,
and the way back. `EndProcess` may cut it anywhere, which is also how a server
normally stops: the framework does not uninstall its extensions then. Between
processes an administrator may replace or remove a credential file. A file is
absent, a fragment or one of a few whole values; an existing file that cannot be
opened for reading is overwritten, as in the code, which takes it for absent. What
`initialize` throws it also catches, so such a failure leads to the registration of
the hooks. What `companion_directory()` throws before it (`InitializationThrows`, in
any call of `on_unreal_init()`) or the registration throws (`RegistrationThrows`) is
caught by `on_unreal_init()`, which destroys the application and leaves the hooks as
they are (`Abandon`). A later call then creates another application; if
`hooks_registered_` is set by then, the hooks are not registered again.

`stranded` is a history variable: the hooks that such a call, or one that breaks off
the removal, left registered without their target. The logout hook is registered
with a pointer to the application, so it is stranded whenever the application is
destroyed under it. The other three reach the application through the extension and
check that there is one; they are stranded only when `hooks_registered_` does not say
that they are to be removed. An exception that nothing catches (logging in the
handler itself, or inside `initialize`, which is `noexcept`) is `EndProcess`.

### ActivityFeed

The two records of a join or a leave are published in two critical sections of
the buffer, hence in two steps (`Join` or `Leave` queues them in `publishing`,
`Publish` moves one). The identifier of a session is a fresh number instead of a
hash over a counter: two sessions of one run of the process never share it unless
the hash collides. A timestamp is a number of milliseconds; the code compares its
fixed-width text, in the same order, and rounds a duration down to seconds. Clients are external: each asks with the
newest timestamp it was given.

### CapabilityProbe

The probe on the game thread stores its result in three atomics
(`StorePlayerSupport`, `StoreSupportState`, `StoreLocationSupport`; after an
exception `WithdrawLocationSupport`, `StoreProbeFailed`), and
`capabilities_json()` loads them up to three times per action (`ReadSummary`,
`ReadAction`, `ReadDiagnostic` and, for an action that is not supported,
`ReadReason`) with nothing that holds them together. What the probe finds in the
game is external. The signature of a function that is missing does not match
either; as the probe judges the function first, `MayLack` need not be closed
under that. `changed` is a history variable: the actions whose support changed
while the document was put together.

## 3. What the runs check

| run | instance | shows |
| --- | --- | --- |
| `AdminActionsSafety` | 3 calls, 2 identifiers, an enabled and a disabled payload, success and one error, 1 action per tick | types, truthful refusals and reports, at most one execution per identifier, execution only after the journal, one fate per entry, final reports stay, and the promise is kept |
| `AdminActionsRestart` | 3 calls, 2 restarts anywhere, torn writes | no second execution of what was not forgotten, truthful answers from the journal, "unknown" only for accepted requests without a final line |
| `AdminActionsRetention` | ledger of one identifier, files of one line, 1 restart | eviction of entries in flight and rotation at every write: consistent ledger, live originals, identifiers still in a file are known unless the ledger had no room |
| `CompanionShutdown` | 3 calls of one request, fairness | shutdown returns, leaves nothing open and nothing running; every call is answered |
| `PlayerTracking` | 2 players, 3 controllers, join queue of 2 | no dangling pointer, nobody reached through another's controller, nothing left of absent players, logins without overlap are followed |
| `TeleportExecution` | 2 players, 2 controllers, every request in every state, fairness of the tick | a teleport moves whom and where its request says, connected players are found, active players get located |
| `ExtensionLifecycle` | 3 initializations per process, any of which may throw, any number of processes, every file of up to 4 of 21 lines | credentials survive restarts, hooks that no throwing call left behind find their targets, a configuration means its last lines |
| `ActivityFeed` | 2 players, 2 sessions, buffer of 3, limits 1 and 2, clock 0..1 | the feed's story, its containers, its order, and what polling can miss |
| `CapabilityProbe` | 2 of 3 actions enabled, 2 prerequisites that come and go, exceptions, unloading, fairness of the probe | the atomics agree between probes, support follows the game, and the document is torn only where support changed |
| `RepeatsAfterShutdown` | as Safety, one payload | violation, see below |
| `ClaimAfterShutdown` | as Safety, one payload | violation, see below |
| `ReconnectOverlap` | 1 player, 2 controllers | violation, see below |

**Bounds.** Three calls are an original, a repeat and a third actor (another
repeat, a conflict, or the call that evicts or rotates); two identifiers let an
eviction hit an entry in use; the game thread and the shutdown are always there.
Two restarts let an answer loaded from the journal be journalled and loaded
again. `MaxAuditLines` is 10 where rotation is not the question (three calls
write fewer lines) and 1 where it is. A budget of one action per tick runs out
with entries left in the queue.
`MaxPendingJoins` is 2 with three controllers, so a full queue happens. A buffer
of three records evicts the records of a session whose other events are still to
come. `MaxRestarts`, `MaxSessions`, `MaxTime`, `MaxInits` and `MayLack` are the only
bounds that the code does not have; a second initialization is enough to meet an
application, or hooks, that are already there, and a third to create an application
after the second has thrown. Four lines are a heading, an
assignment, another section and what must not leak from it; ports run to 7 and
`unsigned long` has 16 values, so that every limit of both has numbers on either
side. The credentials of `ExtensionLifecycle` are taken from three values again and
again, which leaves the number of processes unbounded; of what `MayLack` offers, one prerequisite is what
both kinds of teleport need and the other is needed by map teleports alone.

**Assumptions stated by runs.** In `AdminActionsSafety`, `AtMostOncePerRequest` and
`AuditedBeforeExecution` are checked with a ledger that has room for every
identifier and files that keep every line: past these limits the code forgets by
design, and `AtMostOnceUnlessForgotten` and `RetainedIdsAreKnown` say when. Torn
writes happen in `AdminActionsRestart`. `HooksFindTheirTargets` excepts the hooks in
`stranded`, and no others (section 4).

**Fairness.** A worker inside `handle()` keeps running and its deadline expires
(`wait_for` has one); a game thread inside `process_pending()` finishes that call
(its loop is bounded and the executor returns); a running `shutdown()` goes on.
Nothing makes the game thread begin another tick, and nothing makes anybody call
`shutdown()`: `EveryCallAnswered` and `ShutdownReturns` hold without either. Weak
fairness is enough: while a thread waits for an answer that has come, or for a
queue it alone empties, nobody takes the answer away again. `TeleportExecution` alone
assumes that the engine ticks and that sampling times come, since nothing else
can produce a location, and `CapabilityProbe` that probes go on and end, for the
same reason.

`CompanionShutdown` is checked without deadlock detection, because a companion
that failed to start or was shut down really stops; all other runs check it.

## 4. Where the code and the documents disagree

* `RepeatsAfterShutdown`. "Concurrent or later identical requests share the
  original result" (`docs/ADMIN-ACTIONS.md`). A call times out
  ("game_thread_unavailable") and leaves its entry in the queue; `shutdown()`
  completes the entry again, and a repeat is told "companion_stopping". Both
  answers are refusals, and `ReportsAreFinal` shows that an executed request is
  never overwritten like this.
* `ClaimAfterShutdown`. "Shutdown cancels unclaimed work before joining the
  listener" (`docs/ARCHITECTURE.md`). An entry between the pop and the claim is
  in no queue; it is claimed and executed after the service's `shutdown()` has
  returned. It is over when the application's `shutdown()` returns, because that
  waits for the entry's caller: `NothingRunsAfterShutdown` holds and is proved.
* `ReconnectOverlap`. "The latest in-memory location for each connected player"
  (`docs/LOCATIONS.md`). If the new controller of a player resolves while the old
  one is still active, it leaves the join queue without becoming active; the end
  of the old actors then removes the player, who stays connected and untracked.
  `SoleLoginsAreTracked` shows that this takes an overlap.

The capability document can disagree with itself as well. "A reason code for each
false action and `null` for an available action" (`docs/CAPABILITIES.md`) holds
of every action whose support did not change while the document was read
(`TornOnlyByAProbe`).
The document is a hint and the gates of `handle` decide, so it is not listed as
a finding.

Three more things the models show and no run is devoted to. A request whose
"requested" line is appended to a fragment is accepted and executed, but no later
start can read its line, so a retry after a restart is executed again; the journal
writes its lines without looking at how the file ends (`Glued`).

When a hook registration throws, the application is destroyed while the logout hook,
if it is registered already, keeps a pointer to it; `hooks_registered_` is still
false, so the destructor does not remove that hook, nor any other of this attempt
(`RegistrationThrows`).

"A duplicate Unreal initialization callback is ignored" (`docs/INSTALLATION.md`) holds
of `initialize`, but the call before it, `companion_directory()`, may throw. Then a
duplicate callback destroys the running application, with its listener, and leaves the
logout hook pointing to it; the hooks stay registered, so a third call creates an
application that the other three hooks serve and no logout reaches
(`InitializationThrows`). `HooksFindTheirTargets` says that this hook is the only one
affected, and the removal still takes it away.

## 5. What is proved

Every safety property of the passing runs, invariant or action property, and the
refinement of the promise are theorems: TLC shows them on the instances of section
3, TLAPS for any number of calls, identifiers, players, controllers, sessions,
restarts and lines. The limits of the code are constants; where a theorem needs more
of them than that they are positive, its statement says so. `PROJECT.json` lists the
theorems with the property each one states.

### The service in one life of the process (`AdminActionsProofs`)

From `AdminActionsAssumption` and `AuditLogAssumption`: `TypeOK`,
`RefusalsAreTruthful`, `ReportsAreTruthful`, `OneFatePerEntry`, `ReportsAreFinal`,
`LedgerMatchesOrder` and `RepeatsHaveALiveOriginal`. The assumptions say that calls,
identifiers and the value for "nothing" are distinct names, that an execution error
is not the name of a refusal, of a kind of line or the promise's word for refusals
(the one error that is, `action_not_supported` of a build without hooks, cannot be
returned: such a build supports no action), and that the limits are positive.

None of these properties is inductive. "A refused request is not run" needs to
know that an entry still in the queue or in the game thread's hands has either
not been answered or will be skipped, so `IInv` adds to the types:

* `WellFormed`: which fields are set at each point of the code;
* `CellsOwned`: an original holds its own cell, a repeat the cell of an original
  that asked for the same thing or one loaded from the journal;
* `UntouchedBeforeDispatch`: the cell of a call not yet queued is fresh;
* `QueuesHoldUnstarted`: an entry is in one place at a time, unclaimed and not
  run, and its caller waits, has answered it, or was lost with its process;
* `InHand`: what the game thread knows of the entry it holds at each step;
* `CellsTruthful`: a cell that says refused was not run and is not claimed, one
  that reports an execution was run once with that result;
* `RepliesFollowCells`: a reply repeats its cell, up to the kind of refusal
  (shutdown may replace one refusal by another).

`IInv` is written so that it survives a restart; `OneLife` is what holds in addition
as long as there was none. One lemma per action shows that it preserves `IInv`,
conjunct by conjunct; `HandleKeepsInv` and `NextKeepsInv` combine them. The heart of
the argument is `TimeOut` against `Claim`: both are one critical section of the cell,
`TimeOut` requires an unclaimed cell and `Claim` an unanswered one. What a step never
takes back (a refusal, an execution, the end of a life) is one formula, `Settling`,
from which the older replies follow in one lemma.

The ledger has its own invariant, `CellsLive`: a cell in the ledger, or that a repeat
waits on, is answered or its caller is still inside `handle()`. It does not speak of
the entry, which may have been evicted meanwhile.

Three results need the limits to be wide enough, and say so as hypotheses:

* `AtMostOnceHolds`: `AtMostOncePerRequest` if `LedgerHasRoom`, that is, if there are
  no more identifiers than `MaxIdempotencyRecords`. Then nothing is evicted, and two
  calls that own a cell and ask under one identifier are the same call.
* `PromiseKept`: `Spec` implements `AdminActionPromise` if `LedgerHasRoom`. Each
  action maps to one step of the promise or to a stutter: `Execute` to a run, the
  step that gives the last open cell of an identifier a refusal to a refusal, the
  return of a call to the answer it gives.
* `AuditedFirst`: `AuditedBeforeExecution` if no write stops inside a line and a file
  holds two lines per call (`FilesHaveRoom`). `LinesCounted` bounds the length of the
  current file by the calls that may have written one line and those that may have
  written two, so that nothing is ever rotated; from then on the accepting line of
  whatever is in play (`InPlay`) stays on disk.

Without the hypotheses the three are false by design, and the theorems of the next
section say exactly how far they fail.

### Over restarts (`AdminActionsRestartProofs`)

`RInv` is `IInv`, `CellsLive`, "a call is run at most once" and `Remembered`, which
relates ledger, journal and history:

* `RetainedKnown`: whatever a file retains is in the ledger or was forgotten;
* `BusyHeld`: a call inside `handle()`, or whose request may still run, is the one its
  entry names, or its identifier was forgotten;
* `PlayRecorded`, `RunRecorded`: what may be run has a line in a file, and what was run
  also an entry that is its own or loaded, or it was forgotten;
* `LedgerMatchesOrder` and the types of the lines.

From it follow `LedgerMatchesOrder` and `RepeatsHaveALiveOriginal` over restarts,
`AtMostOnceUnlessForgotten` and `RetainedIdsAreKnown`, for any number of restarts
anywhere, any failed or torn writes, and any limits. `AcceptedAreRecorded` is the
counterpart of `AuditedFirst` without its hypotheses: whatever may still be run, or was
run in any life, has a line in a file or was forgotten.

`JournalAnswersAreTruthful` takes a second invariant, `TInv`: every line, every loaded
entry and every reply taken from one is `Settled`, that is, a reported execution was
run with that outcome, and a refused identifier is `Dead`: not run, and held in the
ledger by a refusal so that it never will be, or forgotten.

`UnknownIsHonest` proves `UnknownMeansAccepted` if `LedgerHasRoom` and `FilesHaveRoom`,
with restarts and torn writes. `UInv` says that a decision in the journal is a decision
in the ledger, that no later line of an identifier takes it back, and that an entry, a
reply or a line that says "unknown" stands for an identifier of which the journal says
no more than that it was requested. An eviction or a rotation can really break it: the
run that checks it has room for everything as well.

### The application (`CompanionShutdownProofs`)

Every step of the application is a step of the service or stutters
(`LifecycleRunsService`), so all that holds of `AdminActions` holds of the
application. `LInv` adds how far `shutdown()` has come and that no call which
reached the ledger returned without an answer; from it follow
`NothingRunsAfterShutdown` and `ShutdownLeavesNothingOpen`.

### Players and teleports (`PlayerTrackingProofs`)

Five invariants of `PlayerTracking` and the two of `TeleportExecution`. `IInv` adds to
`TypeOK`, `NoDanglingControllers`, `ActiveUnderOwnController` and `SoleLoginsAreTracked`:

* `LoginsHavePlayers`: whoever plays, or can still be read, plays for a player;
* `KeptForPresentPlayers`: a session, a location or an active entry of a player rests
  on a live controller of that player that shows its identity;
* `SoleLogins`: a login outside `overlapped` has its player to itself;
* `UnresolvedLoginsWait`: a live controller that does not show its identity yet is in
  the join queue or was dropped from it.

The tick is the hard step: it promotes, keeps and drops entries of the queue in one
pass. That it loses none without saying so, and that no controller comes to wait twice,
rests on what `Selected` keeps (`SelectionProofs`). The properties of teleports quantify over every accepted document
and every world in each state of the hooks; each check of the two chains gets one
lemma that says what passing it means. `TeleportAssumption` says that "absent" is no
player, controller or point, and that "no error" is not the name of an error.

### The activity feed (`ActivityFeedProofs`)

Every safety property of `ActivityFeed`, for any capacity, clients, players and
sessions. `IInv` reasons about `Told`, what was published followed by what is about to
be, since the two records of one session event are published in two steps:

* `SessionsApart`, `ToldOnce`, `ToldOfSessions`: open sessions have identifiers of their
  own, nothing is told twice, and nothing that ends a session is told while it is open;
* `RecordsTold`, `RecordsOnce`: the buffer holds what was published, once, in agreement
  with its set of identifiers;
* `InOrder`: until the clock is set back, nothing is from the future and what waits to
  be published is not older than what is in the buffer;
* `NothingElseMissed`: what a client was not given it will be given by the next
  unlimited poll, or it is excused (evicted, cut by a limit, or not newer than its
  cursor).

### The capability document (`CapabilityProbeProofs`)

`ProbeStores` says how the three atomics relate between any two stores of a probe, or
after an exception; `DocumentFollowsSupport` says of each part of the document that has
been put together that it agrees with what the executor says now, for every action
whose support has not changed since the reader began. `SupportAgreesBetweenProbes` and
`TornOnlyByAProbe` follow.

### The extension, its credentials and its configuration (`ExtensionLifecycleProofs`)

`TypeOK`, `HooksFindTheirTargets` and `CredentialsSurviveRestarts`, for any
configuration files and any number of initializations (`LifecycleAssumption`) and for
any number of processes. `IInv` adds to the types:

* `Ordered`: whoever starts or registers has an application, and an extension that
  is being destroyed has no registered hooks left by its own account;
* `KInv`: a credential that clients rely on is on file, unless what is left of a
  token stops the next start; no step creates another, and a start that has loaded
  it holds the same one;
* `TokenOnFile`: a token that is about to be served is on file or its write failed;
* `HooksInStep`: the registered hooks that no throwing call left behind are among
  those the registration has reached, or the removal has not yet reached, and their
  handles are those the extension holds.

A logout hook that is not stranded always has the current application, because every
step that destroys or replaces the application under it puts it into `stranded` or is
not taken while hooks are registered (`TheApplication` is the one there is).

The heart of the argument is `Create`: its guard and `KInv` together say that a
credential is only created when clients rely on none, which is why an identifier
may replace what is left of one and a token may not.

`FilesMeanWhatTheySay` proves `MeansItsLastLines` of every file, whatever its length
and whatever the width of `unsigned long` and the largest port (`ConfigurationAssumption`);
the run enumerates the files of up to four lines. `ReadSoFar` is the invariant of the
loop: after i lines the reader is in the section that the last heading says (`InSection`),
has failed if and only if one of them is a wrong line of its own section, and otherwise
gives each key the value of the last line that assigns it (`Says`). `PortsWrap` is the
arithmetic of the number that `stoul` makes of a minus sign.

### How inductions over data are done

The induction theorems of the library take an operator as a parameter, which the
installed provers cannot instantiate. `SelectionProofs` and the configuration proof go
another way: the set of the lengths up to which a statement holds contains 0 and with i
also i + 1, and a subset of `Nat` with that property is `Nat`, which follows from the
existence of a least element outside it (`WellFoundedInduction`). The same least
element shows that the recursive functions exist and are what their definitions say.

### What the proofs taught about the models

* `JournalAnswersAreTruthful` has the exception described in section 2: the instance of
  its run was too small to need it, and the proof failed without it.
* `PromiseKept` needs that no error is called "refused", the promise's word for every
  refusal, and the types need that the value for "nothing" is no request. Both hold of
  the code and are assumptions now.
* A configuration file of the instance has to be one: `IsFile` makes explicit that a
  line is a heading, an assignment or text and has the fields of its kind.

### What is only model-checked

The liveness properties `EveryCallAnswered`, `ShutdownReturns`,
`ActivePlayersAreLocated`, `RecoversWithoutRestart` and `WithdrawsSupport`: TLAPS does
not reason about fairness and ENABLED here. The three violations of section 4 are
counterexamples and need no proof.

## 6. What is not modelled

* JSON and HTTP formatting, and the text of identifiers, numbers and names: pure
  functions of their input, tested by unit tests.
* What the game does with a teleport: whether there is a floor, whether the place
  is accepted and where the character ends up.
* The bearer check (`constant_time_token_equal`): it keeps no state and is one
  outcome of a call.
* The modding framework and the HTTP library beyond what is said above. In
  particular `StopListener` assumes that the library's `stop()` ends the listening
  even if it has only just begun.
* The clock: durations and deadlines are abstract, instants exist in `ActivityFeed`.
* A journal file whose size cannot be read.
* The hooks of players while there is no application. The callbacks return at once
  then, so after a later `on_unreal_init()` that throws (`InitializationThrows`) the
  extension does not follow who comes and goes until another call creates an
  application; `PlayerTracking` and what is said of teleports hold of a life with one
  application.

## 7. Plan

Done: the admin action service, its journal, restarts and limits, the lifecycle
around it, player tracking, requests and their execution, the activity feed, the
capability probe, the life of the extension with its configuration and
credentials, and a proof of every safety property that a passing run checks.

1. Compose `PlayerTracking` with the loss and the return of the application in
   `ExtensionLifecycle`.
2. Replace the hypotheses about room by the history: `PromiseKept` and `UnknownIsHonest`
   for the identifiers that were not forgotten.
3. Safety halves of the liveness properties, such as that a waiting call is always in
   reach of its deadline, the game thread or the shutdown.
