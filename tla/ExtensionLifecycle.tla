--------------------------- MODULE ExtensionLifecycle --------------------------
(***************************************************************************)
(* The life of the extension in a Palworld server: on_unreal_init() and    *)
(* the destructor of extension/dllmain.cpp, with the start of the          *)
(* application (src/src/application.cpp), the two files it keeps its       *)
(* credentials in (src/src/authentication.cpp) and the hooks it registers, *)
(* one call of the modding framework at a time.                            *)
(*                                                                         *)
(* The process may end between any two steps, and usually does so without  *)
(* uninstalling the extension.  What survives is the files.                *)
(***************************************************************************)
EXTENDS Configuration, Functions

CONSTANTS
    ConfigFiles,  \* the configuration files that are tried, as sequences of lines
    MaxInits      \* bound: how often on_unreal_init() is called in a process

ASSUME LifecycleAssumption ==
    /\ MaxInits \in Nat
    /\ \A lines \in ConfigFiles : IsFile(lines)

Credentials == {"id", "token"}

\* What a credential file holds, or the program: nothing, less than a whole
\* credential, or one of a few that are told apart by a number.
Absent == 0
Fragment == -1
Whole == 1..3

HookOrder == <<"logout", "endPlay", "beginPlay", "tick">>
HookNames == Range(HookOrder)
None == 0

VARIABLES
    phase,    \* where the game thread is
    mod,      \* the extension in memory
    file,     \* the credential files
    served,   \* history: the credentials served last
    excused,  \* history: credentials the next start need not serve again
    stranded  \* history: hooks that were left registered without their target

vars == <<phase, mod, file, served, excused, stranded>>
files == <<file, served, excused>>

Phases == {"down", "idle", "id", "token", "writeId", "writeToken", "listen",
           "register", "unregister", "destroy", "gone"}

\* A registered hook: which, the application it was given and its handle.
Hook == [name : HookNames, application : 1..MaxInits, handle : 1..MaxInits]

\* PalCenterCompanionMod, with what a call of it holds:
\*   step        -- hooks registered or unregistered so far,
\*   inits       -- calls of on_unreal_init(),
\*   credential  -- what the start in progress has loaded or created,
\*   application -- application_: None, or the call that created it,
\*   listening   -- its HTTP server runs,
\*   handles     -- logout_hooks_, end_play_hook_, begin_play_hook_ and
\*                  engine_tick_hook_,
\*   registered  -- hooks_registered_,
\* and hooks, what is registered with the framework.
Mod == [step : 0..Len(HookOrder), inits : 0..MaxInits,
        credential : [Credentials -> Whole \cup {Absent}],
        application : 0..MaxInits, listening : BOOLEAN,
        hooks : SUBSET Hook, handles : [HookNames -> 0..MaxInits], registered : BOOLEAN]

TypeOK ==
    /\ phase \in Phases /\ mod \in Mod
    /\ file \in [Credentials -> Whole \cup {Absent, Fragment}]
    /\ served \in [Credentials -> Whole \cup {Absent}]
    /\ mod.listening => mod.application # None
    /\ stranded \subseteq Hook /\ excused \subseteq Credentials

Nothing == [c \in Credentials |-> Absent]

NewMod == [step |-> 0, inits |-> 0, credential |-> Nothing,
           application |-> None, listening |-> FALSE,
           hooks |-> {}, handles |-> [n \in HookNames |-> None], registered |-> FALSE]

Init ==
    /\ phase = "down" /\ mod = NewMod /\ stranded = {}
    /\ file = Nothing /\ served = Nothing /\ excused = {}

-----------------------------------------------------------------------------
(* The process *)

\* start_mod()
StartMod ==
    /\ phase = "down" /\ phase' = "idle"
    /\ UNCHANGED <<mod, files, stranded>>

\* The process ends or is killed, anywhere.
EndProcess ==
    /\ phase # "down" /\ phase' = "down" /\ mod' = NewMod /\ stranded' = {}
    /\ UNCHANGED files

\* Documented for a token that is invalid or known to others: replace or remove
\* the file while the server is stopped.
Administer(c) ==
    /\ phase = "down"
    /\ \E n \in {Absent, Fragment} \cup Whole : n # file[c] /\ file' = [file EXCEPT ![c] = n]
    /\ excused' = excused \cup {c}
    /\ UNCHANGED <<phase, mod, served, stranded>>

-----------------------------------------------------------------------------
(* on_unreal_init() *)

Configurations == {LoadConfig(lines) : lines \in ConfigFiles}

\* Mutant of TheApplication: each call creates an application of its own.
AnotherApplication == mod.inits + 1

\* The application of this call: one is created if there is none.
TheApplication == IF mod.application = None THEN mod.inits + 1 ELSE mod.application

\* initialize() reads the configuration file, unless it has been called before.
\* A file that cannot be opened or is refused, or that disables the Companion,
\* ends the start; the hooks are registered all the same.
OnUnrealInit ==
    /\ phase = "idle" /\ mod.inits < MaxInits
    /\ mod' = [mod EXCEPT !.step = 0, !.inits = @ + 1, !.application = TheApplication]
    /\ \/ phase' = "register"
       \/ /\ mod.application = None
          /\ \E r \in Configurations : ~r.failed /\ r.config["enabled"]
          /\ phase' = "id"
    /\ UNCHANGED <<files, stranded>>

\* Mutant of WithoutApplication: the server of the application is left running.
WithoutApplicationListening(m) == [m EXCEPT !.application = None]

\* application_.reset(): the destructor of the application stops its server.
WithoutApplication(m) == [m EXCEPT !.application = None, !.listening = FALSE]

\* The catch of on_unreal_init() destroys the application and leaves the hooks
\* as they are.  The logout hooks lose their target, and without the flag
\* nothing will remove the others.
Abandon ==
    /\ phase' = "idle"
    /\ stranded' = stranded \cup {h \in mod.hooks : h.name = "logout" \/ ~mod'.registered}
    /\ UNCHANGED files

\* companion_directory() throws, in the first call or in a later one.
InitializationThrows ==
    /\ phase = "idle" /\ mod.inits < MaxInits
    /\ mod' = WithoutApplication([mod EXCEPT !.inits = @ + 1])
    /\ Abandon

\* The exceptions initialize() catches, and start() returning false.
FailInitialization ==
    /\ phase \in {"id", "token", "listen"} /\ phase' = "register"
    /\ mod' = [mod EXCEPT !.credential = Nothing]
    /\ UNCHANGED <<files, stranded>>

WritePhase == [id |-> "writeId", token |-> "writeToken"]
AfterLoading == [id |-> "token", token |-> "listen"]

Load(c) ==
    /\ phase = c /\ phase' = AfterLoading[c]
    /\ file[c] \in Whole /\ mod' = [mod EXCEPT !.credential[c] = file[c]]
    /\ UNCHANGED <<files, stranded>>

\* Mutant of MayCreate: a token that is cut short is replaced.
MayReplaceFragment(c) == file[c] \in {Absent, Fragment}

\* An identifier that is cut short is replaced, a token is not.
MayCreate(c) == file[c] = Absent \/ (c = "id" /\ file[c] = Fragment)

\* The file is emptied and the new credential is still to be written.  That a
\* file cannot be opened for reading is taken for its absence.
Create(c, readable) ==
    /\ phase = c /\ (readable => MayCreate(c))
    /\ phase' = WritePhase[c]
    /\ file' = [file EXCEPT ![c] = Fragment]
    /\ mod' = [mod EXCEPT !.credential[c] = CHOOSE n \in Whole : n \notin {file[c], served[c]}]
    /\ excused' = IF readable THEN excused ELSE excused \cup {c}
    /\ UNCHANGED <<served, stranded>>

\* The result of the write is not looked at.
Write(c, complete) ==
    /\ phase = WritePhase[c] /\ phase' = AfterLoading[c]
    /\ file' = IF complete THEN [file EXCEPT ![c] = mod.credential[c]] ELSE file
    /\ UNCHANGED <<mod, served, excused, stranded>>

\* Only the identifier need not be served again because it was not written.
Listen ==
    /\ phase = "listen" /\ phase' = "register"
    /\ mod' = [mod EXCEPT !.listening = TRUE, !.credential = Nothing]
    /\ served' = mod.credential
    /\ excused' = {c \in {"id"} : file[c] # mod.credential[c]}
    /\ UNCHANGED <<file, stranded>>

-----------------------------------------------------------------------------
(* register_player_hooks() *)

SkipRegistration ==
    /\ phase = "register" /\ mod.registered /\ phase' = "idle"
    /\ UNCHANGED <<mod, files, stranded>>

\* The logout hook is given the application, the other three find it through
\* the extension.  These may return an error instead of a handle.
RegisterHook(succeeds) ==
    LET name == HookOrder[mod.step + 1]
        hook == [name |-> name, application |-> mod.application, handle |-> mod.inits]
    IN  /\ phase = "register" /\ ~mod.registered /\ mod.step < Len(HookOrder)
        /\ name = "logout" => succeeds
        /\ mod' = [mod EXCEPT !.hooks = @ \cup {h \in {hook} : succeeds},
                              !.handles[name] = IF succeeds THEN mod.inits ELSE None,
                              !.step = @ + 1]
        /\ UNCHANGED <<phase, files, stranded>>

\* A call of the framework throws, or the logging that follows the flag.
RegistrationThrows ==
    /\ phase = "register" /\ ~mod.registered
    /\ mod' = WithoutApplication([mod EXCEPT !.registered = mod.step = Len(HookOrder)])
    /\ Abandon

FinishRegistration ==
    /\ phase = "register" /\ ~mod.registered /\ mod.step = Len(HookOrder)
    /\ mod' = [mod EXCEPT !.registered = TRUE] /\ phase' = "idle"
    /\ UNCHANGED <<files, stranded>>

-----------------------------------------------------------------------------
(* ~PalCenterCompanionMod() and unregister_player_hooks() *)

\* uninstall_mod()
Uninstall ==
    /\ phase = "idle" /\ mod' = [mod EXCEPT !.step = 0]
    /\ phase' = IF mod.registered THEN "unregister" ELSE "destroy"
    /\ UNCHANGED <<files, stranded>>

UnregisterHook ==
    LET name == HookOrder[mod.step + 1]
    IN  /\ phase = "unregister" /\ mod.step < Len(HookOrder)
        /\ mod' = [mod EXCEPT !.step = @ + 1,
                  !.hooks = {h \in @ : h.name # name \/ h.handle # mod.handles[name]}]
        /\ UNCHANGED <<phase, files, stranded>>

\* What is left when a call throws stays registered.
FinishUnregistering ==
    /\ phase = "unregister"
    /\ \/ mod.step = Len(HookOrder) /\ UNCHANGED stranded
       \/ mod.step < Len(HookOrder) /\ stranded' = stranded \cup mod.hooks
    /\ mod' = [mod EXCEPT !.registered = FALSE] /\ phase' = "destroy"
    /\ UNCHANGED files

\* application_.reset(), and the memory of the extension is freed.
DestroyApplication ==
    /\ phase = "destroy" /\ phase' = "gone"
    /\ mod' = WithoutApplication(mod)
    /\ UNCHANGED <<files, stranded>>

-----------------------------------------------------------------------------

Next ==
    \/ StartMod \/ EndProcess
    \/ \E c \in Credentials : Administer(c) \/ Load(c)
    \/ OnUnrealInit \/ InitializationThrows \/ FailInitialization \/ Listen
    \/ \E c \in Credentials, ok \in BOOLEAN : Create(c, ok) \/ Write(c, ok)
    \/ SkipRegistration \/ RegistrationThrows \/ FinishRegistration
    \/ \E ok \in BOOLEAN : RegisterHook(ok)
    \/ Uninstall \/ UnregisterHook \/ FinishUnregistering \/ DestroyApplication

Spec == Init /\ [][Next]_vars

-----------------------------------------------------------------------------
(* Properties *)

FilesMeanTheirLastLines == \A lines \in ConfigFiles : MeansItsLastLines(lines)

\* load_config(): a start that gets past the configuration runs with what the
\* last lines of the file say, and a wrong line anywhere in the Companion's
\* sections refuses the start; whichever file it is.
ConfigurationMeansItsLastLines ==
    phase \in {"id", "token", "listen"} => FilesMeanTheirLastLines

\* The clients of one start can talk to the next: across crashes between and
\* inside the steps of a start, failed writes and refused starts, the token and
\* the instance identifier that are served are those served before, unless
\* somebody changed the file while the server was down, it could not be opened,
\* or the write of the identifier failed.
CredentialsSurviveRestarts ==
    [][\A c \in Credentials :
        served'[c] # served[c] /\ served[c] # Absent => c \in excused]_vars

\* Every hook the game may call finds the extension it belongs to and, the
\* logout hook, the application it was given, and the extension has the handle it
\* will be removed with: none is registered twice, none outlives the extension.
\* The exceptions are the hooks that a throwing call left behind: all that are
\* registered when the registration or the removal is broken off, and the logout
\* hook when a later on_unreal_init() throws.  The other three survive that, and
\* find the next application.
HooksFindTheirTargets ==
    \A h \in mod.hooks \ stranded :
        /\ phase # "gone" /\ mod.handles[h.name] = h.handle
        /\ h.name = "logout" => h.application = mod.application
=============================================================================
