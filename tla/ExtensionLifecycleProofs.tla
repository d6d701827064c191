----------------------- MODULE ExtensionLifecycleProofs ------------------------
(***************************************************************************)
(* Theorems about ExtensionLifecycle, for any number of initializations    *)
(* and any configuration files: the credentials survive restarts, the      *)
(* hooks find their targets, and every file means what its last lines say. *)
(***************************************************************************)
EXTENDS ExtensionLifecycle, SelectionProofs, TLAPS

-----------------------------------------------------------------------------
(* The inductive invariant *)

\* Whoever starts or registers has an application, and what is being or has
\* been destroyed is not registered.
Ordered ==
    /\ phase \in {"id", "token", "writeId", "writeToken", "listen", "register"} =>
          mod.application # None /\ mod.inits # 0
    /\ phase \in {"destroy", "gone"} => ~mod.registered

\* A credential that clients may rely on.
Relied(c) == served[c] # Absent /\ c \notin excused

\* The phases in which a start has its identifier, or its token.
Loaded == [id |-> {"token", "writeToken", "listen"}, token |-> {"listen"}]

\* It is still on file, or what is left of a token stops the next start; a
\* start creates no other, and once past it has loaded the same.
CredentialKept(c) ==
    Relied(c) =>
        /\ file[c] = served[c] \/ (c = "token" /\ file[c] = Fragment)
        /\ phase # WritePhase[c]
        /\ phase \in Loaded[c] => mod.credential[c] = served[c]

\* The token about to be served is on file, or its write failed.
TokenOnFile ==
    /\ phase = "writeToken" => file["token"] = Fragment
    /\ phase = "listen" => file["token"] \in {mod.credential["token"], Fragment}

KInv == \A c \in Credentials : CredentialKept(c)

\* The hooks that were not left behind, by how far the calls have come.
Kept == mod.hooks \ stranded

Current(h) ==
    /\ mod.handles[h.name] = h.handle
    /\ h.name = "logout" => h.application = mod.application

HooksInStep ==
    /\ \A h \in Kept : Current(h)
    /\ phase = "register" /\ ~mod.registered =>
          \A h \in Kept : \E i \in 1..mod.step : h.name = HookOrder[i]
    /\ phase = "unregister" =>
          \A h \in Kept : \E i \in (mod.step + 1)..4 : h.name = HookOrder[i]
    /\ ~mod.registered /\ phase \notin {"register", "unregister"} => Kept = {}

IInv == TypeOK /\ Ordered /\ TokenOnFile /\ KInv /\ HooksInStep

-----------------------------------------------------------------------------
(* The order of the hooks *)

LEMMA HookCount == Len(HookOrder) = 4
BY DEF HookOrder

LEMMA HookOrderFacts ==
    /\ \A i \in 1..4 : HookOrder[i] \in HookNames
    /\ \A i, j \in 1..4 : HookOrder[i] = HookOrder[j] => i = j
    /\ \A n \in HookNames : \E i \in 1..4 : n = HookOrder[i]
<1>1. Len(HookOrder) = 4 /\ DOMAIN HookOrder = 1..4
    BY DEF HookOrder
<1>2. HookNames = {HookOrder[i] : i \in 1..4}
    BY <1>1 DEF HookNames, Range
<1>3. \A i, j \in 1..4 : HookOrder[i] = HookOrder[j] => i = j
    BY DEF HookOrder
<1>. QED BY <1>1, <1>2, <1>3

-----------------------------------------------------------------------------
(* Types and order *)

\* The updates of the extension keep its type and the fields they do not name.
LEMMA UpdateForCall ==
    ASSUME NEW m \in Mod, NEW s \in 0..Len(HookOrder), NEW i \in 0..MaxInits, NEW a \in 0..MaxInits
    PROVE  LET n == [m EXCEPT !.step = s, !.inits = i, !.application = a]
           IN  /\ n \in Mod
               /\ n.step = s /\ n.inits = i /\ n.application = a
               /\ n.credential = m.credential /\ n.listening = m.listening
               /\ n.hooks = m.hooks /\ n.handles = m.handles /\ n.registered = m.registered
BY DEF Mod

LEMMA UpdateForHook ==
    ASSUME NEW m \in Mod, NEW s \in 0..Len(HookOrder), NEW k \in SUBSET Hook,
           NEW name \in HookNames, NEW i \in 0..MaxInits
    PROVE  LET n == [m EXCEPT !.hooks = k, !.handles[name] = i, !.step = s]
           IN  /\ n \in Mod
               /\ n.step = s /\ n.hooks = k /\ n.handles = [m.handles EXCEPT ![name] = i]
               /\ n.credential = m.credential /\ n.listening = m.listening
               /\ n.inits = m.inits /\ n.application = m.application
               /\ n.registered = m.registered
<1>1. [m.handles EXCEPT ![name] = i] \in [HookNames -> 0..MaxInits]
    BY DEF Mod
<1>. QED BY <1>1 DEF Mod

LEMMA UpdateForRemoval ==
    ASSUME NEW m \in Mod, NEW s \in 0..Len(HookOrder), NEW k \in SUBSET Hook
    PROVE  LET n == [m EXCEPT !.step = s, !.hooks = k]
           IN  /\ n \in Mod
               /\ n.step = s /\ n.hooks = k /\ n.handles = m.handles
               /\ n.credential = m.credential /\ n.listening = m.listening
               /\ n.inits = m.inits /\ n.application = m.application
               /\ n.registered = m.registered
BY DEF Mod

LEMMA UpdateForEnd ==
    ASSUME LifecycleAssumption, NEW m \in Mod
    PROVE  LET n == WithoutApplication(m)
           IN  /\ n \in Mod
               /\ n.application = None /\ n.listening = FALSE
               /\ n.step = m.step /\ n.inits = m.inits /\ n.credential = m.credential
               /\ n.hooks = m.hooks /\ n.handles = m.handles /\ n.registered = m.registered
<1>1. None \in 0..MaxInits
    BY DEF None, LifecycleAssumption
<1>. QED BY <1>1 DEF Mod, WithoutApplication

LEMMA UpdateOfCount ==
    ASSUME NEW m \in Mod, NEW i \in 0..MaxInits
    PROVE  LET n == [m EXCEPT !.inits = i]
           IN  /\ n \in Mod
               /\ n.hooks = m.hooks /\ n.handles = m.handles /\ n.registered = m.registered
BY DEF Mod

LEMMA UpdateOfFlag ==
    ASSUME NEW m \in Mod, NEW r \in BOOLEAN
    PROVE  LET n == [m EXCEPT !.registered = r]
           IN  /\ n \in Mod
               /\ n.registered = r
               /\ n.step = m.step /\ n.inits = m.inits /\ n.credential = m.credential
               /\ n.application = m.application /\ n.listening = m.listening
               /\ n.hooks = m.hooks /\ n.handles = m.handles
BY DEF Mod

\* What a throw in on_unreal_init() leaves of the extension.
LEMMA AfterThrow ==
    ASSUME LifecycleAssumption, TypeOK, InitializationThrows \/ RegistrationThrows
    PROVE  /\ mod' \in Mod /\ mod'.listening = FALSE
           /\ mod'.hooks = mod.hooks /\ mod'.handles = mod.handles
<1>1. CASE InitializationThrows
  <2>1. mod \in Mod /\ mod.inits + 1 \in 0..MaxInits
    BY <1>1 DEF LifecycleAssumption, InitializationThrows, TypeOK, Mod
  <2>2. mod' = WithoutApplication([mod EXCEPT !.inits = mod.inits + 1])
    BY <1>1 DEF InitializationThrows
  <2>. DEFINE m == [mod EXCEPT !.inits = mod.inits + 1]
  <2>3. m \in Mod /\ m.hooks = mod.hooks /\ m.handles = mod.handles
    BY <2>1, UpdateOfCount
  <2>. HIDE DEF m
  <2>. QED BY <2>2, <2>3, UpdateForEnd DEF m
<1>2. CASE RegistrationThrows
  <2>. DEFINE r == mod.step = Len(HookOrder)
              m == [mod EXCEPT !.registered = r]
  <2>1. mod' = WithoutApplication(m)
    BY <1>2 DEF RegistrationThrows
  <2>2. mod \in Mod /\ r \in BOOLEAN
    BY DEF TypeOK
  <2>. HIDE DEF r
  <2>3. m \in Mod /\ m.hooks = mod.hooks /\ m.handles = mod.handles
    BY <2>2, UpdateOfFlag
  <2>. HIDE DEF m
  <2>. QED BY <2>1, <2>3, UpdateForEnd
<1>. QED BY <1>1, <1>2

LEMMA StepKeepsTypes ==
    ASSUME LifecycleAssumption, TypeOK, Ordered, [Next]_vars
    PROVE  TypeOK' /\ Ordered'
<1>. USE LifecycleAssumption, HookCount
     DEF TypeOK, Ordered, Phases, Mod, Credentials, None, Absent, Fragment, Whole, files
<1>1. CASE StartMod
    BY <1>1 DEF StartMod
<1>2. CASE EndProcess
  <2>1. NewMod \in Mod
    BY DEF NewMod, Nothing
  <2>2. ~NewMod.listening /\ ~NewMod.registered
    BY DEF NewMod
  <2>. QED BY <1>2, <2>1, <2>2 DEF EndProcess
<1>3. ASSUME NEW c \in Credentials, Administer(c) PROVE TypeOK' /\ Ordered'
    BY <1>3 DEF Administer
<1>4. ASSUME NEW c \in Credentials, Load(c) PROVE TypeOK' /\ Ordered'
    BY <1>4 DEF Load, AfterLoading
<1>5. CASE OnUnrealInit
  <2>1. /\ mod.inits + 1 \in 1..MaxInits
        /\ TheApplication \in 1..MaxInits
    BY <1>5 DEF OnUnrealInit, TheApplication
  <2>2. mod' = [mod EXCEPT !.step = 0, !.inits = mod.inits + 1, !.application = TheApplication]
    BY <1>5 DEF OnUnrealInit
  <2>3. 0 \in 0..Len(HookOrder) /\ mod.inits + 1 \in 0..MaxInits /\ TheApplication \in 0..MaxInits
    BY <2>1
  <2>4. mod' \in Mod /\ mod'.inits = mod.inits + 1 /\ mod'.application = TheApplication
    BY <2>2, <2>3, UpdateForCall
  <2>. QED BY <1>5, <2>1, <2>4 DEF OnUnrealInit
<1>6. CASE FailInitialization
  <2>1. Nothing \in [Credentials -> Whole \cup {Absent}]
    BY DEF Nothing
  <2>2. mod' \in Mod /\ mod'.listening = mod.listening
        /\ mod'.application = mod.application /\ mod'.inits = mod.inits
    BY <1>6, <2>1 DEF FailInitialization
  <2>. HIDE DEF Mod
  <2>. QED BY <1>6, <2>2 DEF FailInitialization
<1>7. CASE Listen
  <2>1. Nothing \in [Credentials -> Whole \cup {Absent}]
    BY DEF Nothing
  <2>2. mod' \in Mod /\ mod'.application = mod.application /\ mod'.inits = mod.inits
        /\ mod.credential \in [Credentials -> Whole \cup {Absent}]
    BY <1>7, <2>1 DEF Listen
  <2>. HIDE DEF Mod
  <2>. QED BY <1>7, <2>2 DEF Listen
<1>8. ASSUME NEW c \in Credentials, NEW ok \in BOOLEAN, Create(c, ok) PROVE TypeOK' /\ Ordered'
    BY <1>8 DEF Create, WritePhase
<1>9. ASSUME NEW c \in Credentials, NEW ok \in BOOLEAN, Write(c, ok) PROVE TypeOK' /\ Ordered'
    BY <1>9 DEF Write, WritePhase, AfterLoading
<1>10. CASE SkipRegistration \/ FinishRegistration
  <2>1. CASE SkipRegistration
    BY <1>10, <2>1 DEF SkipRegistration
  <2>2. CASE FinishRegistration
    <3>1. mod' = [mod EXCEPT !.registered = TRUE]
      BY <1>10, <2>2 DEF FinishRegistration
    <3>2. mod' \in Mod /\ mod'.application = mod.application /\ mod'.listening = mod.listening
      BY ONLY TypeOK, <3>1, UpdateOfFlag DEF TypeOK
    <3>. HIDE DEF Mod
    <3>. QED BY <2>2, <3>2 DEF FinishRegistration
  <2>. QED BY <1>10, <2>1, <2>2
<1>16. CASE DestroyApplication
  <2>1. mod' = WithoutApplication(mod) /\ ~mod.registered
    BY <1>16 DEF DestroyApplication
  <2>2. mod' \in Mod /\ mod'.listening = FALSE /\ mod'.registered = mod.registered
    BY ONLY LifecycleAssumption, TypeOK, <2>1, UpdateForEnd DEF TypeOK
  <2>. HIDE DEF Mod
  <2>. QED BY <1>16, <2>1, <2>2 DEF DestroyApplication
<1>17. CASE InitializationThrows \/ RegistrationThrows
  <2>1. mod' \in Mod /\ mod'.listening = FALSE
    BY <1>17, AfterThrow
  <2>2. phase' = "idle" /\ stranded' \subseteq stranded \cup mod.hooks /\ UNCHANGED files
    BY <1>17 DEF InitializationThrows, RegistrationThrows, Abandon
  <2>3. mod.hooks \subseteq Hook
    OBVIOUS
  <2>. HIDE DEF Mod
  <2>. QED BY <2>1, <2>2, <2>3
<1>11. ASSUME NEW ok \in BOOLEAN, RegisterHook(ok) PROVE TypeOK' /\ Ordered'
  <2>. DEFINE name == HookOrder[mod.step + 1]
              hook == [name |-> name, application |-> mod.application, handle |-> mod.inits]
  <2>1. name \in HookNames
    BY <1>11, HookOrderFacts DEF RegisterHook
  <2>2. mod.application \in 1..MaxInits /\ mod.inits \in 1..MaxInits
    BY <1>11 DEF RegisterHook
  <2>3. hook \in Hook
    BY <2>1, <2>2 DEF Hook
  <2>4. mod.step + 1 \in 0..4
    BY <1>11 DEF RegisterHook
  <2>5. mod' = [mod EXCEPT !.hooks = mod.hooks \cup {h \in {hook} : ok},
                          !.handles[name] = IF ok THEN mod.inits ELSE None,
                          !.step = mod.step + 1]
    BY <1>11 DEF RegisterHook
  <2>6. mod' \in Mod /\ mod'.application = mod.application /\ mod'.inits = mod.inits
                    /\ mod'.registered = mod.registered
    <3>1. mod.hooks \cup {h \in {hook} : ok} \in SUBSET Hook
      BY <2>3
    <3>2. mod.step + 1 \in 0..Len(HookOrder) /\ (IF ok THEN mod.inits ELSE None) \in 0..MaxInits
      BY <2>2, <2>4
    <3>. HIDE DEF hook, name
    <3>. QED BY ONLY TypeOK, <2>1, <2>5, <3>1, <3>2, UpdateForHook DEF TypeOK
  <2>. QED BY <1>11, <2>2, <2>6 DEF RegisterHook
<1>12. CASE Uninstall
    BY <1>12 DEF Uninstall
<1>13. CASE UnregisterHook
  <2>1. mod.step + 1 \in 0..Len(HookOrder)
    BY <1>13 DEF UnregisterHook
  <2>2. \E k \in SUBSET Hook : mod' = [mod EXCEPT !.step = mod.step + 1, !.hooks = k]
    BY <1>13 DEF UnregisterHook
  <2>. QED BY <1>13, <2>1, <2>2, UpdateForRemoval DEF UnregisterHook
<1>14. CASE FinishUnregistering
    BY <1>14, UpdateOfFlag DEF FinishUnregistering
<1>15. CASE UNCHANGED vars
    BY <1>15 DEF vars
<1>. QED
    BY <1>1, <1>2, <1>3, <1>4, <1>5, <1>6, <1>7, <1>8, <1>9, <1>10, <1>11, <1>12, <1>13,
       <1>14, <1>15, <1>16, <1>17 DEF Next

-----------------------------------------------------------------------------
(* The credentials *)

LEMMA UpdateForCredential ==
    ASSUME NEW m \in Mod, NEW c \in Credentials, NEW v \in Whole \cup {Absent}
    PROVE  LET n == [m EXCEPT !.credential[c] = v]
           IN  n.credential = [m.credential EXCEPT ![c] = v] /\ m.credential \in [Credentials -> Whole \cup {Absent}]
BY DEF Mod

\* Outside a start only the files matter.
LEMMA FilesKept ==
    ASSUME KInv, UNCHANGED files, phase' \notin {"token", "writeId", "writeToken", "listen"}
    PROVE  KInv' /\ TokenOnFile'
BY DEF KInv, CredentialKept, TokenOnFile, Relied, files, WritePhase, Loaded, Credentials

LEMMA StepKeepsCredentials ==
    ASSUME TypeOK, TokenOnFile, KInv, [Next]_vars
    PROVE  KInv' /\ TokenOnFile'
<1>. USE DEF Credentials
<1>1. ASSUME NEW c \in Credentials, Administer(c) PROVE KInv' /\ TokenOnFile'
    BY <1>1 DEF Administer, TypeOK, KInv, CredentialKept, TokenOnFile, Relied, WritePhase, Loaded
<1>2. ASSUME NEW c \in Credentials, Load(c) PROVE KInv' /\ TokenOnFile'
  <2>1. mod'.credential = [mod.credential EXCEPT ![c] = file[c]]
        /\ mod.credential \in [Credentials -> Whole \cup {Absent}]
    BY <1>2, UpdateForCredential DEF Load, TypeOK
  <2>2. file[c] # Fragment
    BY <1>2 DEF Load, Whole, Fragment
  <2>. QED BY <1>2, <2>1, <2>2
           DEF Load, AfterLoading, KInv, CredentialKept, TokenOnFile, Relied, WritePhase, Loaded, files
<1>3. ASSUME NEW c \in Credentials, NEW ok \in BOOLEAN, Create(c, ok) PROVE KInv' /\ TokenOnFile'
  <2>. DEFINE v == CHOOSE n \in Whole : n \notin {file[c], served[c]}
  <2>1. v \in Whole
    <3>1. \E n \in Whole : n \notin {file[c], served[c]}
      BY DEF Whole
    <3>. QED BY <3>1
  <2>2. mod' = [mod EXCEPT !.credential[c] = v]
    BY <1>3 DEF Create
  <2>. HIDE DEF v
  <2>3. mod'.credential = [mod.credential EXCEPT ![c] = v]
        /\ mod.credential \in [Credentials -> Whole \cup {Absent}]
    BY <2>1, <2>2, UpdateForCredential DEF TypeOK
  <2>4. ~Relied(c)'
    BY <1>3 DEF Create, MayCreate, KInv, CredentialKept, Relied, TypeOK, Absent, Fragment, Whole
  <2>5. ASSUME NEW d \in Credentials, d # c PROVE CredentialKept(d)'
    BY <1>3, <2>3, <2>5 DEF Create, KInv, CredentialKept, Relied, WritePhase, Loaded, TypeOK
  <2>6. TokenOnFile'
    BY <1>3 DEF Create, TokenOnFile, WritePhase, TypeOK
  <2>. QED BY <2>4, <2>5, <2>6 DEF KInv, CredentialKept
<1>4. ASSUME NEW c \in Credentials, NEW ok \in BOOLEAN, Write(c, ok) PROVE KInv' /\ TokenOnFile'
  <2>1. /\ phase = WritePhase[c] /\ phase' = AfterLoading[c]
        /\ mod' = mod /\ served' = served /\ excused' = excused
        /\ file' = file \/ file' = [file EXCEPT ![c] = mod.credential[c]]
    BY <1>4 DEF Write
  <2>2. DOMAIN file = Credentials
    BY DEF TypeOK
  <2>3. ~Relied(c)
    BY <2>1 DEF KInv, CredentialKept
  <2>4. CredentialKept(c)'
    BY <2>1, <2>3 DEF CredentialKept, Relied
  <2>5. ASSUME NEW d \in Credentials, d # c PROVE CredentialKept(d)'
    <3>1. CredentialKept(d)
      BY <2>5 DEF KInv
    <3>2. file'[d] = file[d] /\ (Relied(d)' <=> Relied(d))
      BY <2>1, <2>2, <2>5 DEF Relied
    <3>3. phase' # WritePhase[d] /\ (phase' \in Loaded[d] => d = "id" /\ c = "token")
      BY <2>1, <2>5 DEF WritePhase, AfterLoading, Loaded
    <3>4. d = "id" /\ c = "token" => phase \in Loaded[d]
      BY <2>1 DEF WritePhase, Loaded
    <3>. QED BY <2>1, <3>1, <3>2, <3>3, <3>4 DEF CredentialKept
  <2>6. TokenOnFile'
    <3>1. CASE c = "id"
      BY <2>1, <3>1 DEF TokenOnFile, AfterLoading
    <3>2. CASE c = "token"
      BY <2>1, <2>2, <3>2 DEF TokenOnFile, WritePhase, AfterLoading
    <3>. QED BY <3>1, <3>2
  <2>. QED BY <2>4, <2>5, <2>6 DEF KInv
<1>5. CASE Listen
  <2>1. phase = "listen" /\ phase' = "register" /\ served' = mod.credential /\ file' = file
        /\ excused' = {c \in {"id"} : file[c] # mod.credential[c]}
    BY <1>5 DEF Listen
  <2>2. CredentialKept("id")'
    BY <2>1 DEF CredentialKept, Relied, WritePhase, Loaded
  <2>3. CredentialKept("token")'
    BY <2>1 DEF CredentialKept, TokenOnFile, Relied, WritePhase, Loaded
  <2>. QED BY <2>1, <2>2, <2>3 DEF KInv, TokenOnFile
<1>6. CASE StartMod \/ EndProcess \/ OnUnrealInit \/ FailInitialization
    BY <1>6, FilesKept DEF StartMod, EndProcess, OnUnrealInit, FailInitialization
<1>7. CASE SkipRegistration \/ InitializationThrows \/ RegistrationThrows \/ FinishRegistration
    BY <1>7, FilesKept DEF SkipRegistration, InitializationThrows, RegistrationThrows,
       FinishRegistration, Abandon
<1>8. ASSUME NEW ok \in BOOLEAN, RegisterHook(ok) PROVE KInv' /\ TokenOnFile'
    BY <1>8, FilesKept DEF RegisterHook
<1>9. CASE Uninstall \/ UnregisterHook \/ FinishUnregistering \/ DestroyApplication
    BY <1>9, FilesKept DEF Uninstall, UnregisterHook, FinishUnregistering, DestroyApplication
<1>10. CASE UNCHANGED vars
    BY <1>10 DEF vars, KInv, CredentialKept, TokenOnFile, Relied
<1>. QED
    BY <1>1, <1>2, <1>3, <1>4, <1>5, <1>6, <1>7, <1>8, <1>9, <1>10 DEF Next

-----------------------------------------------------------------------------
(* The hooks *)

LEMMA StepKeepsHooks ==
    ASSUME LifecycleAssumption, TypeOK, Ordered, HooksInStep, [Next]_vars
    PROVE  HooksInStep'
<1>. USE HookCount DEF HooksInStep, Kept, Current
<1>1. CASE StartMod
    BY <1>1 DEF StartMod
<1>2. CASE EndProcess
    BY <1>2 DEF EndProcess, NewMod
<1>3. ASSUME NEW c \in Credentials, Administer(c) PROVE HooksInStep'
    BY <1>3 DEF Administer
<1>4. ASSUME NEW c \in Credentials, Load(c) PROVE HooksInStep'
  <2>1. /\ mod'.hooks = mod.hooks /\ mod'.handles = mod.handles
        /\ mod'.application = mod.application /\ mod'.registered = mod.registered
    BY <1>4 DEF Load, TypeOK, Mod
  <2>. QED BY <1>4, <2>1 DEF Load, AfterLoading, Credentials
<1>5. CASE OnUnrealInit
  <2>1. mod.inits + 1 \in 0..MaxInits /\ TheApplication \in 0..MaxInits /\ 0 \in 0..Len(HookOrder)
    BY <1>5 DEF LifecycleAssumption, OnUnrealInit, TheApplication, TypeOK, Mod, None
  <2>2. mod' = [mod EXCEPT !.step = 0, !.inits = mod.inits + 1, !.application = TheApplication]
    BY <1>5 DEF OnUnrealInit
  <2>3. /\ mod'.hooks = mod.hooks /\ mod'.handles = mod.handles
        /\ mod'.application = TheApplication /\ mod'.registered = mod.registered
    <3>. DEFINE i == mod.inits + 1
                a == TheApplication
    <3>1. i \in 0..MaxInits /\ a \in 0..MaxInits /\ 0 \in 0..Len(HookOrder) /\ mod \in Mod
      BY <2>1 DEF TypeOK
    <3>2. mod' = [mod EXCEPT !.step = 0, !.inits = i, !.application = a]
      BY <2>2
    <3>. HIDE DEF i, a
    <3>3. /\ mod'.hooks = mod.hooks /\ mod'.handles = mod.handles
          /\ mod'.application = a /\ mod'.registered = mod.registered
      BY ONLY <3>1, <3>2 DEF Mod
    <3>. QED BY <3>3 DEF a
  <2>4. \A h \in Kept : mod.registered /\ (h.name = "logout" => h.application = TheApplication)
    <3>1. \A h \in Kept : h.application # None
      BY DEF TypeOK, Mod, Hook, None
    <3>. QED BY <1>5, <3>1 DEF OnUnrealInit, TheApplication
  <2>. QED BY <1>5, <2>3, <2>4 DEF OnUnrealInit
<1>6. CASE FailInitialization
  <2>1. /\ mod'.hooks = mod.hooks /\ mod'.handles = mod.handles
        /\ mod'.application = mod.application /\ mod'.registered = mod.registered
        /\ mod'.step = mod.step
    BY <1>6 DEF FailInitialization, TypeOK, Mod
  <2>. QED BY <1>6, <2>1 DEF FailInitialization
<1>7. CASE Listen
  <2>1. /\ mod'.hooks = mod.hooks /\ mod'.handles = mod.handles
        /\ mod'.application = mod.application /\ mod'.registered = mod.registered
    BY <1>7 DEF Listen, TypeOK, Mod
  <2>. QED BY <1>7, <2>1 DEF Listen
<1>8. ASSUME NEW c \in Credentials, NEW ok \in BOOLEAN, Create(c, ok) PROVE HooksInStep'
  <2>1. /\ mod'.hooks = mod.hooks /\ mod'.handles = mod.handles
        /\ mod'.application = mod.application /\ mod'.registered = mod.registered
    BY <1>8 DEF Create, TypeOK, Mod
  <2>. QED BY <1>8, <2>1 DEF Create, WritePhase, Credentials
<1>9. ASSUME NEW c \in Credentials, NEW ok \in BOOLEAN, Write(c, ok) PROVE HooksInStep'
    BY <1>9 DEF Write, WritePhase, AfterLoading, Credentials
<1>10. CASE SkipRegistration
    BY <1>10 DEF SkipRegistration
<1>11. ASSUME NEW ok \in BOOLEAN, RegisterHook(ok) PROVE HooksInStep'
  <2>. DEFINE name == HookOrder[mod.step + 1]
              hook == [name |-> name, application |-> mod.application, handle |-> mod.inits]
  <2>1. mod.step \in 0..3 /\ phase = "register" /\ ~mod.registered /\ phase' = "register"
        /\ stranded' = stranded
    BY <1>11 DEF RegisterHook, TypeOK, Mod
  <2>2. name \in HookNames /\ \A i \in 1..mod.step : HookOrder[i] # name
    BY <2>1, HookOrderFacts
  <2>3. mod' = [mod EXCEPT !.hooks = mod.hooks \cup {h \in {hook} : ok},
                          !.handles[name] = IF ok THEN mod.inits ELSE None,
                          !.step = mod.step + 1]
    BY <1>11 DEF RegisterHook
  <2>4. mod.hooks \cup {h \in {hook} : ok} \in SUBSET Hook
    BY <2>1, <2>2 DEF TypeOK, Ordered, Mod, Hook, None, LifecycleAssumption
  <2>5. mod.step + 1 \in 0..Len(HookOrder) /\ (IF ok THEN mod.inits ELSE None) \in 0..MaxInits
    BY <2>1 DEF TypeOK, Mod, None, LifecycleAssumption
  <2>. HIDE DEF hook
  <2>6. /\ mod'.step = mod.step + 1 /\ mod'.hooks = mod.hooks \cup {h \in {hook} : ok}
        /\ mod'.handles = [mod.handles EXCEPT ![name] = IF ok THEN mod.inits ELSE None]
        /\ mod'.application = mod.application /\ mod'.registered = mod.registered
    <3>. DEFINE k == mod.hooks \cup {h \in {hook} : ok}
                i == IF ok THEN mod.inits ELSE None
                s == mod.step + 1
    <3>1. mod \in Mod /\ k \in SUBSET Hook /\ i \in 0..MaxInits /\ s \in 0..Len(HookOrder)
      BY <2>4, <2>5 DEF TypeOK
    <3>2. mod' = [mod EXCEPT !.hooks = k, !.handles[name] = i, !.step = s] /\ name \in HookNames
      BY <2>2, <2>3
    <3>. HIDE DEF k, i, s, name
    <3>3. /\ mod'.step = s /\ mod'.hooks = k /\ mod'.handles = [mod.handles EXCEPT ![name] = i]
          /\ mod'.application = mod.application /\ mod'.registered = mod.registered
      BY ONLY <3>1, <3>2 DEF Mod
    <3>. QED BY <3>3 DEF k, i, s
  <2>7. mod.handles \in [HookNames -> 0..MaxInits] /\ mod.hooks \in SUBSET Hook
    BY DEF TypeOK, Mod
  <2>8. ASSUME NEW h \in Kept
        PROVE  Current(h)' /\ \E i \in 1..(mod.step + 1) : h.name = HookOrder[i]
    <3>1. PICK i \in 1..mod.step : h.name = HookOrder[i]
      BY <2>1, <2>8
    <3>2. h.name # name /\ h.name \in HookNames
      BY <2>2, <2>7, <3>1 DEF Hook
    <3>3. mod'.handles[h.name] = mod.handles[h.name]
      BY <2>6, <2>7, <3>2
    <3>. QED BY <2>1, <2>6, <2>8, <3>1, <3>3
  <2>9. ASSUME ok, NEW h, h = hook
        PROVE  Current(h)' /\ \E i \in 1..(mod.step + 1) : h.name = HookOrder[i]
    <3>1. h.name = name /\ h.application = mod.application /\ h.handle = mod.inits
      BY <2>9 DEF hook
    <3>2. mod'.handles[name] = mod.inits
      BY <2>2, <2>6, <2>7, <2>9
    <3>3. mod.step + 1 \in 1..(mod.step + 1)
      BY <2>1
    <3>. QED BY <2>6, <3>1, <3>2, <3>3
  <2>10. ASSUME NEW h \in Kept'
         PROVE  Current(h)' /\ \E i \in 1..mod'.step : h.name = HookOrder[i]
    <3>1. h \in Kept \/ (ok /\ h = hook)
      BY <2>1, <2>6, <2>10
    <3>. QED BY <2>6, <2>8, <2>9, <2>10, <3>1
  <2>. HIDE DEF Current
  <2>. QED BY <2>1, <2>10
<1>12. CASE InitializationThrows \/ RegistrationThrows
  <2>1. /\ mod'.hooks = mod.hooks /\ mod'.handles = mod.handles
    BY <1>12, AfterThrow
  <2>2. phase' = "idle"
        /\ stranded' = stranded \cup {h \in mod.hooks : h.name = "logout" \/ ~mod'.registered}
    BY <1>12 DEF InitializationThrows, RegistrationThrows, Abandon
  <2>3. \A h \in Kept' : h \in Kept /\ h.name # "logout" /\ mod'.registered
    BY <2>1, <2>2
  <2>. QED BY <2>1, <2>2, <2>3
<1>13. CASE FinishRegistration
  <2>1. mod' = [mod EXCEPT !.registered = TRUE]
    BY <1>13 DEF FinishRegistration
  <2>2. /\ mod'.hooks = mod.hooks /\ mod'.handles = mod.handles
        /\ mod'.application = mod.application /\ mod'.registered
    BY ONLY TypeOK, <2>1, UpdateOfFlag DEF TypeOK
  <2>. QED BY <1>13, <2>2 DEF FinishRegistration
<1>14. CASE Uninstall
  <2>1. /\ mod'.step = 0 /\ mod'.hooks = mod.hooks /\ mod'.handles = mod.handles
        /\ mod'.application = mod.application /\ mod'.registered = mod.registered
    BY <1>14 DEF Uninstall, TypeOK, Mod
  <2>2. \A h \in mod.hooks : \E i \in 1..4 : h.name = HookOrder[i]
    BY HookOrderFacts DEF TypeOK, Mod, Hook
  <2>. QED BY <1>14, <2>1, <2>2 DEF Uninstall
<1>15. CASE UnregisterHook
  <2>. DEFINE name == HookOrder[mod.step + 1]
  <2>1. mod.step \in 0..3 /\ phase = "unregister" /\ phase' = phase /\ stranded' = stranded
    BY <1>15 DEF UnregisterHook, TypeOK, Mod
  <2>2. /\ mod'.step = mod.step + 1
        /\ mod'.hooks = {h \in mod.hooks : h.name # name \/ h.handle # mod.handles[name]}
        /\ mod'.handles = mod.handles /\ mod'.application = mod.application
    BY <1>15 DEF UnregisterHook, TypeOK, Mod
  <2>3. ASSUME NEW h \in Kept'
        PROVE  Current(h)' /\ \E i \in (mod.step + 2)..4 : h.name = HookOrder[i]
    <3>1. h \in Kept /\ Current(h)
      BY <2>1, <2>2, <2>3
    <3>2. PICK i \in (mod.step + 1)..4 : h.name = HookOrder[i]
      BY <2>1, <2>3, <3>1
    <3>3. i # mod.step + 1
      BY <2>2, <2>3, <3>1, <3>2
    <3>. QED BY <2>1, <2>2, <3>1, <3>2, <3>3
  <2>. QED BY <2>1, <2>2, <2>3
<1>16. CASE FinishUnregistering
  <2>1. mod' = [mod EXCEPT !.registered = FALSE] /\ phase = "unregister" /\ phase' = "destroy"
    BY <1>16 DEF FinishUnregistering
  <2>2. /\ mod'.hooks = mod.hooks /\ mod'.handles = mod.handles
        /\ mod'.application = mod.application
    BY ONLY TypeOK, <2>1, UpdateOfFlag DEF TypeOK
  <2>3. Kept' = {}
    <3>1. CASE mod.step = 4 /\ stranded' = stranded
      BY <2>1, <2>2, <3>1
    <3>2. CASE stranded' = stranded \cup mod.hooks
      BY <2>2, <3>2
    <3>. QED BY <1>16, <3>1, <3>2 DEF FinishUnregistering
  <2>. QED BY <2>1, <2>2, <2>3
<1>17. CASE DestroyApplication
  <2>1. phase = "destroy" /\ phase' = "gone" /\ stranded' = stranded /\ ~mod.registered
    BY <1>17 DEF DestroyApplication, Ordered
  <2>2. mod'.hooks = mod.hooks
    BY <1>17, UpdateForEnd DEF DestroyApplication, TypeOK
  <2>. QED BY <2>1, <2>2
<1>18. CASE UNCHANGED vars
    BY <1>18 DEF vars
<1>. QED
    BY <1>1, <1>2, <1>3, <1>4, <1>5, <1>6, <1>7, <1>8, <1>9, <1>10, <1>11, <1>12, <1>13,
       <1>14, <1>15, <1>16, <1>17, <1>18 DEF Next

-----------------------------------------------------------------------------
(* Theorems *)

\* The inductive invariant of the extension: how far each call has come, what
\* the files hold by then, and which hooks are registered.
THEOREM ExtensionInvariantHolds == Spec => []IInv
<1>1. Init => IInv
  <2>1. NewMod \in Mod /\ NewMod.hooks = {} /\ ~NewMod.listening /\ ~NewMod.registered
    BY LifecycleAssumption, HookCount DEF NewMod, Nothing, Mod, Hook, Credentials, Absent, None,
       LifecycleAssumption
  <2>. SUFFICES ASSUME Init PROVE IInv
    OBVIOUS
  <2>2. TypeOK
    BY <2>1 DEF Init, TypeOK, Phases, Nothing
  <2>3. Ordered /\ TokenOnFile /\ KInv
    BY DEF Init, Ordered, TokenOnFile, KInv, CredentialKept, Relied, Nothing
  <2>4. HooksInStep
    BY <2>1 DEF Init, HooksInStep, Kept
  <2>. QED BY <2>2, <2>3, <2>4 DEF IInv
<1>2. IInv /\ [Next]_vars => IInv'
    BY LifecycleAssumption, StepKeepsTypes, StepKeepsCredentials, StepKeepsHooks DEF IInv
<1>. QED BY <1>1, <1>2, PTL DEF Spec

\* Every variable stays in its range, and the HTTP server of an application does
\* not outlive it, whichever call throws.
THEOREM ExtensionTypeCorrect == Spec => []TypeOK
<1>1. IInv => TypeOK
    BY DEF IInv
<1>. QED BY <1>1, ExtensionInvariantHolds, PTL

\* Except for the hooks that a throwing call left behind, no logout meets an
\* application that was destroyed or replaced, no callback an extension that was
\* freed, and every hook can be removed.
THEOREM HooksAreSafe == Spec => []HooksFindTheirTargets
<1>1. IInv => HooksFindTheirTargets
    BY DEF IInv, Ordered, HooksInStep, Kept, Current, HooksFindTheirTargets
<1>. QED BY <1>1, ExtensionInvariantHolds, PTL

\* The credentials that are served change for the named reasons only.
THEOREM CredentialsSurvive == Spec => CredentialsSurviveRestarts
<1>. DEFINE Stays == \A c \in Credentials :
                        served'[c] # served[c] /\ served[c] # Absent => c \in excused
<1>1. IInv /\ [Next]_vars => [Stays]_vars
  <2>. SUFFICES ASSUME IInv, Next PROVE Stays
    OBVIOUS
  <2>1. CASE Listen
    BY <2>1 DEF Listen, IInv, KInv, CredentialKept, Relied, Loaded, Credentials
  <2>2. CASE ~Listen
    <3>1. served' = served
      BY <2>2 DEF Next, StartMod, EndProcess, Administer, Load, OnUnrealInit, FailInitialization,
         InitializationThrows, Abandon,
         Create, Write, SkipRegistration, RegistrationThrows, FinishRegistration, RegisterHook,
         Uninstall, UnregisterHook, FinishUnregistering, DestroyApplication, files
    <3>. QED BY <3>1
  <2>. QED BY <2>1, <2>2
<1>. QED BY <1>1, ExtensionInvariantHolds, PTL DEF Spec, CredentialsSurviveRestarts

-----------------------------------------------------------------------------
(* The configuration file *)

\* f is the loop of load_config() over the first n lines.
IsReading(lines, n, f) ==
    f = [i \in 0..n |-> IF i = 0 THEN Reader ELSE ReadLine(f[i - 1], lines[i])]

LEMMA ReadingExists ==
    ASSUME NEW lines, NEW n \in Nat
    PROVE  \E f : IsReading(lines, n, f)
<1> DEFINE Turn(f, i) == IF i = 0 THEN Reader ELSE ReadLine(f[i - 1], lines[i])
           N == {i \in 0..n : \E f : IsReading(lines, i, f)}
<1>1. 0 \in N
  <2> DEFINE f == [i \in 0..0 |-> Reader]
  <2>1. IsReading(lines, 0, f) BY DEF IsReading
  <2> HIDE DEF f
  <2> QED BY <2>1
<1>2. ASSUME NEW i \in 0..n, i < n, i \in N PROVE i + 1 \in N
  <2>1. PICK g : IsReading(lines, i, g) BY <1>2
  <2> DEFINE f == [j \in 0..(i + 1) |-> IF j = i + 1 THEN Turn(g, i + 1) ELSE g[j]]
  <2>2. ASSUME NEW j \in 0..(i + 1) PROVE f[j] = Turn(f, j)
    <3>1. CASE j = i + 1
      <4>1. f[i] = g[i] /\ f[j] = Turn(g, j) /\ j - 1 = i /\ j # 0 BY <3>1
      <4> QED BY <4>1
    <3>2. CASE j \in 0..i
      <4>1. f[j] = g[j] /\ g[j] = Turn(g, j) BY <3>2, <2>1 DEF IsReading
      <4>2. j # 0 => f[j - 1] = g[j - 1] BY <3>2
      <4> QED BY <4>1, <4>2
    <3> QED BY <3>1, <3>2
  <2>3. f = [j \in 0..(i + 1) |-> f[j]] OBVIOUS
  <2> HIDE DEF f
  <2>4. IsReading(lines, i + 1, f)
    <3>1. [j \in 0..(i + 1) |-> f[j]] = [j \in 0..(i + 1) |-> Turn(f, j)] BY <2>2
    <3> QED BY <3>1, <2>3 DEF IsReading
  <2> QED BY <2>4, <1>2
<1> HIDE DEF N
<1>3. 0..n \subseteq N BY <1>1, <1>2, UpTo
<1> QED BY <1>3 DEF N

LEMMA ConfigIsRead ==
    ASSUME NEW lines, Len(lines) \in Nat
    PROVE  \E f : IsReading(lines, Len(lines), f) /\ LoadConfig(lines) = f[Len(lines)]
<1>1. \E f : IsReading(lines, Len(lines), f) BY ReadingExists
<1> DEFINE f == CHOOSE g : IsReading(lines, Len(lines), g)
<1>2. IsReading(lines, Len(lines), f) BY <1>1
<1>3. LoadConfig(lines) = f[Len(lines)] BY DEF LoadConfig, Reading, IsReading
<1> QED BY <1>2, <1>3

\* What std::stoul() and the conversion to 16 bits let through: a number in the
\* range of a port, or one that wraps into it.
LEMMA PortsWrap ==
    ASSUME NEW v \in Int
    PROVE  IsAcceptable("port", v) <=> IsPort(v)
<1>1. MaxPort \in Nat /\ LongRange \in Nat /\ MaxPort < LongRange BY ConfigurationAssumption
<1>2. IsAcceptable("port", v) <=> FitsLong(v) /\ Stoul(v) \in 1..MaxPort
  BY DEF IsAcceptable, Flags
<1>3. CASE v \in 0..(LongRange - 1)
  <2>1. v % LongRange = v BY <1>1, <1>3
  <2> QED BY <1>1, <1>2, <1>3, <2>1 DEF FitsLong, Stoul, IsPort
<1>4. CASE v \in (1 - LongRange)..(-1)
  <2>1. v % LongRange = v + LongRange BY <1>1, <1>4
  <2> QED BY <1>1, <1>2, <1>4, <2>1 DEF FitsLong, Stoul, IsPort
<1>5. CASE v >= LongRange \/ v <= -LongRange
  BY <1>1, <1>2, <1>5 DEF FitsLong, IsPort
<1> QED BY <1>1, <1>3, <1>4, <1>5

LEMMA LineFacts ==
    ASSUME NEW lines, IsFile(lines), NEW i \in DOMAIN lines
    PROVE  /\ Subject(lines[i]) \in Subjects
           /\ Subject(lines[i]) = "port" => lines[i].port \in Int
           /\ Value(lines[i]) = lines[i][Subject(lines[i])]
           /\ IsWrong(lines[i]) <=>
                 \/ Subject(lines[i]) = "text"
                 \/ /\ Subject(lines[i]) \in Keys
                    /\ ~IsAcceptable(Subject(lines[i]), Value(lines[i]))
<1>1. PICK field \in Subjects :
          DOMAIN lines[i] = {field} /\ (field = "port" => lines[i][field] \in Int)
  BY DEF IsFile
<1>2. Subject(lines[i]) = field BY <1>1 DEF Subject
<1>3. Subject(lines[i]) = "port" => lines[i].port \in Int BY <1>1, <1>2
<1>4. Value(lines[i]) = lines[i][Subject(lines[i])] BY DEF Value
<1>5. Subject(lines[i]) = "port" => (IsAcceptable("port", Value(lines[i])) <=> IsPort(lines[i].port))
  BY <1>3, <1>4, PortsWrap
<1>6. "port" \in Keys /\ "text" \notin Keys BY DEF Keys, Flags
<1> QED BY <1>1, <1>2, <1>3, <1>4, <1>5, <1>6 DEF IsWrong

\* The first i lines leave the reader in the Companion's section.
InSection(lines, i) ==
    \E h \in 1..i :
        /\ Subject(lines[h]) = "section" /\ Value(lines[h]) = "companion"
        /\ \A j \in (h + 1)..i : Subject(lines[j]) # "section"

\* Line j assigns the key.
Assigns(lines, j, key) == Subject(lines[j]) = key /\ Ours(lines, j)

\* The first i lines give the key the value v.
Says(lines, i, key, v) ==
    \/ v = DefaultConfig[key] /\ \A j \in 1..i : ~Assigns(lines, j, key)
    \/ \E j \in 1..i :
          /\ Assigns(lines, j, key) /\ v = Meaning(key, Value(lines[j]))
          /\ \A k \in (j + 1)..i : ~Assigns(lines, k, key)

\* What the reader knows after i lines.
ReadSoFar(lines, i, r) ==
    /\ r = [inCompanionSection |-> r.inCompanionSection, failed |-> r.failed, config |-> r.config]
    /\ r.inCompanionSection \in BOOLEAN /\ r.failed \in BOOLEAN
    /\ r.config = [key \in Keys |-> r.config[key]]
    /\ r.failed <=> \E j \in 1..i : Ours(lines, j) /\ IsWrong(lines[j])
    /\ ~r.failed => (r.inCompanionSection <=> InSection(lines, i))
    /\ ~r.failed => \A key \in Keys : Says(lines, i, key, r.config[key])

LEMMA OursNext ==
    ASSUME NEW lines, NEW i \in Nat
    PROVE  Ours(lines, i + 1) <=> InSection(lines, i) /\ Subject(lines[i + 1]) # "section"
<1>1. \A h \in 1..i : (h + 1)..(i + 1) = ((h + 1)..i) \cup {i + 1} OBVIOUS
<1>2. 1..(i + 1 - 1) = 1..i OBVIOUS
<1> QED BY <1>1, <1>2 DEF Ours, InSection

LEMMA InSectionNext ==
    ASSUME NEW lines, NEW i \in Nat
    PROVE  InSection(lines, i + 1) <=>
              IF Subject(lines[i + 1]) = "section" THEN Value(lines[i + 1]) = "companion"
              ELSE InSection(lines, i)
<1>1. \A h \in 1..i : (h + 1)..(i + 1) = ((h + 1)..i) \cup {i + 1} OBVIOUS
<1>2. 1..(i + 1) = (1..i) \cup {i + 1} OBVIOUS
<1>3. (i + 1 + 1)..(i + 1) = {} OBVIOUS
<1> QED BY <1>1, <1>2, <1>3 DEF InSection

\* A line that does not assign the key, and one that does.
LEMMA SaysNext ==
    ASSUME NEW lines, NEW i \in Nat, NEW key, NEW v, Says(lines, i, key, v)
    PROVE  /\ ~Assigns(lines, i + 1, key) => Says(lines, i + 1, key, v)
           /\ Assigns(lines, i + 1, key) =>
                 Says(lines, i + 1, key, Meaning(key, Value(lines[i + 1])))
<1>1. 1..(i + 1) = (1..i) \cup {i + 1} OBVIOUS
<1>2. \A j \in 1..i : (j + 1)..(i + 1) = ((j + 1)..i) \cup {i + 1} OBVIOUS
<1>3. (i + 1 + 1)..(i + 1) = {} OBVIOUS
<1>4. ASSUME ~Assigns(lines, i + 1, key) PROVE Says(lines, i + 1, key, v)
  BY <1>1, <1>2, <1>4 DEF Says
<1>5. ASSUME Assigns(lines, i + 1, key)
      PROVE  Says(lines, i + 1, key, Meaning(key, Value(lines[i + 1])))
  BY <1>1, <1>3, <1>5 DEF Says
<1> QED BY <1>4, <1>5

\* One turn of the loop.
LEMMA ReadNext ==
    ASSUME NEW lines, IsFile(lines), NEW i \in Nat, i + 1 \in DOMAIN lines,
           NEW r, ReadSoFar(lines, i, r)
    PROVE  ReadSoFar(lines, i + 1, ReadLine(r, lines[i + 1]))
<1> DEFINE line == lines[i + 1]
           t == ReadLine(r, line)
           wrong(n) == \E j \in 1..n : Ours(lines, j) /\ IsWrong(lines[j])
<1> SUFFICES ReadSoFar(lines, i + 1, t) OBVIOUS
<1>1. /\ Subject(line) \in Subjects
      /\ IsWrong(line) <=> \/ Subject(line) = "text"
                           \/ Subject(line) \in Keys /\ ~IsAcceptable(Subject(line), Value(line))
  BY LineFacts
<1>2. "section" \notin Keys /\ "text" \notin Keys BY DEF Keys, Flags
<1>3. Ours(lines, i + 1) <=> InSection(lines, i) /\ Subject(line) # "section" BY OursNext
<1>4. InSection(lines, i + 1) <=>
         IF Subject(line) = "section" THEN Value(line) = "companion" ELSE InSection(lines, i)
  BY InSectionNext
<1>5. wrong(i + 1) <=> wrong(i) \/ (Ours(lines, i + 1) /\ IsWrong(line))
  <2>1. 1..(i + 1) = (1..i) \cup {i + 1} OBVIOUS
  <2> QED BY <2>1
<1>6. /\ r = [inCompanionSection |-> r.inCompanionSection, failed |-> r.failed, config |-> r.config]
      /\ r.inCompanionSection \in BOOLEAN /\ r.failed \in BOOLEAN
      /\ r.config = [key \in Keys |-> r.config[key]]
      /\ r.failed <=> wrong(i)
      /\ ~r.failed => (r.inCompanionSection <=> InSection(lines, i))
      /\ ~r.failed => \A key \in Keys : Says(lines, i, key, r.config[key])
  BY DEF ReadSoFar
<1>7. \A key \in Keys :
         Assigns(lines, i + 1, key) <=> Subject(line) = key /\ Ours(lines, i + 1)
  BY DEF Assigns
<1> HIDE DEF line, wrong
<1>8. \A key \in Keys :
         /\ ~r.failed /\ ~Assigns(lines, i + 1, key) => Says(lines, i + 1, key, r.config[key])
         /\ ~r.failed /\ Assigns(lines, i + 1, key) =>
               Says(lines, i + 1, key, Meaning(key, Value(line)))
  BY <1>6, SaysNext DEF line
<1> DEFINE Is(b, e, c) == t = [inCompanionSection |-> b, failed |-> e, config |-> c]
<1>9. ASSUME NEW b, NEW e, NEW c, Is(b, e, c)
      PROVE  /\ t.inCompanionSection = b /\ t.failed = e /\ t.config = c
             /\ t = [inCompanionSection |-> t.inCompanionSection, failed |-> t.failed,
                     config |-> t.config]
  <2> HIDE DEF t
  <2> QED BY <1>9
<1>10. ASSUME t = [inCompanionSection |-> t.inCompanionSection, failed |-> t.failed,
                   config |-> t.config],
              t.inCompanionSection \in BOOLEAN, t.failed \in BOOLEAN,
              t.config = [key \in Keys |-> t.config[key]],
              t.failed <=> wrong(i + 1),
              ~t.failed => (t.inCompanionSection <=> InSection(lines, i + 1)),
              ~t.failed => \A key \in Keys : Says(lines, i + 1, key, t.config[key])
       PROVE  ReadSoFar(lines, i + 1, t)
  <2> HIDE DEF t
  <2> QED BY <1>10 DEF ReadSoFar, wrong
<1>11. CASE r.failed
  <2>1. t = r BY <1>11 DEF ReadLine
  <2> HIDE DEF t
  <2> QED BY <2>1, <1>5, <1>6, <1>10, <1>11
<1>12. CASE ~r.failed /\ Subject(line) = "section"
  <2> DEFINE b == Value(line) = "companion"
  <2>1. t = [r EXCEPT !.inCompanionSection = b] BY <1>2, <1>12 DEF ReadLine, EnterSection
  <2>2. b \in BOOLEAN OBVIOUS
  <2>3. b <=> InSection(lines, i + 1) BY <1>4, <1>12
  <2> HIDE DEF b, t
  <2>4. Is(b, r.failed, r.config) BY <2>1, <1>6
  <2> HIDE DEF Is
  <2>5. \A key \in Keys : ~Assigns(lines, i + 1, key) BY <1>2, <1>7, <1>12
  <2>6. ~wrong(i + 1) BY <1>3, <1>5, <1>6, <1>12
  <2>7. t.inCompanionSection = b /\ t.failed = r.failed /\ t.config = r.config BY <2>4, <1>9
  <2> QED BY <2>2, <2>3, <2>4, <2>5, <2>6, <2>7, <1>6, <1>8, <1>9, <1>10, <1>12
<1>13. CASE ~r.failed /\ Subject(line) # "section" /\ ~r.inCompanionSection
  <2>1. t = r BY <1>13 DEF ReadLine
  <2>2. ~Ours(lines, i + 1) BY <1>3, <1>6, <1>13
  <2>3. ~wrong(i + 1) BY <2>2, <1>5, <1>6, <1>13
  <2> HIDE DEF t
  <2> QED BY <2>1, <2>2, <2>3, <1>4, <1>6, <1>7, <1>8, <1>10, <1>13
<1>14. CASE ~r.failed /\ r.inCompanionSection /\ Subject(line) # "section"
  <2>1. Ours(lines, i + 1) /\ InSection(lines, i + 1) BY <1>3, <1>4, <1>6, <1>14
  <2>2. CASE IsWrong(line)
    <3>1. t = [r EXCEPT !.failed = TRUE] BY <1>1, <1>2, <1>14, <2>2 DEF ReadLine, Assign
    <3> HIDE DEF t
    <3>2. t = [inCompanionSection |-> r.inCompanionSection, failed |-> TRUE, config |-> r.config]
      BY <3>1, <1>6
    <3>3. wrong(i + 1) BY <2>1, <2>2, <1>5
    <3>4. /\ t.inCompanionSection = r.inCompanionSection /\ t.failed = TRUE /\ t.config = r.config
          /\ t = [inCompanionSection |-> t.inCompanionSection, failed |-> t.failed,
                  config |-> t.config]
      BY <3>2
    <3> QED BY <3>3, <3>4, <1>6, <1>10
  <2>3. CASE ~IsWrong(line) /\ Subject(line) \in Keys
    <3> DEFINE key == Subject(line)
               c == [r.config EXCEPT ![key] = Meaning(key, Value(line))]
    <3>1. t = [r EXCEPT !.config = c] BY <1>1, <1>2, <1>14, <2>3 DEF ReadLine, Assign
    <3>2. ~wrong(i + 1) BY <2>3, <1>5, <1>6, <1>14
    <3>3. c = [k \in Keys |-> c[k]] /\ c[key] = Meaning(key, Value(line))
          /\ \A k \in Keys : k # key => c[k] = r.config[k]
      BY <1>6, <2>3
    <3>4. \A k \in Keys : Assigns(lines, i + 1, k) <=> k = key BY <1>7, <2>1
    <3> HIDE DEF c, t
    <3>5. Is(r.inCompanionSection, r.failed, c) BY <3>1, <1>6
    <3> HIDE DEF Is
    <3>6. \A k \in Keys : Says(lines, i + 1, k, c[k]) BY <3>3, <3>4, <1>8, <1>14
    <3>7. t.inCompanionSection = r.inCompanionSection /\ t.failed = r.failed /\ t.config = c
      BY <3>5, <1>9
    <3> QED BY <3>2, <3>3, <3>5, <3>6, <3>7, <2>1, <1>6, <1>9, <1>10, <1>14
  <2>4. CASE ~IsWrong(line) /\ Subject(line) \notin Keys
    <3>1. t = r BY <1>1, <1>14, <2>4 DEF ReadLine
    <3>2. ~wrong(i + 1) BY <2>4, <1>5, <1>6, <1>14
    <3>3. \A key \in Keys : ~Assigns(lines, i + 1, key) BY <1>7, <2>4
    <3> HIDE DEF t
    <3> QED BY <3>1, <3>2, <3>3, <2>1, <1>6, <1>8, <1>10, <1>14
  <2> QED BY <2>2, <2>3, <2>4
<1> HIDE DEF t
<1> QED BY <1>6, <1>11, <1>12, <1>13, <1>14

\* What load_config() returns is what the reader knows after all lines.
LEMMA AllIsRead ==
    ASSUME NEW lines, IsFile(lines)
    PROVE  ReadSoFar(lines, Len(lines), LoadConfig(lines))
<1> DEFINE n == Len(lines)
<1>1. n \in Nat /\ DOMAIN lines = 1..n BY DEF IsFile
<1>2. PICK f : IsReading(lines, n, f) /\ LoadConfig(lines) = f[n] BY <1>1, ConfigIsRead
<1> DEFINE N == {i \in 0..n : ReadSoFar(lines, i, f[i])}
<1> HIDE DEF n
<1>3. 0 \in N
  <2>1. f[0] = Reader BY <1>1, <1>2 DEF IsReading
  <2>2. ReadSoFar(lines, 0, Reader)
    <3>1. 1..0 = {} OBVIOUS
    <3>2. DefaultConfig = [key \in Keys |-> DefaultConfig[key]]
      <4> DEFINE default(key) ==
                    CASE key \in Flags -> key = "enabled"
                      [] key = "bindAddress" -> "127.0.0.1"
                      [] key = "port" -> DefaultPort
                      [] key = "logLevel" -> "information"
      <4>1. DefaultConfig = [key \in Keys |-> default(key)] BY Zenon DEF DefaultConfig
      <4> HIDE DEF default
      <4> QED BY <4>1
    <3>3. \A key \in Keys : Says(lines, 0, key, DefaultConfig[key]) BY <3>1 DEF Says
    <3>4. ~InSection(lines, 0) BY <3>1 DEF InSection
    <3>5. Reader.config = DefaultConfig /\ Reader.failed = FALSE /\ Reader.inCompanionSection = FALSE
          /\ Reader = [inCompanionSection |-> FALSE, failed |-> FALSE, config |-> DefaultConfig]
      BY DEF Reader
    <3> QED BY <3>1, <3>2, <3>3, <3>4, <3>5 DEF ReadSoFar
  <2> QED BY <2>1, <2>2, <1>1
<1>4. ASSUME NEW i \in 0..n, i < n, i \in N PROVE i + 1 \in N
  <2>1. f[i + 1] = ReadLine(f[i], lines[i + 1])
    <3>1. i + 1 \in 0..n /\ i + 1 # 0 /\ i + 1 - 1 = i BY <1>1, <1>4
    <3> QED BY <3>1, <1>2 DEF IsReading
  <2>2. i \in Nat /\ i + 1 \in DOMAIN lines /\ ReadSoFar(lines, i, f[i]) BY <1>1, <1>4
  <2>3. ReadSoFar(lines, i + 1, f[i + 1]) BY <2>1, <2>2, ReadNext
  <2> QED BY <2>3, <1>1, <1>4
<1> HIDE DEF N
<1>5. 0..n \subseteq N BY <1>1, <1>3, <1>4, UpTo
<1>6. n \in N BY <1>1, <1>5
<1> QED BY <1>2, <1>6 DEF N, n

\* load_config() gives every file, of any length, the meaning its last lines
\* have, and refuses exactly the files with a wrong line in a section of the
\* Companion.
THEOREM FilesMeanWhatTheySay ==
    \A lines : IsFile(lines) => MeansItsLastLines(lines)
<1> SUFFICES ASSUME NEW lines, IsFile(lines) PROVE MeansItsLastLines(lines) OBVIOUS
<1> DEFINE read == LoadConfig(lines)
           n == Len(lines)
           wrong == {i \in DOMAIN lines : Ours(lines, i) /\ IsWrong(lines[i])}
<1>1. n \in Nat /\ DOMAIN lines = 1..n BY DEF IsFile
<1>2. ReadSoFar(lines, n, read) BY AllIsRead
<1>3. read.failed <=> wrong # {} BY <1>1, <1>2 DEF ReadSoFar
<1>4. ASSUME wrong = {}, NEW key \in Keys
      PROVE  LET all == Assignments(lines, key)
                 last == CHOOSE i \in all : \A j \in all : j <= i
             IN  read.config[key] = IF all = {} THEN DefaultConfig[key]
                                    ELSE Meaning(key, lines[last][key])
  <2> DEFINE all == Assignments(lines, key)
             last == CHOOSE i \in all : \A j \in all : j <= i
             v == read.config[key]
  <2>1. Says(lines, n, key, v) BY <1>2, <1>3, <1>4 DEF ReadSoFar
  <2>2. \A j : j \in all <=> j \in 1..n /\ Assigns(lines, j, key)
    BY <1>1 DEF Assignments, Assigns
  <2> HIDE DEF all, v, n
  <2>3. CASE \A j \in 1..n : ~Assigns(lines, j, key)
    <3>1. all = {} BY <2>2, <2>3
    <3>2. v = DefaultConfig[key] BY <2>1, <2>3 DEF Says
    <3> QED BY <3>1, <3>2 DEF all, v
  <2>4. ASSUME NEW j \in 1..n, Assigns(lines, j, key), v = Meaning(key, Value(lines[j])),
               \A k \in (j + 1)..n : ~Assigns(lines, k, key)
        PROVE  all # {} /\ v = Meaning(key, lines[last][key])
    <3>1. j \in all BY <2>2, <2>4
    <3>2. \A k \in all : k <= j
      <4>1. \A k \in 1..n : ~(k \in (j + 1)..n) => k <= j BY <1>1
      <4> QED BY <4>1, <2>2, <2>4
    <3>3. \A i \in all : (\A k \in all : k <= i) => i = j
      <4>1. all \subseteq Int BY <2>2
      <4> QED BY <4>1, <3>1, <3>2
    <3>4. last = j BY <3>1, <3>2, <3>3
    <3>5. j \in DOMAIN lines BY <1>1
    <3>6. Value(lines[j]) = lines[j][key] BY <3>5, <2>4, LineFacts DEF Assigns
    <3> QED BY <3>1, <3>4, <3>6, <2>4
  <2>5. CASE \E j \in 1..n : Assigns(lines, j, key) /\ v = Meaning(key, Value(lines[j]))
                             /\ \A k \in (j + 1)..n : ~Assigns(lines, k, key)
    <3>1. all # {} /\ v = Meaning(key, lines[last][key]) BY <2>4, <2>5
    <3> QED BY <3>1 DEF all, v
  <2> QED BY <2>1, <2>3, <2>5 DEF Says
<1> QED BY <1>3, <1>4 DEF MeansItsLastLines

\* A start that gets past the configuration runs with what the last lines of
\* its file say, whichever of the possible files it is.
THEOREM ConfigurationIsUnderstood == Spec => []ConfigurationMeansItsLastLines
<1>1. ConfigurationMeansItsLastLines
  BY LifecycleAssumption, FilesMeanWhatTheySay
  DEF LifecycleAssumption, ConfigurationMeansItsLastLines, FilesMeanTheirLastLines
<1> QED BY <1>1, PTL
=============================================================================
