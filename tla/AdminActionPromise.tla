-------------------------- MODULE AdminActionPromise --------------------------
(***************************************************************************)
(* What an administrator's client may rely on, whatever threads, queues    *)
(* and deadlines the service uses: a request is either run once or refused *)
(* for good, and whoever asks for it is told which of the two happened.    *)
(***************************************************************************)
EXTENDS Sequences

CONSTANTS Calls, Requests, Outcomes, None

VARIABLES
    asked,    \* what each call asks for
    ran,      \* what running a call's request returned, once it was run
    refused,  \* the calls whose request will never be run on their behalf
    told      \* what each call was told: [of |-> the call it shares, says |-> ...]

vars == <<asked, ran, refused, told>>

Init ==
    /\ asked = [c \in Calls |-> None]
    /\ ran = [c \in Calls |-> <<>>]
    /\ refused = {}
    /\ told = [c \in Calls |-> None]

Ask(c) ==
    /\ asked[c] = None
    /\ \E r \in Requests : asked' = [asked EXCEPT ![c] = r]
    /\ UNCHANGED <<ran, refused, told>>

\* The identifier of a request that is run has never been run before.
Run(c) ==
    /\ asked[c] # None /\ c \notin refused
    /\ \A d \in Calls : ran[d] # <<>> => asked[d].id # asked[c].id
    /\ \E o \in Outcomes : ran' = [ran EXCEPT ![c] = <<o>>]
    /\ UNCHANGED <<asked, refused, told>>

\* A refusal may reach its own call in the same step.
Refuse(c) ==
    /\ ran[c] = <<>>
    /\ refused' = refused \cup {c}
    /\ told' \in {told, [told EXCEPT ![c] = [of |-> c, says |-> "refused"]]}
    /\ UNCHANGED <<asked, ran>>

\* d learns the fate of c, the first call that asked for the same thing.
Tell(d, c) ==
    /\ told[d] = None /\ asked[d] = asked[c]
    /\ \E s \in Outcomes \cup {"refused"} :
          /\ IF s = "refused" THEN c \in refused ELSE ran[c] = <<s>>
          /\ told' = [told EXCEPT ![d] = [of |-> c, says |-> s]]
    /\ UNCHANGED <<asked, ran, refused>>

Next ==
    \/ \E c \in Calls : Ask(c) \/ Run(c) \/ Refuse(c)
    \/ \E c, d \in Calls : Tell(d, c)

Spec == Init /\ [][Next]_vars
=============================================================================
