---------------------------- MODULE PlayerTracking ----------------------------
(***************************************************************************)
(* How the extension follows players: the Unreal hooks of extension/       *)
(* dllmain.cpp (BeginPlay, EndPlay, K2_OnLogout and the engine tick), with *)
(* the PlayerSessionTracker and the PlayerLocationStore they drive through *)
(* CompanionApplication.  Every callback runs on the game thread, one      *)
(* after the other, so one callback is one step.                           *)
(*                                                                         *)
(* The game is external.  A controller actor plays for one player at a     *)
(* time; its PlayerState is replicated some time after BeginPlay and is    *)
(* readable through the controller until the state's own EndPlay.  The     *)
(* state and the controller end in either order, with or without a logout, *)
(* and ticks may fall in between.  An ended controller's address can come  *)
(* back for another login.                                                 *)
(***************************************************************************)
EXTENDS Integers, Sequences, FiniteSets, SequencesExt, Selection

CONSTANTS
    Players,
    Controllers,      \* actor addresses
    MaxPendingJoins,  \* maximum_pending_joins_
    None

ASSUME PlayerTrackingAssumption ==
    /\ MaxPendingJoins \in Nat \ {0}
    /\ None \notin Players \cup Controllers

VARIABLES
    \* the game
    player,     \* the player each controller plays for
    alive,      \* the controllers that have begun and not ended
    identity,   \* what the PlayerState shows: nothing yet, the id alone, id and name, or gone
    pawns,      \* the controllers whose character can be located
    leaving,    \* the controllers that have logged out
    \* the extension
    pendingJoins,   \* pending_joins_, in arrival order
    activePlayers,  \* active_players_: player |-> controller
    sessions,       \* active_sessions_ of the session tracker
    locations,      \* locations_: player |-> the controller sampled
    dropped,        \* history: joins refused by a full queue or expired
    overlapped      \* history: logins that shared their player with another one

gameVars == <<player, alive, identity, pawns, leaving>>
vars == <<gameVars, pendingJoins, activePlayers, sessions, locations, dropped,
          overlapped>>

Init ==
    /\ player = [k \in Controllers |-> None]
    /\ alive = {} /\ pawns = {} /\ leaving = {}
    /\ identity = [k \in Controllers |-> "gone"]
    /\ pendingJoins = <<>>
    /\ activePlayers = [p \in {} |-> None]
    /\ sessions = {}
    /\ locations = [p \in {} |-> None]
    /\ dropped = {} /\ overlapped = {}

-----------------------------------------------------------------------------
(* Helpers *)

\* The controllers through which the player is, or still is, in the game.
Logins(p) == {k \in Controllers : player[k] = p /\ (k \in alive \/ identity[k] # "gone")}

IsResolvedIdentity(k) == identity[k] = "resolved"

\* location_from_controller() finds a position: it needs a character and a
\* PlayerState.
IsLocated(k) == k \in pawns /\ identity[k] # "gone"

\* PlayerLocationStore::update() of every player in S, sampled through f.
Located(S, f) == [p \in DOMAIN locations \cup S |-> IF p \in S THEN f[p] ELSE locations[p]]

Without(f, S) == [x \in DOMAIN f \ S |-> f[x]]

\* Mutant of PlayerLeft: the location goes only with an open session.
PlayerLeftInSession(S) ==
    /\ locations' = Without(locations, S \cap sessions)
    /\ sessions' = sessions \ S

\* application_->player_left(): the location goes even when no session is open.
PlayerLeft(S) ==
    /\ locations' = Without(locations, S)
    /\ sessions' = sessions \ S

-----------------------------------------------------------------------------
(* The game on its own *)

ReplicateState(k) ==
    /\ k \in alive /\ identity[k] \in {"unset", "id"}
    /\ identity' = [identity EXCEPT ![k] = IF @ = "unset" THEN "id" ELSE "resolved"]
    /\ UNCHANGED <<player, alive, pawns, leaving, pendingJoins, activePlayers, sessions,
                   locations, dropped, overlapped>>

ChangePawn(k) ==
    /\ k \in alive
    /\ pawns' = IF k \in pawns THEN pawns \ {k} ELSE pawns \cup {k}
    /\ UNCHANGED <<player, alive, identity, leaving, pendingJoins, activePlayers, sessions,
                   locations, dropped, overlapped>>

-----------------------------------------------------------------------------
(* The hooks *)

\* Mutant of BeginPlay: the limit is checked one too late.
BeginPlayBeyondLimit(k, p) ==
    /\ k \notin alive /\ identity[k] = "gone"
    /\ player' = [player EXCEPT ![k] = p]
    /\ identity' = [identity EXCEPT ![k] = "unset"]
    /\ alive' = alive \cup {k}
    /\ IF Len(pendingJoins) > MaxPendingJoins
       THEN pendingJoins' = pendingJoins /\ dropped' = dropped \cup {k}
       ELSE pendingJoins' = Append(pendingJoins, k) /\ dropped' = dropped \ {k}
    /\ overlapped' = IF Logins(p) = {} THEN overlapped \ {k} ELSE overlapped \cup Logins(p) \cup {k}
    /\ UNCHANGED <<pawns, leaving, activePlayers, sessions, locations>>

\* BeginPlay of a controller: the join waits for its identity, unless the
\* queue is full; a controller that is already waiting is not queued twice.
BeginPlay(k, p) ==
    /\ k \notin alive /\ identity[k] = "gone"
    /\ player' = [player EXCEPT ![k] = p]
    /\ identity' = [identity EXCEPT ![k] = "unset"]
    /\ alive' = alive \cup {k}
    /\ IF Len(pendingJoins) >= MaxPendingJoins
       THEN pendingJoins' = pendingJoins /\ dropped' = dropped \cup {k}
       ELSE /\ pendingJoins' = IF Contains(pendingJoins, k) THEN pendingJoins
                               ELSE Append(pendingJoins, k)
            /\ dropped' = dropped \ {k}
    /\ overlapped' = IF Logins(p) = {} THEN overlapped \ {k} ELSE overlapped \cup Logins(p) \cup {k}
    /\ UNCHANGED <<pawns, leaving, activePlayers, sessions, locations>>

\* K2_OnLogout: only the player id is needed, and active_players_ stays.
Logout(k) ==
    /\ k \in alive \ leaving
    /\ leaving' = leaving \cup {k}
    /\ IF identity[k] \in {"id", "resolved"} THEN PlayerLeft({player[k]})
       ELSE UNCHANGED <<sessions, locations>>
    /\ UNCHANGED <<player, alive, identity, pawns, pendingJoins, activePlayers, dropped,
                   overlapped>>

\* Mutant of StateEndPlay: the active entry is left to the controller's EndPlay.
StateEndPlayKeepingActive(k) ==
    /\ identity[k] # "gone"
    /\ identity' = [identity EXCEPT ![k] = "gone"]
    /\ IF IsResolvedIdentity(k) THEN PlayerLeft({player[k]}) ELSE UNCHANGED <<sessions, locations>>
    /\ UNCHANGED <<player, alive, pawns, leaving, pendingJoins, activePlayers, dropped, overlapped>>

\* EndPlay of a PlayerState: everything under its player id goes.
StateEndPlay(k) ==
    /\ identity[k] # "gone"
    /\ identity' = [identity EXCEPT ![k] = "gone"]
    /\ IF IsResolvedIdentity(k)
       THEN PlayerLeft({player[k]}) /\ activePlayers' = Without(activePlayers, {player[k]})
       ELSE UNCHANGED <<sessions, locations, activePlayers>>
    /\ UNCHANGED <<player, alive, pawns, leaving, pendingJoins, dropped, overlapped>>

\* Mutant of ControllerEndPlay: the waiting join stays.
ControllerEndPlayKeepingJoin(k) ==
    /\ k \in alive
    /\ alive' = alive \ {k} /\ pawns' = pawns \ {k} /\ leaving' = leaving \ {k}
    /\ IF IsResolvedIdentity(k)
       THEN /\ PlayerLeft({player[k]})
            /\ activePlayers' = Without(activePlayers,
                                        {p \in DOMAIN activePlayers : activePlayers[p] = k})
       ELSE UNCHANGED <<sessions, locations, activePlayers>>
    /\ UNCHANGED <<player, identity, pendingJoins, dropped, overlapped>>

\* EndPlay of a controller: its waiting join goes, and what is active under
\* this controller if the identity can still be read.
ControllerEndPlay(k) ==
    /\ k \in alive
    /\ alive' = alive \ {k} /\ pawns' = pawns \ {k} /\ leaving' = leaving \ {k}
    /\ pendingJoins' = Selected(pendingJoins, Controllers \ {k})
    /\ IF IsResolvedIdentity(k)
       THEN /\ PlayerLeft({player[k]})
            /\ activePlayers' = Without(activePlayers,
                                        {p \in DOMAIN activePlayers : activePlayers[p] = k})
       ELSE UNCHANGED <<sessions, locations, activePlayers>>
    /\ UNCHANGED <<player, identity, dropped, overlapped>>

\* The joins a tick resolves, the players it adds, and who plays for them: the
\* first resolved controller of a player that is not active yet.
Resolved == Selected(pendingJoins, {k \in Controllers : IsResolvedIdentity(k)})

Joining == {player[Resolved[i]] : i \in DOMAIN Resolved}

\* Mutant of FirstController: the head of the queue, resolved or not.
HeadOfQueue(p) == Head(pendingJoins)

FirstController(p) ==
    Resolved[CHOOSE i \in DOMAIN Resolved :
                player[Resolved[i]] = p /\ \A j \in 1..(i - 1) : player[Resolved[j]] # p]

\* Mutant of Tick: only players whose session is open are located.
TickLocatingSessions(expired, sampling) ==
    LET active == [p \in DOMAIN activePlayers \cup Joining |->
                      IF p \in DOMAIN activePlayers THEN activePlayers[p] ELSE FirstController(p)]
        located == {p \in sessions : p \in DOMAIN active /\ IsLocated(active[p])}
    IN  /\ expired \subseteq {k \in Controllers : Contains(pendingJoins, k)
                                                    /\ ~IsResolvedIdentity(k)}
        /\ pendingJoins' = Selected(pendingJoins,
                              {k \in Controllers : ~IsResolvedIdentity(k)} \ expired)
        /\ dropped' = dropped \cup expired
        /\ sessions' = sessions \cup Joining
        /\ activePlayers' = active
        /\ locations' = IF sampling THEN Located(located, active) ELSE locations
        /\ UNCHANGED <<gameVars, overlapped>>

\* The engine tick: resolved joins leave the queue, open a session and become
\* active; unresolved ones past their deadline leave it for good (time is
\* abstract: any of them may be past it); when the sampling interval is over
\* the location of every active player that has one is stored.
Tick(expired, sampling) ==
    LET active == [p \in DOMAIN activePlayers \cup Joining |->
                      IF p \in DOMAIN activePlayers THEN activePlayers[p] ELSE FirstController(p)]
        located == {p \in DOMAIN active : IsLocated(active[p])}
    IN  /\ expired \subseteq {k \in Controllers : Contains(pendingJoins, k)
                                                    /\ ~IsResolvedIdentity(k)}
        /\ pendingJoins' = Selected(pendingJoins,
                              {k \in Controllers : ~IsResolvedIdentity(k)} \ expired)
        /\ dropped' = dropped \cup expired
        /\ sessions' = sessions \cup Joining
        /\ activePlayers' = active
        /\ locations' = IF sampling THEN Located(located, active) ELSE locations
        /\ UNCHANGED <<gameVars, overlapped>>

Next ==
    \/ \E k \in Controllers :
          \/ ReplicateState(k) \/ ChangePawn(k)
          \/ \E p \in Players : BeginPlay(k, p)
          \/ Logout(k) \/ StateEndPlay(k) \/ ControllerEndPlay(k)
    \/ \E expired \in SUBSET Controllers, sampling \in BOOLEAN : Tick(expired, sampling)

Spec == Init /\ [][Next]_vars

\* The engine keeps ticking and the sampling interval keeps elapsing.
FairSpec == Spec /\ WF_vars(\E expired \in SUBSET Controllers : Tick(expired, TRUE))

-----------------------------------------------------------------------------
(* Properties *)

PartialMap(S, T) == UNION {[D -> T] : D \in SUBSET S}

\* Every variable stays in its range, the join queue within its limit, and no
\* controller waits in it twice.
TypeOK ==
    /\ player \in [Controllers -> Players \cup {None}]
    /\ alive \subseteq Controllers /\ pawns \subseteq alive /\ leaving \subseteq alive
    /\ identity \in [Controllers -> {"unset", "id", "resolved", "gone"}]
    /\ pendingJoins \in Seq(Controllers) /\ Len(pendingJoins) <= MaxPendingJoins
    /\ IsInjective(pendingJoins)
    /\ activePlayers \in PartialMap(Players, Controllers)
    /\ sessions \subseteq Players
    /\ locations \in PartialMap(Players, Controllers)
    /\ dropped \subseteq Controllers /\ overlapped \subseteq Controllers

\* The extension keeps raw actor pointers in pending_joins_ and active_players_
\* and reads through them on every tick and for every teleport: none of them
\* ever points to a controller that has ended.
NoDanglingControllers ==
    /\ \A i \in DOMAIN pendingJoins : pendingJoins[i] \in alive
    /\ \A p \in DOMAIN activePlayers : activePlayers[p] \in alive

\* The pointer an active player is reached through is one that plays for that
\* player: nobody is located at, or teleported as, somebody else.
ActiveUnderOwnController ==
    \A p \in DOMAIN activePlayers :
        player[activePlayers[p]] = p /\ identity[activePlayers[p]] = "resolved"

\* docs/LOCATIONS.md: locations are removed when the player leaves.  Once no
\* actor of a player is left, nothing of the player is: no session, no active
\* entry, no location that a late tick put back.
NothingIsLeftOfAbsentPlayers ==
    \A p \in Players : Logins(p) = {} =>
        p \notin sessions \cup DOMAIN activePlayers \cup DOMAIN locations

\* A login that has shown its identity, has not logged out and has left the
\* queue without being dropped: the code has nothing left to do for it.
Settled(k) ==
    /\ k \in alive \ (leaving \cup dropped)
    /\ identity[k] = "resolved" /\ ~Contains(pendingJoins, k)

Tracked(k) ==
    player[k] \in DOMAIN activePlayers \cap sessions /\ activePlayers[player[k]] = k

\* A settled login that never shared its player with another one is followed:
\* it is the active one of its player and its session is open.
SoleLoginsAreTracked == \A k \in Controllers \ overlapped : Settled(k) => Tracked(k)

\* docs/LOCATIONS.md: "the latest in-memory location for each connected
\* player".  The code breaks it when a player's new login begins before the old
\* one has ended: the new controller leaves the queue without becoming active,
\* and the end of the old one removes the player.
ConnectedPlayersAreTracked ==
    \A k \in Controllers : Settled(k) =>
        \E j \in Controllers : player[j] = player[k] /\ Tracked(j)

\* A player whose character can be located gets a location, or stops being
\* active, or loses the character again.
ActivePlayersAreLocated ==
    \A p \in Players, k \in Controllers :
        LET here == p \in DOMAIN activePlayers /\ activePlayers[p] = k /\ k \in pawns
        IN  here ~> (~here \/ (p \in DOMAIN locations /\ locations[p] = k))

=============================================================================
