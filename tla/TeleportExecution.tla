--------------------------- MODULE TeleportExecution ---------------------------
(***************************************************************************)
(* What a teleport does when a tick runs it: the request a worker thread   *)
(* made of the document it was sent (parse_request, src/src/               *)
(* admin_actions.cpp), executed on the players the hooks have left in      *)
(* active_players_ (execute_teleport, extension/dllmain.cpp).              *)
(*                                                                         *)
(* A tick processes requests before it does anything else, so a request    *)
(* may be executed in every state of PlayerTracking.  It reads that state  *)
(* and changes none of it: the module has no variables of its own, and     *)
(* its properties are about every request executed in every state.  What   *)
(* the game alone decides is a world:                                      *)
(*   special -- the controllers whose player is in a stage instance,       *)
(*   utility -- PalUtility is there (its absence throws),                  *)
(*   floor   -- a safe floor above the sea was found,                      *)
(*   placed  -- K2_TeleportTo accepts the place.                           *)
(***************************************************************************)
EXTENDS PlayerTracking

CONSTANT Unset  \* a field that is missing or has another type than it should

Points == {"inside", "outside", "not_finite_numbers"}

RequestErrors ==
    {"invalid_request_id", "invalid_administrator_player_id", "invalid_target_player_id",
     "identical_players", "legacy_location_contract", "unsupported_coordinate_space",
     "unverified_destination", "invalid_coordinates", "coordinates_out_of_range"}

ExecutionErrors ==
    {"player_offline", "player_state_stale", "special_area_not_supported", "no_destination",
     "execution_failed", "safe_destination_unavailable", "teleport_rejected"}

ASSUME TeleportAssumption ==
    /\ Unset \notin Players \cup Controllers \cup Points
    /\ None \notin RequestErrors \cup ExecutionErrors

ToPlayer == "teleportAdminToPlayer"
ToAdmin == "teleportPlayerToAdmin"
ToLocation == "teleportPlayerToLocation"

\* An identifier is written in capitals, as the game writes it, or otherwise.
WrittenIds == [of : Players, capitals : BOOLEAN]
BadId == [of |-> Unset, capitals |-> TRUE]

\* A JSON object, by what the validation tells apart.
Documents ==
    [requestId : {"valid", "invalid"},
     administrator : WrittenIds \cup {BadId}, target : WrittenIds \cup {BadId},
     legacy : BOOLEAN,  \* has "destination" or "z"
     space : {"palpagos", "other"}, verification : {"palpagos_map", "other"},
     point : Points]

Worlds == [special : SUBSET Controllers, utility : BOOLEAN, floor : BOOLEAN, placed : BOOLEAN]

-----------------------------------------------------------------------------
(* Early returns: the first check that fails names the error. *)

FirstError(checks) ==
    LET failing == {i \in DOMAIN checks : checks[i].fails}
    IN  IF failing = {} THEN None
        ELSE checks[CHOOSE i \in failing : \A j \in failing : i <= j].error

Check(error, fails) == [error |-> error, fails |-> fails]

\* Mutant of Canonical: the letters stay as they are.
AsWritten(id) == id

\* The letters of an identifier are raised before it is compared or kept.
Canonical(id) == [id EXCEPT !.capitals = TRUE]

\* Mutant of SamePlayer: the documents are compared, not what they mean.
SameText(d) == d.administrator = d.target

SamePlayer(d) == Canonical(d.administrator) = Canonical(d.target)

RequestChecks(action, d) ==
    <<Check("invalid_request_id", d.requestId # "valid"),
      Check("invalid_administrator_player_id", d.administrator = BadId),
      Check("invalid_target_player_id", d.target = BadId)>> \o
    (IF action # ToLocation
     THEN <<Check("identical_players", SamePlayer(d))>>
     ELSE <<Check("legacy_location_contract", d.legacy),
            Check("unsupported_coordinate_space", d.space # "palpagos"),
            Check("unverified_destination", d.verification # "palpagos_map"),
            Check("invalid_coordinates", d.point = "not_finite_numbers"),
            Check("coordinates_out_of_range", d.point = "outside")>>)

\* parse_request() of a document it accepts.
Parsed(action, d) ==
    [action |-> action,
     administrator |-> Canonical(d.administrator), target |-> Canonical(d.target),
     destination |-> IF action = ToLocation THEN d.point ELSE Unset,
     space |-> IF action = ToLocation THEN d.space ELSE ""]

AcceptedOf(action) ==
    {Parsed(action, d) :
        d \in {e \in Documents : FirstError(RequestChecks(action, e)) = None}}

Accepted == UNION {AcceptedOf(action) : action \in {ToPlayer, ToAdmin, ToLocation}}

-----------------------------------------------------------------------------
(* execute_teleport() *)

\* find_online_player(); active_players_ holds a player at most once.
IsOnline(id) == id.capitals /\ id.of \in DOMAIN activePlayers

\* The controllers of those of both players who are online.
Involved(r) == {activePlayers[id.of] : id \in {x \in {r.administrator, r.target} : IsOnline(x)}}

\* A location request without a verified destination is told that it is
\* unavailable, too; here it has a name of its own.
ExecutionChecks(r, w) ==
    <<Check("player_offline", ~IsOnline(r.administrator) \/ ~IsOnline(r.target)),
      Check("player_state_stale", \E k \in Involved(r) : ~IsLocated(k)),
      Check("special_area_not_supported", Involved(r) \cap w.special # {}),
      Check("no_destination",
            r.action = ToLocation /\ (r.destination = Unset \/ r.space # "palpagos")),
      Check("execution_failed", r.action = ToLocation /\ ~w.utility),
      Check("safe_destination_unavailable", r.action = ToLocation /\ ~w.floor),
      Check("teleport_rejected", ~w.placed)>>

ExecutionError(r, w) == FirstError(ExecutionChecks(r, w))

\* Mutant of Moving: whoever asks is moved.
MovingAdministrator(r) == activePlayers[r.administrator.of]

\* The controller whose character is moved, and where to: to the character of
\* another controller, or to a point of the map.
Moving(r) == activePlayers[IF r.action = ToPlayer THEN r.administrator.of ELSE r.target.of]

Goal(r) ==
    CASE r.action = ToPlayer -> activePlayers[r.target.of]
      [] r.action = ToAdmin -> activePlayers[r.administrator.of]
      [] r.action = ToLocation -> r.destination

-----------------------------------------------------------------------------
(* Properties *)

MovedPlayer(r) == IF r.action = ToPlayer THEN r.administrator.of ELSE r.target.of
OtherPlayer(r) == IF r.action = ToPlayer THEN r.target.of ELSE r.administrator.of

\* A teleport that succeeds moves the character of the player it is meant to
\* move, through a controller that is still there and plays for that player, to
\* the character of the other player, who is somebody else, or to a point of
\* the verified map; never into or out of a special area.  However logins,
\* logouts and ends of play have interleaved with the ticks.
TeleportsMoveWhomTheyName ==
    \A r \in Accepted, w \in Worlds : ExecutionError(r, w) = None =>
        /\ Moving(r) \in alive \ w.special /\ player[Moving(r)] = MovedPlayer(r)
        /\ IF r.action = ToLocation THEN Goal(r) = "inside"
           ELSE /\ Goal(r) \in alive \ w.special /\ player[Goal(r)] = OtherPlayer(r)
                /\ Goal(r) # Moving(r)

\* docs/ADMIN-ACTIONS.md: "the executor resolves exactly one live controller for
\* each stable player ID".  A request that was accepted, and names players who
\* are connected, visible in the open world and never had two logins at a time,
\* is turned down by nothing but the game: the executor finds them however their
\* identifiers were written, and never misses what the validation let through.
ConnectedPlayersAreTeleported ==
    \A r \in Accepted, w \in Worlds :
        (\A p \in {r.administrator.of, r.target.of} :
            \E k \in Controllers \ (overlapped \cup w.special) :
                player[k] = p /\ Settled(k) /\ IsLocated(k)) =>
        ExecutionError(r, w) \in
            {None, "execution_failed", "safe_destination_unavailable", "teleport_rejected"}
=============================================================================
