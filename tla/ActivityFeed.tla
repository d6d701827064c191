----------------------------- MODULE ActivityFeed -----------------------------
(***************************************************************************)
(* The player activity feed: PlayerSessionTracker and PlayerActivityBuffer *)
(* (src/src/player_activity.cpp), read by clients through                  *)
(* GET /palcenter/v1/activity (src/src/http_server.cpp).                   *)
(*                                                                         *)
(* The game thread opens and closes sessions and publishes two records for *)
(* each, in two critical sections of the buffer; the queries of HTTP       *)
(* worker threads fall before, between or after them.  Timestamps are      *)
(* whole milliseconds of a wall clock that may be set back.                *)
(*                                                                         *)
(* A client (external) asks for what is newer than the newest timestamp it *)
(* has been given, for all players or for one.                             *)
(***************************************************************************)
EXTENDS Integers, Sequences, FiniteSets, SequencesExt, FiniteSetsExt, Selection

CONSTANTS
    Players,
    Filters,      \* one client per filter: a player, or None for all of them
    Capacity,     \* capacity_ of the buffer
    Limits,       \* the limits clients ask for
    MaxSessions,  \* bound: sessions ever opened
    MaxTime,      \* bound: the last millisecond of the clock
    None

ASSUME ActivityFeedAssumption ==
    /\ Capacity \in Nat \ {0}
    /\ Limits \subseteq 1..200
    /\ MaxSessions \in Nat /\ MaxTime \in Nat
    /\ Filters \subseteq Players \cup {None} /\ None \notin Players \cup Int

VARIABLES
    now,         \* the wall clock
    steppedBack, \* history: it has been set back
    sessions,    \* active_sessions_: player |-> session identifier and start
    opened,      \* sequence: the number of session identifiers handed out
    publishing,  \* the records the game thread is about to publish
    records,     \* records_ of the buffer
    eventIds,    \* event_ids_ of the buffer
    published,   \* history: every record the buffer accepted
    cursor,      \* the newest timestamp each client was given
    seen,        \* the events each client was given
    excused      \* history: events a client could not be given

trackerVars == <<sessions, opened, publishing>>
bufferVars == <<records, eventIds, published>>
clientVars == <<cursor, seen, excused>>
vars == <<now, steppedBack, trackerVars, bufferVars, clientVars>>

Init ==
    /\ now = 0 /\ steppedBack = FALSE
    /\ sessions = [p \in {} |-> None] /\ opened = 0 /\ publishing = <<>>
    /\ records = <<>> /\ eventIds = {} /\ published = <<>>
    /\ cursor = [c \in Filters |-> None]
    /\ seen = [c \in Filters |-> {}]
    /\ excused = [c \in Filters |-> {}]

-----------------------------------------------------------------------------
(* The clock (external) *)

Advance ==
    /\ now < MaxTime
    /\ now' = now + 1
    /\ UNCHANGED <<steppedBack, trackerVars, bufferVars, clientVars>>

SetBack ==
    /\ now > 0
    /\ now' = now - 1 /\ steppedBack' = TRUE
    /\ UNCHANGED <<trackerVars, bufferVars, clientVars>>

-----------------------------------------------------------------------------
(* PlayerSessionTracker on the game thread *)

\* The identifier of an event is its session's with the type appended.
Record(type, time, player, session, duration) ==
    [id |-> <<session, type>>, time |-> time, player |-> player, duration |-> duration]

\* A player with an open session is not joined again.
Join(p) ==
    /\ publishing = <<>> /\ p \notin DOMAIN sessions /\ opened < MaxSessions
    /\ opened' = opened + 1
    /\ sessions' = [q \in DOMAIN sessions \cup {p} |->
                       IF q = p THEN [id |-> opened, started |-> now] ELSE sessions[q]]
    /\ publishing' = <<Record("player_joined", now, p, opened, None),
                       Record("session_started", now, p, opened, None)>>
    /\ UNCHANGED <<now, steppedBack, bufferVars, clientVars>>

\* A clock that was set back would make the session's length negative.  The code
\* rounds the length down to seconds.
Duration(session) == Max({now, session.started}) - session.started

\* Mutant of Leave: the session stays open.
LeaveKeepingSession(p) ==
    /\ publishing = <<>> /\ p \in DOMAIN sessions
    /\ publishing' =
          LET s == sessions[p]
          IN  <<Record("player_left", now, p, s.id, Duration(s)),
                Record("session_ended", now, p, s.id, Duration(s))>>
    /\ UNCHANGED <<now, steppedBack, sessions, opened, bufferVars, clientVars>>

\* Mutant of Leave: the records carry the time the session began.
LeaveStampedWithStart(p) ==
    /\ publishing = <<>> /\ p \in DOMAIN sessions
    /\ sessions' = [q \in DOMAIN sessions \ {p} |-> sessions[q]]
    /\ publishing' =
          LET s == sessions[p]
          IN  <<Record("player_left", s.started, p, s.id, Duration(s)),
                Record("session_ended", s.started, p, s.id, Duration(s))>>
    /\ UNCHANGED <<now, steppedBack, opened, bufferVars, clientVars>>

Leave(p) ==
    /\ publishing = <<>> /\ p \in DOMAIN sessions
    /\ sessions' = [q \in DOMAIN sessions \ {p} |-> sessions[q]]
    /\ publishing' =
          LET s == sessions[p]
          IN  <<Record("player_left", now, p, s.id, Duration(s)),
                Record("session_ended", now, p, s.id, Duration(s))>>
    /\ UNCHANGED <<now, steppedBack, opened, bufferVars, clientVars>>

-----------------------------------------------------------------------------
(* PlayerActivityBuffer *)

Ids(s) == {s[i].id : i \in DOMAIN s}

\* The newest n of a sequence.
Newest(s, n) == SubSeq(s, Max({1, Len(s) - n + 1}), Len(s))

\* Mutant of Room: the limit is checked one too late.
RoomBeyondCapacity(s) == Newest(s, Capacity)

\* What stays when there has to be room for one more record.
Room(s) == Newest(s, Capacity - 1)

\* Mutant of Forgotten: an evicted record's identifier is remembered.
ForgottenNever(s) == {}

\* The identifiers that leave with the evicted records.
Forgotten(s) == Ids(s) \ Ids(Room(s))

\* A record whose identifier is in the buffer is refused.  A client will not
\* get what it has not seen of the evicted records, nor the new record if it
\* is not newer than the client's cursor.
Publish ==
    LET r == Head(publishing)
    IN  /\ publishing # <<>>
        /\ publishing' = Tail(publishing)
        /\ IF r.id \in eventIds
           THEN UNCHANGED <<bufferVars, excused>>
           ELSE /\ records' = Append(Room(records), r)
                /\ eventIds' = (eventIds \ Forgotten(records)) \cup {r.id}
                /\ published' = Append(published, r)
                /\ excused' =
                      [c \in Filters |->
                          excused[c] \cup (Ids(records) \ (Ids(Room(records)) \cup seen[c]))
                             \cup IF cursor[c] # None /\ r.time <= cursor[c] THEN {r.id} ELSE {}]
        /\ UNCHANGED <<now, steppedBack, sessions, opened, cursor, seen>>

Matches(r, player) == player = None \/ r.player = player

Matching(after, player) ==
    {r \in ToSet(records) : (after = None \/ r.time > after) /\ Matches(r, player)}

\* Mutant of Query: the limit is applied before the filter.
QueryLimitedFirst(after, player, limit) ==
    Selected(Newest(records, limit), Matching(after, player))

Query(after, player, limit) == Newest(Selected(records, Matching(after, player)), limit)

\* One request of a client.  Beyond the limit the oldest matches are cut; the
\* route cuts more of them when the body is too long, as a smaller limit would.
Poll(c, limit) ==
    LET answer == Query(cursor[c], c, limit)
        matches == {r.id : r \in Matching(cursor[c], c)}
    IN  /\ answer # <<>>
        /\ cursor' = [cursor EXCEPT ![c] = Last(answer).time]
        /\ seen' = [seen EXCEPT ![c] = @ \cup Ids(answer)]
        /\ excused' = [excused EXCEPT ![c] =
                          @ \cup IF Cardinality(matches) > limit THEN matches \ Ids(answer) ELSE {}]
        /\ UNCHANGED <<now, steppedBack, trackerVars, bufferVars>>

Next ==
    \/ Advance \/ SetBack
    \/ \E p \in Players : Join(p) \/ Leave(p)
    \/ Publish
    \/ \E c \in Filters, limit \in Limits : Poll(c, limit)

Spec == Init /\ [][Next]_vars

-----------------------------------------------------------------------------
(* Properties *)

Types == {"player_joined", "session_started", "player_left", "session_ended"}
EventIds == (0..(MaxSessions - 1)) \X Types
Records == [id : EventIds, time : 0..MaxTime, player : Players, duration : 0..MaxTime \cup {None}]
Sessions == [id : 0..(MaxSessions - 1), started : 0..MaxTime]

\* Every variable stays in its range: the buffer within its capacity, and no
\* duration below zero although the clock is set back.
TypeOK ==
    /\ now \in 0..MaxTime /\ steppedBack \in BOOLEAN
    /\ DOMAIN sessions \subseteq Players /\ \A p \in DOMAIN sessions : sessions[p] \in Sessions
    /\ opened \in 0..MaxSessions
    /\ publishing \in Seq(Records) /\ Len(publishing) <= 2
    /\ records \in Seq(Records) /\ Len(records) <= Capacity
    /\ eventIds \subseteq EventIds
    /\ published \in Seq(Records)
    /\ cursor \in [Filters -> 0..MaxTime \cup {None}]
    /\ seen \in [Filters -> SUBSET EventIds] /\ excused \in [Filters -> SUBSET EventIds]

\* records_ and event_ids_, updated side by side, always agree: no identifier
\* outlives its record (a later record would be refused) and none is twice in
\* the buffer.
EventIdsMatchRecords ==
    /\ eventIds = Ids(records)
    /\ Cardinality(eventIds) = Len(records)

Story == <<"player_joined", "session_started", "player_left", "session_ended">>

EventsOf(n) == {r \in Records : r.id[1] = n}

StoryOf(n) ==
    LET told == Selected(published \o publishing, EventsOf(n))
    IN  [i \in DOMAIN told |-> told[i].id[2]]

\* What the feed has told, with what the game thread is about to tell, is in
\* step with the tracker: a session tells its four events once and in order,
\* and stops after two exactly as long as the player's session is open.
SessionsTellTheirStory ==
    \A n \in 0..(opened - 1) :
        StoryOf(n) = IF \E p \in DOMAIN sessions : sessions[p].id = n
                     THEN SubSeq(Story, 1, 2) ELSE Story

\* docs/API.md: records are "in chronological order".  They are as long as the
\* wall clock is not set back, because the tracker takes the time of a record
\* and publishes it in one critical section of its caller.
ChronologicalUnlessSetBack ==
    ~steppedBack => \A i, j \in DOMAIN records : i < j => records[i].time <= records[j].time

\* A client that follows the newest timestamp it was given misses a record for
\* three reasons only: the record was evicted first, was cut by the limit, or
\* was published with a time that is not newer than the client's cursor (the
\* second record of a session, when a poll fell between the two).  Everything
\* else it has, or the next poll without a limit brings.
PollingMissesNothingElse ==
    \A c \in Filters, i \in DOMAIN published :
        Matches(published[i], c) =>
            published[i].id \in seen[c] \cup excused[c] \cup Ids(Query(cursor[c], c, Capacity))

=============================================================================
