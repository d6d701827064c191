----------------------------- MODULE Configuration -----------------------------
(***************************************************************************)
(* What the Companion makes of its configuration file: load_config() of    *)
(* src/src/config.cpp, line by line, beside a definition that does not     *)
(* read in order.                                                          *)
(*                                                                         *)
(* A line is a record of one field: what the line is about, and the rest   *)
(* of it.  The field is one of the keys, or                                *)
(*   section -- [name],                                                    *)
(*   comment -- empty, or behind ; or #,                                   *)
(*   text    -- neither of them, and no '=' in it,                         *)
(*   unknown -- any other key.                                             *)
(* Letter case and surrounding blanks do not count in names, keys and      *)
(* words.  A port is a number in the file; what is no number is 0, which   *)
(* is refused likewise.                                                    *)
(***************************************************************************)
EXTENDS Integers, Sequences

CONSTANTS
    MaxPort,    \* the largest std::uint16_t
    LongRange,  \* how many values unsigned long has: 2^32 where the extension runs
    DefaultPort

ASSUME ConfigurationAssumption ==
    /\ MaxPort \in Nat /\ LongRange \in Nat /\ MaxPort < LongRange
    /\ DefaultPort \in 1..MaxPort

Truths == {"true", "1", "yes"}
Falsehoods == {"false", "0", "no"}
Levels == [debug |-> "debug", information |-> "information", info |-> "information",
           warning |-> "warning", warn |-> "warning", error |-> "error"]

Flags == {"enabled", "adminActionsEnabled", "teleportAdminToPlayerEnabled",
          "teleportPlayerToAdminEnabled", "teleportPlayerToLocationEnabled"}
Keys == Flags \cup {"bindAddress", "port", "logLevel"}

DefaultConfig ==
    [key \in Keys |->
        CASE key \in Flags -> key = "enabled"
          [] key = "bindAddress" -> "127.0.0.1"
          [] key = "port" -> DefaultPort
          [] key = "logLevel" -> "information"]

Subjects == Keys \cup {"section", "comment", "text", "unknown"}

\* A file is a sequence of such lines; a port is a number.
IsFile(lines) ==
    /\ Len(lines) \in Nat /\ DOMAIN lines = 1..Len(lines)
    /\ \A i \in DOMAIN lines : \E field \in Subjects :
          DOMAIN lines[i] = {field} /\ (field = "port" => lines[i][field] \in Int)

Subject(line) == CHOOSE field \in DOMAIN line : TRUE
Value(line) == line[Subject(line)]

\* std::stoul() of a number with a sign: the magnitude must fit, and a minus
\* sign wraps.
Stoul(n) == n % LongRange
FitsLong(n) == -LongRange < n /\ n < LongRange

IsAcceptable(key, value) ==
    CASE key \in Flags -> value \in Truths \cup Falsehoods
      [] key = "bindAddress" -> value # ""
      [] key = "port" -> FitsLong(value) /\ Stoul(value) \in 1..MaxPort
      [] key = "logLevel" -> value \in DOMAIN Levels

Meaning(key, value) ==
    CASE key \in Flags -> value \in Truths
      [] key = "bindAddress" -> value
      [] key = "port" -> Stoul(value)
      [] key = "logLevel" -> Levels[value]

-----------------------------------------------------------------------------
(* Reading *)

Reader == [inCompanionSection |-> FALSE, failed |-> FALSE, config |-> DefaultConfig]

\* Mutant of EnterSection: a section of another program does not end ours.
EnterCompanion(r, name) ==
    IF name = "companion" THEN [r EXCEPT !.inCompanionSection = TRUE] ELSE r

EnterSection(r, name) == [r EXCEPT !.inCompanionSection = name = "companion"]

Assign(r, key, value) ==
    IF IsAcceptable(key, value) THEN [r EXCEPT !.config[key] = Meaning(key, value)]
    ELSE [r EXCEPT !.failed = TRUE]

\* One turn of the loop; an exception ends it.
ReadLine(r, line) ==
    CASE ~r.failed /\ Subject(line) = "section" -> EnterSection(r, Value(line))
      [] ~r.failed /\ r.inCompanionSection /\ Subject(line) = "text" -> [r EXCEPT !.failed = TRUE]
      [] ~r.failed /\ r.inCompanionSection /\ Subject(line) \in Keys ->
            Assign(r, Subject(line), Value(line))
      [] OTHER -> r

\* The loop, and what it has made of the file at its end.
Reading(lines) ==
    LET read[i \in 0..Len(lines)] ==
            IF i = 0 THEN Reader ELSE ReadLine(read[i - 1], lines[i])
    IN  read

LoadConfig(lines) == Reading(lines)[Len(lines)]

-----------------------------------------------------------------------------
(* The reference: what a file means *)

\* The line follows the heading of the Companion's section, and no other.
Ours(lines, i) ==
    \E h \in 1..(i - 1) :
        /\ Subject(lines[h]) = "section" /\ Value(lines[h]) = "companion"
        /\ \A j \in (h + 1)..i : Subject(lines[j]) # "section"

IsPort(n) == n \in 1..MaxPort \/ (-LongRange < n /\ n + LongRange \in 1..MaxPort)

IsWrong(line) ==
    \/ Subject(line) = "text"
    \/ Subject(line) = "port" /\ ~IsPort(line.port)
    \/ Subject(line) \in Keys \ {"port"} /\ ~IsAcceptable(Subject(line), Value(line))

Assignments(lines, key) ==
    {i \in DOMAIN lines : Subject(lines[i]) = key /\ Ours(lines, i)}

\* The file configures what the last lines of the Companion's sections say, key
\* by key, with the defaults for the rest, whatever other sections and keys are
\* between them; it is refused if one of those lines is wrong, and only then.
MeansItsLastLines(lines) ==
    LET wrong == {i \in DOMAIN lines : Ours(lines, i) /\ IsWrong(lines[i])}
        read == LoadConfig(lines)
    IN  /\ read.failed <=> wrong # {}
        /\ wrong = {} => \A key \in Keys :
              LET all == Assignments(lines, key)
                  last == CHOOSE i \in all : \A j \in all : j <= i
              IN  read.config[key] = IF all = {} THEN DefaultConfig[key]
                                     ELSE Meaning(key, lines[last][key])
=============================================================================
