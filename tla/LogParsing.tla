----------------------------- MODULE LogParsing -----------------------------
(***************************************************************************)
(* The parsers of authentication and of web server logs, which turn the    *)
(* lines of an artifact into observations (tools/auth_log_parser.py,       *)
(* tools/web_log_parser.py): what becomes of each line, and which instant  *)
(* a stamp is taken for, where logs leave out the year or the offset.      *)
(*                                                                         *)
(* A line is what the patterns see in it.  Its stamp is what the host's    *)
(* clock showed when the line was written, so that the instant it was      *)
(* written at is known here and not to the parser.  Host, user, address    *)
(* and path are copied as they are and left out.  Text beyond 32 MiB,      *)
(* which read_text drops, is not there to begin with.                      *)
(***************************************************************************)
EXTENDS Integers, Sequences, FiniteSets

CONSTANTS
    Artifacts,      \* sequences of lines, each with how it is encoded
    Options,        \* [year_hint, max_lines, min_status_filter, detect_attacks]
    Clocks,         \* what the server's clock, which shows UTC, may show
    Day,            \* ticks of a day
    None

\* what a clock may show, and a stamp, be there such a day in its month or not
Stamp == [y : Nat \ {0}, m : 1..12, d : 1..31, t : 0..(Day - 1)]

ASSUME LogParsingAssumption ==
    /\ Day \in Nat \ {0} /\ None \notin Int
    /\ Clocks \subseteq Stamp
    /\ \A o \in Options : o.max_lines \in Nat \ {0}
    /\ \A a \in Artifacts :
          /\ Len(a.lines) \in Nat /\ DOMAIN a.lines = 1..Len(a.lines)
          /\ \A k \in DOMAIN a.lines :
                a.lines[k].stamp \in Stamp /\ a.lines[k].offset \in Int

VARIABLES
    parser,         \* "auth" or "web"
    artifact, args,
    now,            \* the server's clock while the lines are read
    line_number,    \* the line that is due
    evidence,       \* observations so far, the first line's first
    tally,          \* what else is counted
    warnings        \* what the result says besides, None until it is there

vars == <<parser, artifact, args, now, line_number, evidence, tally, warnings>>

-----------------------------------------------------------------------------
(* The calendar of Python's datetime; a reading of a clock is [y, m, d, t] *)

Leap(y) == y % 4 = 0 /\ (y % 100 # 0 \/ y % 400 = 0)
DaysIn(y, m) ==
    CASE m = 2 -> IF Leap(y) THEN 29 ELSE 28
      [] m \in {4, 6, 9, 11} -> 30
      [] OTHER -> 31
DaysBefore == <<0, 31, 59, 90, 120, 151, 181, 212, 243, 273, 304, 334>>

\* the instant of a clock that shows UTC
Instant(c) ==
    LET past == c.y - 1
        days == 365 * past + past \div 4 - past \div 100 + past \div 400
                + DaysBefore[c.m] + (IF c.m > 2 /\ Leap(c.y) THEN 1 ELSE 0) + c.d
    IN  days * Day + c.t

\* datetime(...) raises where there is no such day
Built(c) == IF c.d \in 1..DaysIn(c.y, c.m) THEN Instant(c) ELSE None
InYear(c, y) == [c EXCEPT !.y = y]

-----------------------------------------------------------------------------
(* The instant a stamp is taken for, and how sure that is *)

Undated == [time |-> None, confidence |-> "unknown"]
DatedAs(time, confidence) ==
    IF time = None THEN Undated ELSE [time |-> time, confidence |-> confidence]

\* what a stamp with its offset means, and without one, as if it were UTC
Meant(line) ==
    LET built == Built(line.stamp)
    IN  IF built = None \/ ~line.zoned THEN built ELSE built - line.offset

\* _parse_iso
ParseIso(line) == DatedAs(Meant(line), IF line.zoned THEN "exact" ELSE "approximate")

\* Slip: a stamp a little ahead of the clock is of last year
ThisYearUnskewed(stamp) ==
    LET candidate == Built(InYear(stamp, now.y))
    IN  candidate # None /\ candidate <= Instant(now)

\* a stamp may be ahead of the clock by a day before it is of last year
ThisYear(stamp) ==
    LET candidate == Built(InYear(stamp, now.y))
    IN  candidate # None /\ candidate <= Instant(now) + Day

\* _parse_bsd: the month, the day and the time, and whichever year fits
ParseBsd(line) ==
    CASE ~line.english -> Undated
      [] line.english /\ args.year_hint # None ->
            DatedAs(Built(InYear(line.stamp, args.year_hint)), "exact")
      [] OTHER ->
            DatedAs(Built(InYear(line.stamp, IF ThisYear(line.stamp) THEN now.y ELSE now.y - 1)),
                    "derived")

\* _parse_timestamp of the web parser: the bracketed stamp takes a month it does not
\* know for January, and a stamp without a year is of this one
ParseTimestamp(line) ==
    LET known == IF line.english THEN line ELSE [line EXCEPT !.stamp.m = 1] IN
    CASE line.form = "clf" -> DatedAs(Meant(known), IF line.zoned THEN "exact" ELSE "derived")
      [] line.form = "iso" -> DatedAs(Meant(line), IF line.zoned THEN "exact" ELSE "derived")
      [] line.form = "bsd" /\ line.english ->
            DatedAs(Built(InYear(line.stamp, now.y)), "derived")
      [] OTHER -> Undated

\* _resolve_prefix and _parse_timestamp
Resolve(line) ==
    IF parser = "web" THEN ParseTimestamp(line)
    ELSE IF line.form = "iso" THEN ParseIso(line)
    ELSE ParseBsd(line)

-----------------------------------------------------------------------------
(* One line *)

Blank(line) == line.form = "blank"

\* a web line may come without a stamp, behind a prefix of syslog or in its own form
Recognised(line) ==
    IF parser = "auth" THEN line.form \in {"iso", "bsd"} /\ line.event # None
    ELSE line.request # None

\* _match_prefix: an authentication line may have a stamp and no known message
Prefixed(line) == parser = "auth" /\ line.form \in {"iso", "bsd"}

\* min_status_filter
Filtered(line) ==
    /\ parser = "web" /\ args.min_status_filter # None
    /\ line.status < args.min_status_filter

EventKind(event) ==
    CASE event = "sudo_command" -> "privilege_event"
      [] event \in {"session_opened", "session_closed"} -> "session_event"
      [] OTHER -> "auth_event"

Outcome(event) ==
    CASE event \in {"auth_failure", "invalid_user", "max_auth_attempts"} -> "failure"
      [] event \in {"auth_success", "sudo_command", "session_opened"} -> "success"
      [] OTHER -> "neutral"

\* the parts of a request that are searched, in this order; escapes are decoded, and
\* the request line holds the path and the query as they came
Searched ==
    <<"path", "decoded_path", "query", "decoded_query", "request_line",
      "payload", "decoded_payload">>

\* _detect_attacks: each category once, at the first part that shows it; a scanner is
\* known by its agent or its request line and always reported as the agent
Attacks(line) ==
    LET scanner == {"user_agent", "request_line"}
        Shows(c) == {k \in DOMAIN Searched : <<c, Searched[k]>> \in line.request}
        First(c) == CHOOSE k \in Shows(c) : \A l \in Shows(c) : k <= l
        shown == {c \in {s[1] : s \in line.request} \ {"scanner"} : Shows(c) # {}}
    IN  IF ~args.detect_attacks THEN {}
        ELSE {<<c, Searched[First(c)]>> : c \in shown} \union
             {<<"scanner", "user_agent">> : part \in
                {p \in scanner : <<"scanner", p>> \in line.request}}

\* _build_evidence of an authentication line
AuthEvent(line) ==
    [line_number |-> line_number, dated |-> Resolve(line), kind |-> EventKind(line.event),
     event |-> line.event, outcome |-> Outcome(line.event), attacks |-> {}]

\* _build_evidence_draft of a request
WebEvent(line) ==
    LET attack == IF Attacks(line) = {} THEN "web_request" ELSE "web_attack" IN
    [line_number |-> line_number, dated |-> Resolve(line), kind |-> attack,
     event |-> attack, outcome |-> "none", attacks |-> Attacks(line)]

Draft(line) == IF parser = "auth" THEN AuthEvent(line) ELSE WebEvent(line)

-----------------------------------------------------------------------------
(* The loop over the lines *)

Init ==
    /\ parser \in {"auth", "web"}
    /\ artifact \in Artifacts /\ args \in Options /\ now \in Clocks
    /\ line_number = 1
    /\ evidence = <<>>
    /\ tally = [lines_total |-> 0, matched |-> 0, unrecognized |-> 0, undated |-> 0]
    /\ warnings = None

Reading == warnings = None
Ended == line_number > Len(artifact.lines)
Line == artifact.lines[line_number]
Count(counters) ==
    tally' = [k \in DOMAIN tally |-> tally[k] + (IF k \in counters THEN 1 ELSE 0)]
NextLine == line_number' = line_number + 1

\* Slip: the last line that is allowed is not read
UnreadFrom == line_number >= args.max_lines

\* a line beyond max_lines ends the loop, if there is one
Unread == line_number > args.max_lines

Due == Reading /\ ~Ended /\ ~Unread

SkipBlank ==
    /\ Due /\ Blank(Line)
    /\ NextLine
    /\ UNCHANGED <<parser, artifact, args, now, evidence, tally, warnings>>

\* Slip: a stamp with an unknown message counts for nothing
UnrecognizedPrefix ==
    /\ Due /\ ~Blank(Line) /\ ~Recognised(Line)
    /\ Count({"lines_total"} \union
             (IF Prefixed(Line) THEN {} ELSE {"unrecognized"}))
    /\ NextLine
    /\ UNCHANGED <<parser, artifact, args, now, evidence, warnings>>

\* no pattern matches, which in a log of logins may be the message only
Unrecognized ==
    /\ Due /\ ~Blank(Line) /\ ~Recognised(Line)
    /\ Count({"lines_total", "unrecognized"} \union
             (IF Prefixed(Line) /\ Resolve(Line).time = None THEN {"undated"} ELSE {}))
    /\ NextLine
    /\ UNCHANGED <<parser, artifact, args, now, evidence, warnings>>

\* the caller asked for errors only
LeaveOut ==
    /\ Due /\ ~Blank(Line) /\ Recognised(Line) /\ Filtered(Line)
    /\ Count({"lines_total", "matched"})
    /\ NextLine
    /\ UNCHANGED <<parser, artifact, args, now, evidence, warnings>>

Record ==
    /\ Due /\ ~Blank(Line) /\ Recognised(Line) /\ ~Filtered(Line)
    /\ evidence' = Append(evidence, Draft(Line))
    /\ Count({"lines_total", "matched"} \union
             (IF parser = "auth" /\ Draft(Line).dated.time = None THEN {"undated"} ELSE {}))
    /\ NextLine
    /\ UNCHANGED <<parser, artifact, args, now, warnings>>

\* the result, with a warning for each thing that is wrong with it; only the parser of
\* logins counts the lines it cannot date
Return ==
    /\ Reading /\ (Ended \/ Unread)
    /\ warnings' =
          (IF artifact.utf8 THEN {} ELSE {"latin-1"}) \union
          (IF Ended THEN {} ELSE {"truncated"}) \union
          (IF tally.unrecognized = 0 THEN {} ELSE {"unrecognized"}) \union
          (IF tally.undated = 0 THEN {} ELSE {"undated"})
    /\ UNCHANGED <<parser, artifact, args, now, line_number, evidence, tally>>

Next == SkipBlank \/ Unrecognized \/ LeaveOut \/ Record \/ Return

Spec == Init /\ [][Next]_vars

-----------------------------------------------------------------------------
LineOf(e) == artifact.lines[e.line_number]
WrittenAt(line) == Built(line.stamp) - line.offset

(* What the parsers say of an instant is true where they can know it.  An instant
   called exact is the one the line was written at, if the log has English months and
   no year was hinted.  A stamp without a year, of a host that shows UTC, is dated to
   its own instant: by the parser of logins whenever that lies less than 364 days back
   or up to a day ahead and in no later year than the clock's, by the web parser in the
   clock's year. *)
StampsAreDated ==
    \A k \in DOMAIN evidence :
        LET line == LineOf(evidence[k])
            dated == evidence[k].dated
            at == WrittenAt(line)
        IN  Built(line.stamp) # None =>
            /\ dated.confidence = "exact" /\ line.english /\ args.year_hint = None =>
                  dated.time = at
            /\ /\ line.form = "bsd" /\ line.english /\ line.offset = 0
               /\ parser = "auth" => args.year_hint = None
               /\ line.stamp.y <= now.y
               /\ IF parser = "auth"
                  THEN at > Instant(now) - 364 * Day /\ at <= Instant(now) + Day
                  ELSE line.stamp.y = now.y
               => dated.time = at

(* Every line that is not blank is an observation, or the result says that lines were
   not recognised or not read, or the caller asked to leave it out; no line is two
   observations, and a result that warns of nothing accounts for every line. *)
NoLineIsLost ==
    warnings # None =>
        LET lines == artifact.lines
            seen == {evidence[k].line_number : k \in DOMAIN evidence}
            said == {k \in DOMAIN lines : ~Blank(lines[k])}
            filtered == {k \in said : Filtered(lines[k]) /\ Recognised(lines[k])}
        IN  /\ Cardinality(seen) = Len(evidence)
            /\ warnings \intersect {"unrecognized", "truncated"} = {} =>
                  seen = said \ filtered
            /\ "truncated" \notin warnings =>
                  tally.unrecognized = Cardinality(said \ (seen \union filtered))
            /\ "truncated" \in warnings <=> Len(lines) > args.max_lines
=============================================================================
