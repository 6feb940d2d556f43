---------------------------- MODULE CalendarTimes ----------------------------
(***************************************************************************)
(* The times that google_calendar_update gives to an event                 *)
(* (tools/google_calendar.py, _new_times), on time measured in units.      *)
(*                                                                         *)
(* A zone has one change of its offset.  A datetime is a wall-clock time   *)
(* in a zone, as in Python: adding to it moves the wall clock, and two of  *)
(* them are compared by the wall clock if they are in one zone, by their   *)
(* instants otherwise.  An event has instants, or days if it is all-day.   *)
(***************************************************************************)
EXTENDS Integers

CONSTANTS
    DayLen      \* units of a day

ASSUME DayAssumption == DayLen \in Nat \ {0}

\* The offset of a zone goes from before to after at an instant; the clock is
\* put forward or stays.
Zone == {z \in [at : Int, before : Int, after : Int] : z.before <= z.after}

Fixed(offset) == [at |-> 0, before |-> offset, after |-> offset]

\* The clock reading at an instant, and the offset that a reading is taken to
\* have: one that is skipped has the old offset.
Clock(z, t) == IF t < z.at THEN t + z.before ELSE t + z.after

Offset(z, w) == IF w < z.at + z.after THEN z.before ELSE z.after

Instant(d) == d.wall - Offset(d.zone, d.wall)

In(z, d) == [wall |-> Clock(z, Instant(d)), zone |-> z]

Plus(d, units) == [d EXCEPT !.wall = @ + units]

Minus(d, e) == IF d.zone = e.zone THEN d.wall - e.wall ELSE Instant(d) - Instant(e)

DayOf(d) == d.wall \div DayLen

\* The time of day of d on the day of e.
On(e, d) == [wall |-> DayOf(e) * DayLen + (d.wall % DayLen), zone |-> e.zone]

------------------------------------------------------------------------------
(* A value is a day, or a time with its offset or without one.              *)

Absent == [kind |-> "absent"]

Value ==
    {Absent} \cup [kind : {"day", "naive"}, wall : Int] \cup [kind : {"aware"}, wall : Int, offset : Int]

Given(v) == v # Absent

\* A time without an offset is a clock reading in the zone, a day its midnight.
Parse(v, z) ==
    IF v.kind = "aware" THEN [wall |-> v.wall, zone |-> Fixed(v.offset)] ELSE [wall |-> v.wall, zone |-> z]

\* The day of a value: that of a time with an offset is taken in the zone.
DayIn(v, z) == DayOf(IF v.kind = "aware" THEN In(z, Parse(v, z)) ELSE Parse(v, z))

\* fromisoformat of an event's time, whose offset is fixed.
Stored(t) == [wall |-> t, zone |-> Fixed(0)]

Reason == [kind |-> "refused"]

NoChange == [kind |-> "same"]

Days(first, after) == [kind |-> "times", allDay |-> TRUE, start |-> first, end |-> after]

Times(begin, finish) ==
    [kind |-> "times", allDay |-> FALSE, start |-> Instant(begin), end |-> Instant(finish)]

\* All day.  The end is the last day, included.
AllDayTimes(e, start, end, z) ==
    LET first == IF Given(start) THEN DayIn(start, z)
                 ELSE IF e.allDay THEN e.start ELSE DayOf(In(z, Stored(e.start)))
    IN Days(first,
            IF Given(end) THEN DayIn(end, z) + 1
            ELSE IF e.allDay THEN first + (e.end - e.start) ELSE first + 1)

\* With times.  No time of day is made up for an event that had none.
TimedTimes(e, start, end, z) ==
    IF e.allDay /\ ~(Given(start) /\ Given(end)) THEN Reason
    ELSE LET begin == IF Given(start) THEN Parse(start, z) ELSE Stored(e.start)
         IN Times(begin, IF Given(end) THEN Parse(end, z)
                         ELSE Plus(begin, Minus(Stored(e.end), Stored(e.start))))

\* Mutant of SeriesTimes: the series is moved to the day of the occurrence.
SeriesTimesMoved(e, start, end, z) ==
    IF Given(start) THEN TimedTimes(e, start, end, z) ELSE Reason

\* A whole series: the time of day is taken, in the series' own zone, and the
\* day of its first occurrence is kept.
SeriesTimes(e, start, end, z) ==
    LET first == In(e.zone, Stored(e.start))
        last == In(e.zone, Stored(e.end))
        begin == On(first, In(e.zone, Parse(start, z)))
        until == On(first, In(e.zone, Parse(end, z)))
    IN CASE Given(start) ->
              Times(begin, Plus(begin, IF Given(end) THEN Minus(Parse(end, z), Parse(start, z))
                                       ELSE Minus(last, first)))
         [] ~Given(start) /\ Minus(last, first) >= DayLen -> Reason
         [] OTHER ->
              Times(first, IF until.wall <= first.wall THEN Plus(until, DayLen) ELSE until)

\* _new_times: allDay is a set, of one BOOLEAN or empty.
NewTimes(e, start, end, allDay, z) ==
    LET toAllDay == IF allDay = {} THEN e.allDay ELSE TRUE \in allDay
    IN CASE ~Given(start) /\ ~Given(end) /\ toAllDay = e.allDay -> NoChange
         [] (Given(start) \/ Given(end)) /\ ~toAllDay /\ "day" \in {start.kind, end.kind} -> Reason
         [] OTHER ->
              IF e.series THEN IF toAllDay \/ e.allDay THEN Reason ELSE SeriesTimes(e, start, end, z)
              ELSE IF toAllDay THEN AllDayTimes(e, start, end, z)
              ELSE TimedTimes(e, start, end, z)

==============================================================================
