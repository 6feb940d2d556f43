---------------------------- MODULE CalendarEvents ----------------------------
(***************************************************************************)
(* The events of one calendar under google_calendar_update, _delete and    *)
(* _find (tools/google_calendar.py).                                       *)
(*                                                                         *)
(* A run is one call of a tool.  Update and delete look at the event, at   *)
(* its series if the whole series is meant, and, update only, at the       *)
(* calendar's zone; then they write.  Find reads page after page.  Other   *)
(* runs and the calendar's users change the events between those calls.    *)
(* The Calendar API is external: it carries out a call and answers it,     *)
(* answers with an error, or is not heard.                                 *)
(***************************************************************************)
EXTENDS CalendarTimes, SequencesExt

CONSTANTS
    Run,        \* runs of the tools
    Calendar,   \* the events at first: a function from identifiers, which are numbers
    CalZone,    \* the calendar's zone
    Now,        \* the instant at which the runs take place
    Monday,     \* a day that is a Monday
    Orders,     \* bound: what a run may be asked for, [Run -> sets of orders]
    MaxEdits    \* bound: edits by the calendar's users

Id == DOMAIN Calendar

\* An event.  An occurrence belongs to the series "of", n days after its first.
\* Its zone is the one that its times are kept in, start.timeZone.
Event ==
    [live : BOOLEAN, series : BOOLEAN, of : SUBSET Id, n : Nat,
     allDay : BOOLEAN, start : Int, end : Int, zone : Zone]

\* Which days a search is about, "none" if it gives times.
Period == {"none", "today", "tomorrow", "this_week", "next_7_days"}

Order ==
    [job : {"update", "delete"}, id : Id, all : BOOLEAN, start : Value, end : Value,
     allDay : SUBSET BOOLEAN, zone : SUBSET Zone, other : BOOLEAN]
      \cup [job : {"find"}, period : Period, start : Value, end : Value, limit : Nat]

\* An event ends after it begins.  One of a series is of one, is no series
\* itself, and is deleted if its series is.
ASSUME CalendarAssumption ==
    /\ Id \subseteq Nat /\ IsFiniteSet(Id)
    /\ Calendar \in [Id -> Event]
    /\ \A i \in Id :
         /\ Calendar[i].start < Calendar[i].end
         /\ Calendar[i].of # {} => ~Calendar[i].series
         /\ \A s \in Calendar[i].of :
              Calendar[i].of = {s} /\ Calendar[s].of = {} /\ (Calendar[i].live => Calendar[s].live)
    /\ CalZone \in Zone /\ Now \in Int /\ Monday \in Int

ASSUME OrderAssumption == \A r \in Run : Orders[r] \subseteq Order

ASSUME EditAssumption == MaxEdits \in Nat

VARIABLES
    event,      \* the events
    pc,         \* the HTTP call a run makes
    order,      \* what a run is asked for
    target,     \* the event that update and delete work on
    seen,       \* that event as the run has read it
    items,      \* what find has found
    late,       \* writes that were not answered and may still be carried out
    answer,     \* what a run returned
    edits,      \* edits by the users
    raced       \* history: runs that were working on what was changed meanwhile

vars == <<event, pc, order, target, seen, items, late, answer, edits, raced>>

------------------------------------------------------------------------------
TypeOK ==
    /\ event \in [Id -> Event]
    /\ pc \in [Run -> {"idle", "look", "series", "zone", "write", "list", "done"}]
    /\ \A r \in Run : pc[r] # "idle" => order[r] \in Orders[r]
    /\ target \in [Run -> Id \cup {0}]
    /\ \A r \in Run : pc[r] \in {"zone", "write"} /\ order[r].job # "find" => seen[r] \in Event
    /\ \A r \in Run : items[r] \in Seq(Id)
    /\ late \subseteq Run
    /\ answer \in [Run -> {"none", "success", "deleted", "already", "found", "error", "cut"}]
    /\ \A r \in Run : answer[r] = "none" <=> pc[r] # "done"
    /\ edits \in 0..MaxEdits
    /\ raced \subseteq Run

Init ==
    /\ event = Calendar
    /\ pc = [r \in Run |-> "idle"]
    /\ order = [r \in Run |-> {}]
    /\ target = [r \in Run |-> 0]
    /\ seen = [r \in Run |-> {}]
    /\ items = [r \in Run |-> <<>>]
    /\ late = {}
    /\ answer = [r \in Run |-> "none"]
    /\ edits = 0
    /\ raced = {}

------------------------------------------------------------------------------
(* What the API does *)

\* An occurrence begins where its series puts it, and is as long as the series.
Placed(o, s) ==
    LET start == IF s.allDay THEN s.start + o.n
                 ELSE Instant(Plus(In(s.zone, Stored(s.start)), o.n * DayLen))
    IN [o EXCEPT !.allDay = s.allDay, !.start = start, !.end = start + (s.end - s.start)]

\* The event i is e from now on; a series takes its occurrences along.
Becomes(i, e) ==
    event' = [j \in Id |->
                IF j = i THEN e
                ELSE IF i \in event[j].of THEN [Placed(event[j], e) EXCEPT !.live = @ /\ e.live]
                ELSE event[j]]

\* PATCH of the times, and of their zone if there is one: an event that is
\* deleted stays so.
Patched(i, times, zone) ==
    IF times.kind # "times" THEN UNCHANGED event
    ELSE Becomes(i, [event[i] EXCEPT !.allDay = times.allDay, !.start = times.start, !.end = times.end,
                                     !.zone = IF zone = {} THEN @ ELSE CHOOSE z \in zone : TRUE])

\* The runs that have looked at an event which is now changed, or are listing.
Race ==
    raced' = IF event' = event THEN raced
             ELSE raced \cup {r \in Run : \/ pc[r] \in {"zone", "write"} /\ target[r] \in Id
                                               /\ event'[target[r]] # event[target[r]]
                                          \/ pc[r] = "list"}

------------------------------------------------------------------------------
(* Looking *)

Idle == UNCHANGED <<event, late, edits, raced>>

Go(r, place) == pc' = [pc EXCEPT ![r] = place] /\ UNCHANGED answer

\* Mutant of Return: an answer does not end the run.
ReturnOn(r, kind) ==
    /\ pc' = pc
    /\ answer' = [answer EXCEPT ![r] = kind]

Return(r, kind) ==
    /\ pc' = [pc EXCEPT ![r] = "done"]
    /\ answer' = [answer EXCEPT ![r] = kind]

Begin(r) ==
    /\ pc[r] = "idle"
    /\ \E o \in Orders[r] :
         /\ order' = [order EXCEPT ![r] = o]
         /\ Go(r, IF o.job # "find" THEN "look"
                  ELSE IF o.period # "none" \/ {o.start.kind, o.end.kind} \cap {"day", "naive"} # {}
                       THEN "zone" ELSE "list")
    /\ Idle
    /\ UNCHANGED <<target, seen, items>>

\* The zone that an update reads its times in: the one it was given or the calendar's.
ReadIn(o) == IF o.zone = {} THEN CalZone ELSE CHOOSE z \in o.zone : TRUE

\* The times that an update gives, by what it has read.
Asked(o, e) == NewTimes(e, o.start, o.end, o.allDay, ReadIn(o))

ToAllDay(o, e) == IF o.allDay = {} THEN e.allDay ELSE TRUE \in o.allDay

\* The zone that an update gives: a series keeps its own.
NewZone(o, e) == IF e.series THEN {e.zone} ELSE IF ToAllDay(o, e) THEN {} ELSE o.zone

\* _Zone.get reads the calendar: for a time without an offset, and for the day
\* of a time.
NeedsZone(o, e) ==
    /\ o.zone = {}
    /\ Asked(o, e).kind = "times"
    /\ IF ToAllDay(o, e)
       THEN "aware" \in {o.start.kind, o.end.kind} \/ (~e.allDay /\ ~Given(o.start))
       ELSE "naive" \in {o.start.kind, o.end.kind}

\* What a run does about the event it has read.
Decide(r, i, o) ==
    LET e == event[i] IN
    CASE ~e.live -> Return(r, IF o.job = "update" THEN "error" ELSE "already")
      [] e.live /\ ~o.all /\ e.series -> Return(r, "error")
      [] e.live /\ (o.all \/ ~e.series) /\ o.job = "update" /\ Asked(o, e).kind = "refused" -> Return(r, "error")
      [] e.live /\ (o.all \/ ~e.series) /\ o.job = "update" /\ Asked(o, e).kind = "same" /\ ~o.other ->
           Return(r, "success")
      [] OTHER -> Go(r, IF o.job = "update" /\ NeedsZone(o, e) THEN "zone" ELSE "write")

\* The event is read.  For scope "all" an occurrence leads to its series.  A
\* deleted event is read as cancelled, or answered with 410.
Look(r) ==
    /\ pc[r] \in {"look", "series"}
    /\ LET o == order[r]
           i == IF pc[r] = "look" THEN o.id ELSE target[r]
       IN \/ /\ pc[r] = "look" /\ o.all /\ event[i].of # {}
             /\ target' = [target EXCEPT ![r] = CHOOSE s \in event[i].of : TRUE]
             /\ Go(r, "series")
             /\ UNCHANGED seen
          \/ /\ pc[r] = "series" \/ ~o.all \/ event[i].of = {}
             /\ target' = [target EXCEPT ![r] = i]
             /\ seen' = [seen EXCEPT ![r] = event[i]]
             /\ Decide(r, i, o)
          \/ /\ ~event[i].live /\ o.job = "delete"
             /\ Return(r, "already")
             /\ UNCHANGED <<target, seen>>
          \/ /\ Return(r, "error")
             /\ UNCHANGED <<target, seen>>
    /\ Idle
    /\ UNCHANGED <<order, items>>

------------------------------------------------------------------------------
(* Finding *)

Midnight(day) == Instant([wall |-> day * DayLen, zone |-> CalZone])

Today == DayOf(In(CalZone, Stored(Now)))

\* _PERIODS: the first day, and how many.  A week begins on its Monday.
FirstDay(period) ==
    CASE period = "this_week" -> Today - ((Today - Monday) % 7)
      [] period = "tomorrow"  -> Today + 1
      [] OTHER                -> Today

NumDays(period) == IF period \in {"today", "tomorrow"} THEN 1 ELSE 7

Bounded(o) == o.period # "none" \/ Given(o.end)

\* timeMin and timeMax: midnights of the calendar's zone, or the times given.
From(o) ==
    IF o.period # "none" THEN Midnight(FirstDay(o.period))
    ELSE IF Given(o.start) THEN Instant(Parse(o.start, CalZone)) ELSE Now

Until(o) ==
    IF o.period # "none" THEN Midnight(FirstDay(o.period) + NumDays(o.period))
    ELSE Instant(Parse(o.end, CalZone))

\* An interval that ends before it begins: two readings of one clock are
\* compared as readings.
NoTime(o) ==
    /\ o.period = "none" /\ Given(o.end)
    /\ Minus(Parse(o.end, CalZone), IF Given(o.start) THEN Parse(o.start, CalZone) ELSE Stored(Now)) <= 0

First(e) == IF e.allDay THEN Midnight(e.start) ELSE e.start

After(e) == IF e.allDay THEN Midnight(e.end) ELSE e.end

\* What events.list lists: no series, but its occurrences, by their starts.
Earlier(i, j) == First(event[i]) < First(event[j]) \/ (First(event[i]) = First(event[j]) /\ i < j)

Listed(o) ==
    {i \in Id : /\ event[i].live /\ ~event[i].series
                /\ After(event[i]) > From(o)
                /\ Bounded(o) => First(event[i]) < Until(o)}

InOrder(S) == CHOOSE q \in SetToSeqs(S) : \A a, b \in DOMAIN q : a < b => Earlier(q[a], q[b])

\* The events of a list behind those that a run has.
Behind(list, have) == InOrder({i \in list : have = <<>> \/ Earlier(Last(have), i)})

ReadZone(r) ==
    /\ pc[r] = "zone"
    /\ LET o == order[r] IN
       \/ o.job = "update" /\ Go(r, "write")
       \/ o.job = "find" /\ Go(r, "list")
       \/ Return(r, "error")
    /\ Idle
    /\ UNCHANGED <<order, target, seen, items>>

\* Mutant of List: one page is all.
ListOnce(r) ==
    /\ pc[r] = "list"
    /\ LET o == order[r]
           rest == Behind(Listed(o), items[r])
       IN \/ /\ NoTime(o)
             /\ Return(r, "found")
             /\ UNCHANGED items
          \/ \E k \in 0..Min({Len(rest), o.limit}) :
               /\ ~NoTime(o) /\ (Bounded(o) => From(o) < Until(o))
               /\ items' = [items EXCEPT ![r] = SubSeq(rest, 1, k)]
               /\ Return(r, "found")
          \/ Return(r, "error") /\ UNCHANGED items
    /\ Idle
    /\ UNCHANGED <<order, target, seen>>

\* One page: the API may cut it short, and then says that there is another.  It
\* refuses an empty interval; one that is seen to be empty is not asked for.
List(r) ==
    /\ pc[r] = "list"
    /\ LET o == order[r]
           rest == Behind(Listed(o), items[r])
       IN \/ /\ NoTime(o)
             /\ Return(r, "found")
             /\ UNCHANGED items
          \/ \E k \in 0..Min({Len(rest), o.limit - Len(items[r])}) :
               /\ ~NoTime(o) /\ (Bounded(o) => From(o) < Until(o))
               /\ items' = [items EXCEPT ![r] = @ \o SubSeq(rest, 1, k)]
               /\ IF k = Len(rest) \/ Len(items[r]) + k = o.limit THEN Return(r, "found")
                  ELSE k > 0 /\ UNCHANGED <<pc, answer>>
          \/ Return(r, "error") /\ UNCHANGED items
    /\ Idle
    /\ UNCHANGED <<order, target, seen>>

------------------------------------------------------------------------------
(* Writing *)

\* The API carries out a run's write.
Applied(r) ==
    /\ \/ order[r].job = "update" /\ Patched(target[r], Asked(order[r], seen[r]), NewZone(order[r], seen[r]))
       \/ order[r].job = "delete" /\ Becomes(target[r], [event[target[r]] EXCEPT !.live = FALSE])
    /\ Race

\* Google refuses an event that ends before it begins.
Refused(r) ==
    LET times == Asked(order[r], seen[r]) IN
    order[r].job = "update" /\ times.kind = "times" /\ times.end <= times.start

\* What a delete says: 410 is a success, any other error is none.
Outcome(r) == IF event[target[r]].live THEN "deleted" ELSE "already"

\* Mutant of Write: 404 counts as gone, too.
WriteForgiving(r) ==
    /\ pc[r] = "write"
    /\ \/ /\ Applied(r) /\ ~Refused(r)
          /\ \/ Return(r, IF order[r].job = "delete" THEN Outcome(r) ELSE "success")
             \/ order[r].job = "update" /\ Return(r, "error")
          /\ UNCHANGED late
       \/ /\ Return(r, IF order[r].job = "delete" THEN "already" ELSE "error")
          /\ late' \in {late, late \cup {r}}
          /\ UNCHANGED <<event, raced>>
    /\ UNCHANGED <<order, target, seen, items, edits>>

\* The write is answered; update reads the reply's body, too.  Or there is an
\* error, or no reply, and it may be carried out later.
Write(r) ==
    /\ pc[r] = "write"
    /\ \/ /\ Applied(r) /\ ~Refused(r)
          /\ \/ Return(r, IF order[r].job = "delete" THEN Outcome(r) ELSE "success")
             \/ order[r].job = "update" /\ Return(r, "error")
          /\ UNCHANGED late
       \/ /\ Return(r, "error")
          /\ late' \in {late, IF Refused(r) THEN late ELSE late \cup {r}}
          /\ UNCHANGED <<event, raced>>
    /\ UNCHANGED <<order, target, seen, items, edits>>

\* wait_for's limit, or a cancelled request.
Cut(r) ==
    /\ pc[r] \notin {"idle", "done"}
    /\ Return(r, "cut")
    /\ late' \in {late, IF pc[r] = "write" /\ ~Refused(r) THEN late \cup {r} ELSE late}
    /\ UNCHANGED <<event, order, target, seen, items, edits, raced>>

\* A write nobody waits for is carried out after all.
Arrive ==
    /\ \E r \in late : Applied(r) /\ late' = late \ {r}
    /\ UNCHANGED <<pc, order, target, seen, items, answer, edits>>

\* A user deletes an event, makes it a series, or puts it one day off.
Edit ==
    /\ edits < MaxEdits
    /\ edits' = edits + 1
    /\ \E i \in Id :
         /\ event[i].live
         /\ \/ Becomes(i, [event[i] EXCEPT !.live = FALSE])
            \/ ~event[i].series /\ event[i].of = {} /\ Becomes(i, [event[i] EXCEPT !.series = TRUE])
            \/ LET day == IF event[i].allDay THEN 1 ELSE DayLen
               IN Becomes(i, [event[i] EXCEPT !.start = @ + day, !.end = @ + day])
    /\ Race
    /\ UNCHANGED <<pc, order, target, seen, items, late, answer>>

Next ==
    \/ \E r \in Run : Begin(r) \/ Look(r) \/ ReadZone(r) \/ List(r) \/ Write(r) \/ Cut(r)
    \/ Arrive
    \/ Edit

Spec == Init /\ [][Next]_vars

------------------------------------------------------------------------------
(* Properties *)

\* The instants of an event, and the days of the calendar's zone that they are on.
DaysOf(e) == {DayOf(In(CalZone, Stored(t))) : t \in First(e)..(After(e) - 1)}

\* A zone's clock is put forward during an event, or skips its beginning.
Across(z, e) == e.start < z.at + (z.after - z.before) /\ z.at <= e.end

\* A zone's clock reads w at t, or would if it had not yet been put forward.
Shows(z, t, w) ==
    \/ Clock(z, t) = w
    \/ z.at + z.before <= w /\ w < z.at + z.after /\ t = w - z.before

\* The instant of a value, and its day, for who reads it in the zone z.
InstantOf(v, z) == IF v.kind = "aware" THEN v.wall - v.offset ELSE Instant([wall |-> v.wall, zone |-> z])

DayThat(v, z) == (IF v.kind = "aware" THEN Clock(z, v.wall - v.offset) ELSE v.wall) \div DayLen

\* One event f in the place of e.  A time that is given is the event's time, or
\* the day of it its first or its last day, included (google_calendar.py:197).
\* What is not given stays: an end alone leaves the start, a start alone the
\* length, unless the clock that it is read on is changed meanwhile.  An event
\* that becomes all-day without an end is so for one day.
SingleAsAsked(o, e, f) ==
    LET z == ReadIn(o) IN
    /\ f.allDay = ToAllDay(o, e)
    /\ Given(o.start) => f.start = IF f.allDay THEN DayThat(o.start, z) ELSE InstantOf(o.start, z)
    /\ Given(o.end) => f.end = IF f.allDay THEN DayThat(o.end, z) + 1 ELSE InstantOf(o.end, z)
    /\ ~Given(o.start) => f.start = IF f.allDay /\ ~e.allDay THEN Clock(z, e.start) \div DayLen ELSE e.start
    /\ ~Given(o.end) =>
         IF f.allDay /\ ~e.allDay THEN f.end = f.start + 1
         ELSE \/ f.end - f.start = e.end - e.start
              \/ ~f.allDay /\ o.start.kind = "naive" /\ Across(z, f)

\* A series f in the place of e, all on the clock of its own zone: it begins on
\* the day it began on, at the time of day that is given (google_calendar.py:240),
\* and is as long as the times that are given are apart, or as it was.  An end
\* alone is the next time of day after the start.  Lengths are those of a clock,
\* and differ when one is changed meanwhile.
SeriesAsAsked(o, e, f) ==
    LET z == ReadIn(o)
        day == Clock(e.zone, e.start) \div DayLen
        TimeOfDay(v) == Clock(e.zone, InstantOf(v, z)) % DayLen
        asked == [start |-> InstantOf(o.start, z), end |-> InstantOf(o.end, z)]
    IN /\ f.allDay = e.allDay /\ f.zone = e.zone
       /\ IF Given(o.start) THEN Shows(e.zone, f.start, day * DayLen + TimeOfDay(o.start))
          ELSE f.start = e.start
       /\ Given(o.start) /\ Given(o.end) =>
            \/ f.end - f.start = asked.end - asked.start
            \/ Across(e.zone, f)
            \/ o.start.kind = "naive" /\ o.end.kind = "naive" /\ Across(z, asked)
       /\ ~Given(o.start) /\ Given(o.end) =>
            \E w \in (Clock(e.zone, e.start) + 1)..(Clock(e.zone, e.start) + DayLen) :
              w % DayLen = TimeOfDay(o.end) /\ Shows(e.zone, f.end, w)
       /\ ~Given(o.end) =>
            \/ f.end - f.start = e.end - e.start
            \/ Given(o.start) /\ (Across(e.zone, f) \/ Across(e.zone, e))

\* A run that was not raced makes the event, or the series, that it was asked
\* for into what it was asked for, and a series only if all of it was meant
\* (google_calendar_update, google_calendar.py:285).
UpdatesAsAsked ==
    [][\A r \in Run \ raced :
         pc[r] = "write" /\ answer'[r] = "success" =>
           LET o == order[r]
               i == target[r]
               e == event[i]
               f == event'[i]
           IN /\ i = o.id \/ (o.all /\ event[o.id].of = {i})
              /\ f.series => o.all
              /\ f.live
              /\ f.start < f.end
              /\ IF f.series THEN SeriesAsAsked(o, e, f) ELSE SingleAsAsked(o, e, f)
        ]_vars

\* Who says that an event is deleted is right, and only one run says to have
\* deleted it (google_calendar.py:497: an error swallowed would leave the event
\* with a "success").
DeletesAreTrue ==
    /\ \A r \in Run : answer[r] \in {"deleted", "already"} => ~event[order[r].id].live
    /\ \A r, s \in Run : answer[r] = "deleted" /\ answer[s] = "deleted" /\ target[r] = target[s] => r = s

\* The days of a period (google_calendar.py:86): a week has the days between two
\* Mondays.
DaysMeant(period) ==
    CASE period = "today"       -> {Today}
      [] period = "tomorrow"    -> {Today + 1}
      [] period = "this_week"   -> {d \in (Today - 6)..(Today + 6) : (d - Monday) \div 7 = (Today - Monday) \div 7}
      [] period = "next_7_days" -> Today..(Today + 6)

\* A search that nothing changed under has the first of the events that are on
\* the days of its period, or overlap its interval, in their order and up to its
\* limit, however the pages were cut (google_calendar.py:431).
FindIsWhole ==
    [][\A r \in Run \ raced :
         pc[r] = "list" /\ answer'[r] = "found" =>
           LET o == order[r]
               wanted == {i \in Id : /\ event[i].live /\ ~event[i].series
                                     /\ IF o.period # "none"
                                        THEN \E d \in DaysMeant(o.period) : d \in DaysOf(event[i])
                                        ELSE /\ After(event[i]) > From(o)
                                             /\ Given(o.end) => First(event[i]) < Until(o)}
               n == Min({o.limit, Cardinality(wanted)})
           IN IF NoTime(o) THEN items'[r] = <<>>
              ELSE /\ Len(items'[r]) = n
                   /\ \A a, b \in 1..n : a < b => Earlier(items'[r][a], items'[r][b])
                   /\ ToSet(items'[r]) \subseteq wanted
                   /\ \A i \in ToSet(items'[r]), j \in wanted \ ToSet(items'[r]) : Earlier(i, j)
        ]_vars

==============================================================================
