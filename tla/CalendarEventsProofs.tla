------------------------- MODULE CalendarEventsProofs -------------------------
(***************************************************************************)
(* Theorems about CalendarEvents, for any calendar, any zones and any      *)
(* orders.                                                                 *)
(*                                                                         *)
(* DeletesAreTrue rests on three facts (IInv): a deleted event stays so,   *)
(* an occurrence is not there without its series, and what a run works on  *)
(* is the event it was asked for or the series of that event.              *)
(* What a search finds is proved in two parts: that the pages make one     *)
(* list (PagesMakeOneList) and, when the clock is not changed about        *)
(* midnight, that it is the whole of what is meant (FindsWhole).  What an  *)
(* update makes (UpdatesWhole) rests on the length of every event (LenInv) *)
(* and on what the conversions of a time do (Readings, ParsedIs, ApartIs). *)
(***************************************************************************)
EXTENDS CalendarEvents, FiniteSetTheorems, SequenceTheorems, TLAPS

------------------------------------------------------------------------------
(* Times *)

Stamp == [wall : Int, zone : Zone]

\* What the operators on datetimes return.
LEMMA Datetimes ==
    /\ \A z \in Zone, t \in Int : Clock(z, t) \in Int /\ Offset(z, t) \in Int
    /\ \A d \in Stamp : Instant(d) \in Int /\ DayOf(d) \in Int
    /\ \A z \in Zone, d \in Stamp : In(z, d) \in Stamp
    /\ \A t \in Int : Fixed(t) \in Zone /\ Stored(t) \in Stamp
    /\ \A d \in Stamp, n \in Int : Plus(d, n) \in Stamp
    /\ \A d, e \in Stamp : Minus(d, e) \in Int /\ On(d, e) \in Stamp
<1>1. \A z \in Zone, t \in Int : Clock(z, t) \in Int /\ Offset(z, t) \in Int
  BY DEF Clock, Offset, Zone
<1>2. ASSUME NEW d \in Stamp PROVE Instant(d) \in Int /\ DayOf(d) \in Int
  <2>1. d.wall \in Int /\ d.zone \in Zone /\ Offset(d.zone, d.wall) \in Int
    BY <1>1 DEF Stamp
  <2> QED
    BY <2>1, DayAssumption DEF Instant, DayOf
<1>3. \A z \in Zone, d \in Stamp : In(z, d) \in Stamp
  BY <1>1, <1>2 DEF In, Stamp
<1>4. \A t \in Int : Fixed(t) \in Zone
  BY DEF Fixed, Zone
<1>5. \A t \in Int : Stored(t) \in Stamp
  BY <1>4 DEF Stored, Stamp
<1>6. \A d \in Stamp, n \in Int : Plus(d, n) \in Stamp
  BY DEF Plus, Stamp
<1>7. ASSUME NEW d \in Stamp, NEW e \in Stamp PROVE Minus(d, e) \in Int /\ On(d, e) \in Stamp
  <2>1. d.wall \in Int /\ e.wall \in Int /\ d.zone \in Zone /\ e.zone \in Zone
    BY DEF Stamp
  <2>2. Minus(d, e) \in Int
    BY <1>2, <2>1 DEF Minus
  <2>3. DayOf(e) * DayLen \in Int /\ d.wall % DayLen \in Int /\ DayOf(d) * DayLen \in Int /\ e.wall % DayLen \in Int
    BY <1>2, <2>1, DayAssumption
  <2>4. On(d, e) \in Stamp
    BY <2>1, <2>3 DEF On, Stamp
  <2> QED
    BY <2>2, <2>4
<1> QED
  BY <1>1, <1>2, <1>3, <1>4, <1>5, <1>6, <1>7

\* What the operators on values return.
LEMMA Values ==
    ASSUME NEW v \in Value, Given(v), NEW z \in Zone
    PROVE  Parse(v, z) \in Stamp /\ DayIn(v, z) \in Int
<1>1. Parse(v, z) \in Stamp
  <2>1. CASE v.kind = "aware"
    <3>1. v.wall \in Int /\ v.offset \in Int
      BY <2>1 DEF Value, Absent
    <3> QED
      BY <2>1, <3>1, Datetimes DEF Parse, Stamp
  <2>2. CASE v.kind # "aware"
    <3>1. v.wall \in Int
      BY <2>2 DEF Value, Given
    <3> QED
      BY <2>2, <3>1 DEF Parse, Stamp
  <2> QED
    BY <2>1, <2>2
<1>2. DayIn(v, z) \in Int
  BY <1>1, Datetimes DEF DayIn
<1> QED
  BY <1>1, <1>2

\* An event's times, as far as _new_times reads them.
Timed(e) == e.allDay \in BOOLEAN /\ e.series \in BOOLEAN /\ e.start \in Int /\ e.end \in Int /\ e.zone \in Zone

TimesOK(t) == t.kind = "times" => t.allDay \in BOOLEAN /\ t.start \in Int /\ t.end \in Int

\* New times are times.
LEMMA TimesTyped ==
    ASSUME NEW b \in Stamp, NEW f \in Stamp
    PROVE  TimesOK(Times(b, f)) /\ TimesOK(Reason) /\ TimesOK(NoChange)
BY Datetimes DEF Times, TimesOK, Reason, NoChange

LEMMA AllDayTyped ==
    ASSUME NEW e, Timed(e), NEW start \in Value, NEW end \in Value, NEW z \in Zone
    PROVE  TimesOK(AllDayTimes(e, start, end, z))
<1> DEFINE first == IF Given(start) THEN DayIn(start, z)
                    ELSE IF e.allDay THEN e.start ELSE DayOf(In(z, Stored(e.start)))
           last == IF Given(end) THEN DayIn(end, z) + 1
                   ELSE IF e.allDay THEN first + (e.end - e.start) ELSE first + 1
<1>1. first \in Int
  <2>1. DayOf(In(z, Stored(e.start))) \in Int
    BY Datetimes DEF Timed
  <2> QED
    BY <2>1, Values DEF Timed
<1> HIDE DEF first
<1>2. last \in Int
  BY <1>1, Values DEF Timed
<1>3. AllDayTimes(e, start, end, z) = Days(first, last)
  BY DEF AllDayTimes, first
<1> HIDE DEF last
<1> QED
  BY <1>1, <1>2, <1>3 DEF Days, TimesOK

LEMMA TimedTyped ==
    ASSUME NEW e, Timed(e), NEW start \in Value, NEW end \in Value, NEW z \in Zone
    PROVE  TimesOK(TimedTimes(e, start, end, z))
<1> DEFINE begin == IF Given(start) THEN Parse(start, z) ELSE Stored(e.start)
           finish == IF Given(end) THEN Parse(end, z)
                     ELSE Plus(begin, Minus(Stored(e.end), Stored(e.start)))
<1>1. begin \in Stamp
  BY Values, Datetimes DEF Timed
<1> HIDE DEF begin
<1>2. finish \in Stamp
  <2>1. Minus(Stored(e.end), Stored(e.start)) \in Int
    BY Datetimes DEF Timed
  <2> QED
    BY <1>1, <2>1, Values, Datetimes
<1>3. TimedTimes(e, start, end, z) \in {Reason, Times(begin, finish)}
  BY DEF TimedTimes, begin
<1> HIDE DEF finish
<1> QED
  BY <1>1, <1>2, <1>3, TimesTyped

LEMMA SeriesTyped ==
    ASSUME NEW e, Timed(e), NEW start \in Value, NEW end \in Value, NEW z \in Zone,
           Given(start) \/ Given(end)
    PROVE  TimesOK(SeriesTimes(e, start, end, z))
<1> DEFINE first == In(e.zone, Stored(e.start))
           last == In(e.zone, Stored(e.end))
           begin == On(first, In(e.zone, Parse(start, z)))
           until == On(first, In(e.zone, Parse(end, z)))
           len == IF Given(end) THEN Minus(Parse(end, z), Parse(start, z)) ELSE Minus(last, first)
           finish == IF until.wall <= first.wall THEN Plus(until, DayLen) ELSE until
<1>1. first \in Stamp /\ last \in Stamp
  BY Datetimes DEF Timed
<1>2. CASE Given(start)
  <2>1. Parse(start, z) \in Stamp
    BY <1>2, Values
  <2>2. begin \in Stamp
    BY <1>1, <2>1, Datetimes DEF Timed
  <2>3. len \in Int
    BY <1>1, <2>1, Values, Datetimes
  <2>4. Plus(begin, len) \in Stamp
    BY <2>2, <2>3, Datetimes
  <2>5. SeriesTimes(e, start, end, z) = Times(begin, Plus(begin, len))
    BY <1>2 DEF SeriesTimes
  <2> HIDE DEF begin, len
  <2> QED
    BY <2>2, <2>4, <2>5, TimesTyped
<1>3. CASE ~Given(start)
  <2>1. Parse(end, z) \in Stamp
    BY <1>3, Values
  <2>2. until \in Stamp
    BY <1>1, <2>1, Datetimes DEF Timed
  <2>3. finish \in Stamp
    <3> HIDE DEF until
    <3> QED
      BY <2>2, Datetimes, DayAssumption
  <2>4. SeriesTimes(e, start, end, z) \in {Reason, Times(first, finish)}
    BY <1>3 DEF SeriesTimes
  <2> HIDE DEF first, finish
  <2> QED
    BY <1>1, <2>3, <2>4, TimesTyped
<1> QED
  BY <1>2, <1>3

\* A membership is true or false.
LEMMA Member == ASSUME NEW A, NEW a PROVE (a \in A) \in BOOLEAN
BY SMT

\* _new_times: what it gives is typed.
LEMMA NewTimesTyped ==
    ASSUME NEW e, Timed(e), NEW start \in Value, NEW end \in Value, NEW allDay \in SUBSET BOOLEAN,
           NEW z \in Zone
    PROVE  TimesOK(NewTimes(e, start, end, allDay, z))
<1> DEFINE toAllDay == IF allDay = {} THEN e.allDay ELSE TRUE \in allDay
<1>1. toAllDay \in BOOLEAN
  <2>1. CASE allDay = {}
    BY <2>1 DEF Timed
  <2>2. CASE allDay # {}
    <3>1. (TRUE \in allDay) \in BOOLEAN
      BY Member, Zenon
    <3> QED
      BY <2>2, <3>1
  <2> QED
    BY <2>1, <2>2
<1>2. TimesOK(Reason) /\ TimesOK(NoChange)
  BY DEF TimesOK, Reason, NoChange
<1> HIDE DEF toAllDay
<1>3. NewTimes(e, start, end, allDay, z)
        \in {NoChange, Reason, AllDayTimes(e, start, end, z), TimedTimes(e, start, end, z)}
      \/ /\ NewTimes(e, start, end, allDay, z) = SeriesTimes(e, start, end, z)
         /\ Given(start) \/ Given(end)
  <2>1. NewTimes(e, start, end, allDay, z) =
          CASE ~Given(start) /\ ~Given(end) /\ toAllDay = e.allDay -> NoChange
            [] (Given(start) \/ Given(end)) /\ ~toAllDay /\ "day" \in {start.kind, end.kind} -> Reason
            [] OTHER ->
                 IF e.series THEN IF toAllDay \/ e.allDay THEN Reason ELSE SeriesTimes(e, start, end, z)
                 ELSE IF toAllDay THEN AllDayTimes(e, start, end, z)
                 ELSE TimedTimes(e, start, end, z)
    BY DEF NewTimes, toAllDay
  <2> QED
    BY <1>1, <2>1 DEF Timed
<1> QED
  BY <1>2, <1>3, AllDayTyped, TimedTyped, SeriesTyped

------------------------------------------------------------------------------
(* The calendar *)

\* An occurrence that is there has its series, and series are no occurrences.
SeriesInv ==
    \A i \in Id :
        /\ event[i].of = Calendar[i].of
        /\ \A s \in event[i].of : event[s].of = {} /\ (event[i].live => event[s].live)

\* What a run works on is the event that it was asked for, or the series of it.
Targeted(r) ==
    /\ order[r] \in Order /\ order[r].job \in {"update", "delete"} /\ order[r].id \in Id
    /\ target[r] \in Id
    /\ target[r] = order[r].id \/ target[r] \in event[order[r].id].of

\* The place of a run and what it has read.
RunInv(r) ==
    /\ pc[r] = "look" => order[r].job \in {"update", "delete"} /\ order[r].id \in Id
    /\ pc[r] = "series" => Targeted(r)
    /\ pc[r] = "zone" => order[r].job \in {"update", "find"} /\ (order[r].job = "update" => Targeted(r) /\ seen[r] \in Event)
    /\ pc[r] = "write" => Targeted(r) /\ seen[r] \in Event
    /\ r \in late => pc[r] = "done" /\ Targeted(r) /\ seen[r] \in Event
    /\ pc[r] = "list" => order[r].job = "find"

\* Who says that an event is deleted is right.
SaidInv(r) ==
    /\ answer[r] \in {"deleted", "already"} => order[r].id \in Id /\ ~event[order[r].id].live
    /\ answer[r] = "deleted" => target[r] \in Id /\ ~event[target[r]].live

OnceInv == \A r, s \in Run : answer[r] = "deleted" /\ answer[s] = "deleted" /\ target[r] = target[s] => r = s

\* The variables that the runs have are functions of the runs.
ShapeInv ==
    /\ order \in [Run -> Order \cup {{}}]
    /\ seen \in [Run -> Event \cup {{}}]
    /\ items \in [Run -> Seq(Id)]

IInv == TypeOK /\ ShapeInv /\ SeriesInv /\ OnceInv /\ \A r \in Run : RunInv(r) /\ SaidInv(r)

\* An event has times, and a zone that they are kept in.
LEMMA EventTimed == \A e \in Event : Timed(e) /\ e.n \in Nat /\ e.of \subseteq Id
BY CalendarAssumption DEF Event, Timed

\* An occurrence that its series puts elsewhere is an occurrence.
LEMMA PlacedIs ==
    ASSUME NEW o \in Event, NEW s \in Event
    PROVE  /\ Placed(o, s) \in Event /\ Placed(o, s).of = o.of /\ Placed(o, s).live = o.live
           /\ Placed(o, s).end = Placed(o, s).start + (s.end - s.start)
<1> DEFINE moved == Instant(Plus(In(s.zone, Stored(s.start)), o.n * DayLen))
           begin == IF s.allDay THEN s.start + o.n ELSE moved
<1>1. o.n * DayLen \in Int /\ s.allDay \in BOOLEAN /\ s.start \in Int /\ s.end \in Int /\ o.n \in Nat
  BY DayAssumption, EventTimed DEF Event
<1>2. moved \in Int
  BY <1>1, Datetimes, EventTimed DEF Timed
<1>3. Placed(o, s) = [o EXCEPT !.allDay = s.allDay, !.start = begin, !.end = begin + (s.end - s.start)]
  BY DEF Placed
<1> HIDE DEF moved
<1>4. begin \in Int /\ begin + (s.end - s.start) \in Int
  BY <1>1, <1>2
<1> HIDE DEF begin
<1>5. Placed(o, s) \in Event /\ Placed(o, s).of = o.of /\ Placed(o, s).live = o.live
  BY <1>1, <1>3, <1>4 DEF Event
<1>6. Placed(o, s).start = begin /\ Placed(o, s).end = begin + (s.end - s.start)
  BY <1>3 DEF Event
<1> QED
  BY <1>5, <1>6

\* A change of one event, and of its occurrences if it is a series.
LEMMA BecomesKeeps ==
    ASSUME TypeOK, SeriesInv, NEW i \in Id, NEW e \in Event,
           e.of = event[i].of, e.live => event[i].live, Becomes(i, e)
    PROVE  /\ event' \in [Id -> Event] /\ SeriesInv'
           /\ \A j \in Id : event'[j].of = event[j].of /\ (event'[j].live => event[j].live)
           /\ ~e.live => \A j \in Id : j = i \/ i \in event[j].of => ~event'[j].live
<1>1. event \in [Id -> Event]
  BY DEF TypeOK
<1>2. DOMAIN event' = Id
  BY DEF Becomes
<1>3. ASSUME NEW j \in Id
      PROVE  /\ event'[j] \in Event
             /\ event'[j].of = event[j].of /\ (event'[j].live => event[j].live)
             /\ j = i => event'[j] = e
             /\ j # i /\ i \notin event[j].of => event'[j] = event[j]
             /\ j # i /\ i \in event[j].of /\ event'[j].live => e.live
  <2>1. CASE j = i
    BY <2>1 DEF Becomes
  <2>2. CASE j # i /\ i \notin event[j].of
    BY <1>1, <2>2 DEF Becomes
  <2>3. CASE j # i /\ i \in event[j].of
    <3> DEFINE p == Placed(event[j], e)
    <3>1. p \in Event /\ p.of = event[j].of /\ p.live = event[j].live
      BY <1>1, PlacedIs
    <3>2. event'[j] = [p EXCEPT !.live = @ /\ e.live]
      BY <2>3 DEF Becomes
    <3> HIDE DEF p
    <3>3. e.live \in BOOLEAN /\ p.live \in BOOLEAN
      BY <3>1 DEF Event
    <3>4. (p.live /\ e.live) \in BOOLEAN
      BY <3>3
    <3>5. event'[j] \in Event /\ event'[j].of = p.of /\ event'[j].live = (p.live /\ e.live)
      BY <3>1, <3>2, <3>4 DEF Event
    <3> QED
      BY <2>3, <3>1, <3>5
  <2> QED
    BY <2>1, <2>2, <2>3
<1>4. event' \in [Id -> Event]
  <2>1. event' = [j \in Id |-> event'[j]]
    BY DEF Becomes
  <2> QED
    BY <1>3, <2>1
<1>5. SeriesInv'
  <2> SUFFICES ASSUME NEW j \in Id
               PROVE  /\ event'[j].of = Calendar[j].of
                      /\ \A s \in event'[j].of : event'[s].of = {} /\ (event'[j].live => event'[s].live)
    BY DEF SeriesInv
  <2>1. event'[j].of = Calendar[j].of
    BY <1>3 DEF SeriesInv
  <2>2. ASSUME NEW s \in event'[j].of PROVE event'[s].of = {} /\ (event'[j].live => event'[s].live)
    <3>1. s \in event[j].of /\ s \in Id
      BY <1>1, <1>3, EventTimed
    <3>2. event[s].of = {} /\ (event[j].live => event[s].live)
      BY <3>1 DEF SeriesInv
    <3>3. event'[s].of = {}
      BY <1>3, <3>1, <3>2
    <3>4. CASE s = i
      <4>1. j # i
        BY <3>1, <3>2, <3>4
      <4> QED
        BY <1>3, <3>1, <3>3, <3>4, <4>1
    <3>5. CASE s # i
      <4>1. event'[s] = event[s]
        BY <1>3, <3>1, <3>2, <3>5
      <4> QED
        BY <1>3, <3>2, <3>3, <4>1
    <3> QED
      BY <3>4, <3>5
  <2> QED
    BY <2>1, <2>2
<1> QED
  BY <1>3, <1>4, <1>5

------------------------------------------------------------------------------
(* The order of a list *)

\* Events are ordered by their starts, and by their identifiers.
LEMMA EarlierOrders ==
    ASSUME TypeOK
    PROVE  /\ \A i \in Id : ~Earlier(i, i)
           /\ \A i, j \in Id : i # j => Earlier(i, j) \/ Earlier(j, i)
           /\ \A i, j, k \in Id : Earlier(i, j) /\ Earlier(j, k) => Earlier(i, k)
<1>1. ASSUME NEW i \in Id PROVE First(event[i]) \in Int
  <2>1. event[i] \in Event /\ event[i].start \in Int
    BY EventTimed DEF TypeOK, Timed
  <2>2. [wall |-> event[i].start * DayLen, zone |-> CalZone] \in Stamp
    BY <2>1, DayAssumption, CalendarAssumption DEF Stamp
  <2>3. Midnight(event[i].start) \in Int
    BY <2>2, Datetimes DEF Midnight
  <2> QED
    BY <2>1, <2>3 DEF First
<1>2. Id \subseteq Nat
  BY CalendarAssumption
<1> DEFINE F(i) == First(event[i])
<1>3. \A i, j \in Id : Earlier(i, j) <=> F(i) < F(j) \/ (F(i) = F(j) /\ i < j)
  BY DEF Earlier
<1>4. \A i \in Id : F(i) \in Int /\ i \in Int
  BY <1>1, <1>2
<1> HIDE DEF F
<1>5. \A i \in Id : ~Earlier(i, i)
  BY <1>3, <1>4
<1>6. \A i, j \in Id : i # j => Earlier(i, j) \/ Earlier(j, i)
  BY <1>3, <1>4
<1>7. \A i, j, k \in Id : Earlier(i, j) /\ Earlier(j, k) => Earlier(i, k)
  BY <1>3, <1>4
<1> QED
  BY <1>5, <1>6, <1>7

\* Any set of events can be put in order.
LEMMA CanOrder ==
    ASSUME TypeOK, NEW S \in SUBSET Id
    PROVE  /\ IsFiniteSet(S) /\ Cardinality(S) \in Nat
           /\ \E q \in SetToSeqs(S) : \A a, b \in DOMAIN q : a < b => Earlier(q[a], q[b])
<1> DEFINE n == Cardinality(S)
           D == 1..n
           Before(i) == {j \in S : Earlier(j, i)}
           rank == [i \in S |-> Cardinality(Before(i)) + 1]
<1>1. IsFiniteSet(S) /\ n \in Nat
  BY CalendarAssumption, FS_Subset, FS_CardinalityType
<1>2. ASSUME NEW i \in S
      PROVE  IsFiniteSet(Before(i)) /\ Cardinality(Before(i)) \in Nat /\ Cardinality(Before(i)) + 1 <= n
  <2>1. i \notin Before(i) /\ Before(i) \subseteq S \ {i}
    BY EarlierOrders
  <2>2. IsFiniteSet(S \ {i}) /\ Cardinality(S \ {i}) = n - 1
    BY <1>1, FS_RemoveElement
  <2>3. IsFiniteSet(Before(i)) /\ Cardinality(Before(i)) <= n - 1
    BY <2>1, <2>2, FS_Subset
  <2>4. Cardinality(Before(i)) \in Nat
    BY <2>3, FS_CardinalityType
  <2> QED
    BY <1>1, <2>3, <2>4
<1>3. rank \in [S -> D]
  <2> HIDE DEF Before, n
  <2> QED
    BY <1>1, <1>2
<1>4. ASSUME NEW i \in S, NEW j \in S, Earlier(i, j) PROVE rank[i] < rank[j]
  <2>1. i \notin Before(i) /\ Before(i) \cup {i} \subseteq Before(j)
    <3>1. i \in Id /\ j \in Id
      OBVIOUS
    <3>2. ~Earlier(i, i)
      BY <3>1, EarlierOrders
    <3>3. \A k \in S : Earlier(k, i) => Earlier(k, j)
      BY <1>4, EarlierOrders
    <3> QED
      BY <1>4, <3>2, <3>3
  <2>2. IsFiniteSet(Before(i) \cup {i}) /\ Cardinality(Before(i) \cup {i}) = Cardinality(Before(i)) + 1
    BY <1>2, <2>1, FS_AddElement
  <2>3. Cardinality(Before(i) \cup {i}) <= Cardinality(Before(j))
    BY <1>2, <2>1, FS_Subset
  <2> HIDE DEF Before
  <2>4. Cardinality(Before(i)) \in Nat /\ Cardinality(Before(j)) \in Nat
    BY <1>2
  <2> QED
    BY <2>2, <2>3, <2>4
<1> HIDE DEF rank, n
<1>5. rank \in Injection(S, D)
  <2>1. ASSUME NEW i \in S, NEW j \in S, rank[i] = rank[j] PROVE i = j
    BY <1>3, <1>4, <2>1, EarlierOrders
  <2> QED
    BY <1>3, <2>1 DEF Injection, IsInjective
<1>6. IsFiniteSet(D) /\ Cardinality(D) = n
  BY <1>1, FS_Interval
<1>7. rank \in Surjection(S, D)
  BY <1>5, <1>6, FS_Injection DEF n
<1>8. \A k \in D : \E i \in S : rank[i] = k
  BY <1>7 DEF Surjection
<1> DEFINE q == [k \in D |-> CHOOSE i \in S : rank[i] = k]
<1>9. \A k \in D : q[k] \in S /\ rank[q[k]] = k
  BY <1>8
<1>10. q \in [D -> S]
  BY <1>9
<1> HIDE DEF q
<1>11. q \in SetToSeqs(S)
  BY <1>9, <1>10 DEF SetToSeqs, n
<1>12. ASSUME NEW a \in D, NEW b \in D, a < b PROVE Earlier(q[a], q[b])
  <2>1. q[a] \in S /\ q[b] \in S /\ rank[q[a]] = a /\ rank[q[b]] = b
    BY <1>9
  <2>2. q[a] # q[b]
    BY <1>12, <2>1
  <2>3. ~Earlier(q[b], q[a])
    <3>1. SUFFICES ASSUME Earlier(q[b], q[a]) PROVE FALSE
      OBVIOUS
    <3>2. b < a
      BY <1>4, <2>1, <3>1
    <3> QED
      BY <1>1, <1>12, <3>2
  <2> QED
    BY <2>1, <2>2, <2>3, EarlierOrders
<1> QED
  BY <1>1, <1>10, <1>11, <1>12 DEF n

\* InOrder: all the events of the set, once each, in their order.
LEMMA InOrderIs ==
    ASSUME TypeOK, NEW S \in SUBSET Id
    PROVE  /\ InOrder(S) \in Seq(S) /\ Len(InOrder(S)) \in Nat
           /\ \A a, b \in 1..Len(InOrder(S)) : a < b => Earlier(InOrder(S)[a], InOrder(S)[b])
           /\ \A i \in S : \E a \in 1..Len(InOrder(S)) : InOrder(S)[a] = i
<1> DEFINE q == InOrder(S)
           n == Cardinality(S)
<1>1. n \in Nat /\ IsFiniteSet(S)
  BY CanOrder
<1>2. q \in SetToSeqs(S) /\ \A a, b \in DOMAIN q : a < b => Earlier(q[a], q[b])
  BY CanOrder DEF InOrder
<1> HIDE DEF q
<1>3. q \in [1..n -> S] /\ \A a, b \in 1..n : a # b => q[a] # q[b]
  BY <1>2 DEF SetToSeqs
<1>4. q \in Seq(S) /\ Len(q) = n
  BY <1>1, <1>3
<1>5. q \in Surjection(1..n, S)
  <2>1. q \in Injection(1..n, S)
    BY <1>3 DEF Injection, IsInjective
  <2>2. Cardinality(1..n) = n
    BY <1>1, FS_Interval
  <2> QED
    BY <1>1, <2>1, <2>2, FS_Injection
<1>6. \A i \in S : \E a \in 1..n : q[a] = i
  BY <1>5 DEF Surjection
<1> QED
  BY <1>1, <1>2, <1>3, <1>4, <1>6 DEF q

------------------------------------------------------------------------------
(* What the writes do to the events *)

\* No event comes back, and no event gets into a series.
OnlyGo == \A j \in Id : event'[j].of = event[j].of /\ (event'[j].live => event[j].live)

\* What a run is asked for.
LEMMA OrderIs ==
    ASSUME NEW o \in Order
    PROVE  /\ o.job \in {"update", "delete", "find"}
           /\ o.job # "find" => /\ o.id \in Id /\ o.start \in Value /\ o.end \in Value
                                /\ o.allDay \in SUBSET BOOLEAN /\ o.zone \in SUBSET Zone
           /\ o.job = "find" => o.limit \in Nat
BY DEF Order

\* The times that an update gives are times, read in a zone, and so is the zone
\* that it gives.
LEMMA AskedTyped ==
    ASSUME NEW o \in Order, o.job # "find", NEW e \in Event
    PROVE  TimesOK(Asked(o, e)) /\ ReadIn(o) \in Zone /\ NewZone(o, e) \in SUBSET Zone
<1>1. ReadIn(o) \in Zone
  BY OrderIs, CalendarAssumption DEF ReadIn
<1>2. NewZone(o, e) \in SUBSET Zone
  BY OrderIs, EventTimed DEF NewZone, Timed
<1>3. TimesOK(Asked(o, e))
  BY <1>1, OrderIs, EventTimed, NewTimesTyped DEF Asked
<1> QED
  BY <1>1, <1>2, <1>3

\* What a PATCH makes of an event: it has the new times, and the zone if there
\* is one.
LEMMA PatchedIs ==
    ASSUME TypeOK, NEW i \in Id, NEW t, TimesOK(t), t.kind = "times", NEW zone \in SUBSET Zone,
           Patched(i, t, zone)
    PROVE  \E e \in Event :
             /\ Becomes(i, e)
             /\ e.allDay = t.allDay /\ e.start = t.start /\ e.end = t.end
             /\ e.of = event[i].of /\ e.live = event[i].live /\ e.series = event[i].series
             /\ \A y \in Zone : zone = {y} => e.zone = y
<1> DEFINE y == IF zone = {} THEN event[i].zone ELSE CHOOSE x \in zone : TRUE
           e == [event[i] EXCEPT !.allDay = t.allDay, !.start = t.start, !.end = t.end, !.zone = y]
<1>1. event[i] \in Event
  BY DEF TypeOK
<1>2. y \in Zone /\ \A x \in Zone : zone = {x} => y = x
  BY <1>1 DEF Event
<1>3. Becomes(i, e)
  BY DEF Patched
<1> HIDE DEF y
<1>4. /\ e \in Event /\ e.allDay = t.allDay /\ e.start = t.start /\ e.end = t.end /\ e.zone = y
      /\ e.of = event[i].of /\ e.live = event[i].live /\ e.series = event[i].series
  BY <1>1, <1>2 DEF TimesOK, Event
<1> HIDE DEF e
<1> QED
  BY <1>2, <1>3, <1>4

\* A write that is carried out; a delete takes the event that was meant with it.
LEMMA AppliedKeeps ==
    ASSUME TypeOK, SeriesInv, NEW r \in Run, Targeted(r), seen[r] \in Event, Applied(r)
    PROVE  /\ event' \in [Id -> Event] /\ SeriesInv' /\ OnlyGo /\ raced' \subseteq Run
           /\ order[r].job = "delete" => ~event'[target[r]].live /\ ~event'[order[r].id].live
<1> DEFINE i == target[r]
           o == order[r]
<1>1. i \in Id /\ o \in Order /\ o.id \in Id /\ o.job # "find" /\ (i = o.id \/ i \in event[o.id].of)
  BY DEF Targeted
<1>2. event \in [Id -> Event] /\ event[i] \in Event
  BY <1>1 DEF TypeOK
<1>3. raced' \subseteq Run
  BY DEF Applied, Race, TypeOK
<1>4. CASE o.job = "update" /\ Patched(i, Asked(o, seen[r]), NewZone(o, seen[r]))
  <2> DEFINE t == Asked(o, seen[r])
             zone == NewZone(o, seen[r])
  <2>1. TimesOK(t) /\ zone \in SUBSET Zone /\ Patched(i, t, zone)
    BY <1>1, <1>4, AskedTyped
  <2> HIDE DEF t, zone
  <2>2. CASE t.kind # "times"
    <3>1. UNCHANGED event
      BY <2>1, <2>2 DEF Patched
    <3>2. SeriesInv'
      BY <3>1 DEF SeriesInv
    <3> QED
      BY <1>2, <1>3, <1>4, <3>1, <3>2 DEF OnlyGo
  <2>3. CASE t.kind = "times"
    <3>1. PICK e \in Event : Becomes(i, e) /\ e.of = event[i].of /\ e.live = event[i].live
      BY <1>1, <2>1, <2>3, PatchedIs
    <3> QED
      BY <1>1, <1>3, <1>4, <3>1, BecomesKeeps DEF OnlyGo
  <2> QED
    BY <2>2, <2>3
<1>5. CASE o.job = "delete" /\ Becomes(i, [event[i] EXCEPT !.live = FALSE])
  <2> DEFINE e == [event[i] EXCEPT !.live = FALSE]
  <2>1. e \in Event /\ e.of = event[i].of /\ ~e.live
    BY <1>2 DEF Event
  <2>2. Becomes(i, e)
    BY <1>5
  <2> HIDE DEF e
  <2>3. /\ event' \in [Id -> Event] /\ SeriesInv' /\ OnlyGo
        /\ \A j \in Id : j = i \/ i \in event[j].of => ~event'[j].live
    BY <1>1, <2>1, <2>2, BecomesKeeps DEF OnlyGo
  <2> QED
    BY <1>1, <1>3, <2>3
<1> QED
  BY <1>4, <1>5 DEF Applied

\* A user's edit.
LEMMA EditKeeps ==
    ASSUME TypeOK, SeriesInv, Edit
    PROVE  /\ event' \in [Id -> Event] /\ SeriesInv' /\ OnlyGo
           /\ raced' \subseteq Run /\ edits' \in 0..MaxEdits
<1>1. raced' \subseteq Run /\ edits' \in 0..MaxEdits
  BY EditAssumption DEF Edit, Race, TypeOK
<1>2. PICK i \in Id :
         /\ event[i].live
         /\ \/ Becomes(i, [event[i] EXCEPT !.live = FALSE])
            \/ ~event[i].series /\ event[i].of = {} /\ Becomes(i, [event[i] EXCEPT !.series = TRUE])
            \/ LET day == IF event[i].allDay THEN 1 ELSE DayLen
               IN Becomes(i, [event[i] EXCEPT !.start = @ + day, !.end = @ + day])
  BY DEF Edit
<1>3. event[i] \in Event
  BY DEF TypeOK
<1> DEFINE day == IF event[i].allDay THEN 1 ELSE DayLen
<1>4. PICK e \in Event : e.of = event[i].of /\ (e.live => event[i].live) /\ Becomes(i, e)
  <2>1. CASE Becomes(i, [event[i] EXCEPT !.live = FALSE])
    <3>1. [event[i] EXCEPT !.live = FALSE] \in Event
      BY <1>3 DEF Event
    <3>2. [event[i] EXCEPT !.live = FALSE].of = event[i].of
      BY <1>3 DEF Event
    <3> QED
      BY <1>2, <2>1, <3>1, <3>2
  <2>2. CASE Becomes(i, [event[i] EXCEPT !.series = TRUE])
    <3>1. [event[i] EXCEPT !.series = TRUE] \in Event
      BY <1>3 DEF Event
    <3>2. [event[i] EXCEPT !.series = TRUE].of = event[i].of
      BY <1>3 DEF Event
    <3> QED
      BY <1>2, <2>2, <3>1, <3>2
  <2>3. CASE Becomes(i, [event[i] EXCEPT !.start = @ + day, !.end = @ + day])
    <3>1. day \in Int /\ event[i].start \in Int /\ event[i].end \in Int
      BY <1>3, DayAssumption, EventTimed DEF Timed
    <3>2. event[i].start + day \in Int /\ event[i].end + day \in Int
      BY <3>1
    <3> DEFINE e == [event[i] EXCEPT !.start = event[i].start + day, !.end = event[i].end + day]
    <3> HIDE DEF day
    <3>3. e \in Event /\ e.of = event[i].of
      BY <1>3, <3>2 DEF Event
    <3> QED
      BY <1>2, <2>3, <3>3
  <2> QED
    BY <1>2, <2>1, <2>2, <2>3
<1> QED
  BY <1>1, <1>4, BecomesKeeps DEF OnlyGo

\* A run that does not step, while events are changed or deleted.
LEMMA OtherRun ==
    ASSUME NEW u \in Run, RunInv(u), SaidInv(u), OnlyGo,
           pc'[u] = pc[u], order'[u] = order[u], target'[u] = target[u], seen'[u] = seen[u],
           answer'[u] = answer[u], u \in late' => u \in late
    PROVE  RunInv(u)' /\ SaidInv(u)'
<1>1. Targeted(u) => Targeted(u)'
  BY DEF Targeted, OnlyGo
<1>2. RunInv(u)'
  BY <1>1 DEF RunInv
<1>3. SaidInv(u)'
  BY DEF SaidInv, OnlyGo
<1> QED
  BY <1>2, <1>3

\* What a run does about an event ends the run, or leads on; "already" is said
\* of an event that is deleted.
LEMMA DecideIs ==
    ASSUME NEW r \in Run, NEW i \in Id, NEW o, o.job \in {"update", "delete"}, Decide(r, i, o)
    PROVE  \/ \E k \in {"error", "already", "success"} :
                Return(r, k) /\ (k = "already" => ~event[i].live)
           \/ Go(r, "zone") /\ o.job = "update"
           \/ Go(r, "write")
BY DEF Decide

------------------------------------------------------------------------------
(* The steps of a run *)

\* The other runs keep what they have.
Still(r) ==
    \A u \in Run \ {r} :
        /\ pc'[u] = pc[u] /\ order'[u] = order[u] /\ target'[u] = target[u] /\ seen'[u] = seen[u]
        /\ items'[u] = items[u] /\ answer'[u] = answer[u]
        /\ (u \in late' <=> u \in late)

\* What a step of a run has to show of that run.
Typed(r) ==
    /\ pc[r] \in {"idle", "look", "series", "zone", "write", "list", "done"}
    /\ pc[r] # "idle" => order[r] \in Orders[r]
    /\ target[r] \in Id \cup {0}
    /\ pc[r] \in {"zone", "write"} /\ order[r].job # "find" => seen[r] \in Event
    /\ order[r] \in Order \cup {{}}
    /\ seen[r] \in Event \cup {{}}
    /\ items[r] \in Seq(Id)
    /\ answer[r] \in {"none", "success", "deleted", "already", "found", "error", "cut"}
    /\ answer[r] = "none" <=> pc[r] # "done"

\* The variables that hold something for each run.
Held ==
    /\ pc = [u \in Run |-> pc[u]]
    /\ order = [u \in Run |-> order[u]]
    /\ target = [u \in Run |-> target[u]]
    /\ seen = [u \in Run |-> seen[u]]
    /\ items = [u \in Run |-> items[u]]
    /\ answer = [u \in Run |-> answer[u]]

\* The types, run by run.
TypedRuns == \A r \in Run : Typed(r)

TypedRest ==
    event \in [Id -> Event] /\ late \subseteq Run /\ edits \in 0..MaxEdits /\ raced \subseteq Run

LEMMA TypesByRun == TypeOK /\ ShapeInv <=> Held /\ TypedRuns /\ TypedRest
<1>1. ASSUME TypeOK, ShapeInv PROVE Held /\ TypedRuns
  BY <1>1 DEF TypeOK, ShapeInv, Held, Typed, TypedRuns
<1>2. ASSUME Held, TypedRuns, TypedRest PROVE TypeOK /\ ShapeInv
  BY <1>2 DEF TypeOK, ShapeInv, Held, Typed, TypedRuns, TypedRest
<1>3. TypeOK => TypedRest
  BY DEF TypeOK, TypedRest
<1> QED
  BY <1>1, <1>2, <1>3

LEMMA TypesByRunNext == TypeOK' /\ ShapeInv' <=> Held' /\ TypedRuns' /\ TypedRest'
BY TypesByRun, PTL

\* The invariant, from what a step of a run shows of that run.
LEMMA StepOf ==
    ASSUME IInv, NEW r \in Run, Still(r), Held', Typed(r)', RunInv(r)', SaidInv(r)',
           event' \in [Id -> Event], SeriesInv', OnlyGo,
           late' \subseteq Run, edits' \in 0..MaxEdits, raced' \subseteq Run,
           answer'[r] = "deleted" =>
             \A u \in Run \ {r} : answer[u] = "deleted" => target[u] # target'[r]
    PROVE  IInv'
<1>1. ASSUME NEW u \in Run \ {r} PROVE Typed(u)' /\ RunInv(u)' /\ SaidInv(u)'
  <2>1. Typed(u)
    BY TypesByRun DEF IInv, TypedRuns, TypedRest
  <2>2. Typed(u)'
    BY <2>1 DEF Still, Typed
  <2> QED
    BY <2>2, OtherRun DEF IInv, Still
<1>2. TypeOK' /\ ShapeInv'
  <2>1. TypedRuns' /\ TypedRest'
    BY <1>1 DEF TypedRuns, TypedRest
  <2> QED
    BY <2>1, TypesByRunNext
<1>3. OnceInv'
  BY DEF IInv, OnceInv, Still
<1> QED
  BY <1>1, <1>2, <1>3 DEF IInv

\* A step that leaves the events alone.
LEMMA IdleStep ==
    ASSUME IInv, NEW r \in Run, Still(r), Held', Typed(r)', RunInv(r)', SaidInv(r)',
           UNCHANGED <<event, edits, raced>>, late' \subseteq late \cup {r}, answer'[r] # "deleted"
    PROVE  IInv'
<1>1. event' \in [Id -> Event] /\ OnlyGo /\ late' \subseteq Run /\ edits' \in 0..MaxEdits /\ raced' \subseteq Run
  BY DEF IInv, TypeOK, OnlyGo
<1>2. SeriesInv'
  BY DEF IInv, SeriesInv
<1> QED
  BY <1>1, <1>2, StepOf

\* A run that is given an order.
LEMMA BeginStep == ASSUME IInv, NEW r \in Run, Begin(r) PROVE IInv'
<1>1. PICK o \in Orders[r] :
        /\ order' = [order EXCEPT ![r] = o]
        /\ Go(r, IF o.job # "find" THEN "look"
                 ELSE IF o.period # "none" \/ {o.start.kind, o.end.kind} \cap {"day", "naive"} # {} THEN "zone" ELSE "list")
  BY DEF Begin
<1>2. o \in Order
  BY OrderAssumption
<1>3. /\ Held /\ Typed(r) /\ RunInv(r) /\ SaidInv(r)
  BY TypesByRun DEF IInv, TypedRuns, TypedRest
<1>4. /\ pc[r] = "idle"
      /\ pc' = [pc EXCEPT ![r] = pc'[r]]
      /\ order'[r] = o
      /\ IF o.job # "find" THEN pc'[r] = "look" ELSE pc'[r] \in {"zone", "list"}
      /\ UNCHANGED <<event, target, seen, items, late, answer, edits, raced>>
  BY <1>1, <1>3 DEF Begin, Go, Idle, Held
<1>5. Still(r) /\ Held'
  BY <1>1, <1>3, <1>4 DEF Held, Still
<1>6. Typed(r)'
  BY <1>2, <1>3, <1>4 DEF Typed
<1>7. RunInv(r)' /\ SaidInv(r)'
  <2>1. answer'[r] = "none" /\ r \notin late'
    BY <1>3, <1>4 DEF Typed, RunInv
  <2> QED
    BY <1>2, <1>4, <2>1, OrderIs DEF RunInv, SaidInv
<1> QED
  BY <1>3, <1>4, <1>5, <1>6, <1>7, IdleStep DEF Typed

\* A run that returns, without having said that it deleted anything.
LEMMA EndStep ==
    ASSUME IInv, NEW r \in Run, pc[r] \notin {"idle", "done"},
           NEW k \in {"success", "already", "found", "error", "cut"}, Return(r, k),
           k = "already" => order[r].id \in Id /\ ~event[order[r].id].live,
           target' = target \/ \E i \in Id : target' = [target EXCEPT ![r] = i],
           seen' = seen \/ \E e \in Event : seen' = [seen EXCEPT ![r] = e],
           items' = items \/ \E q \in Seq(Id) : items' = [items EXCEPT ![r] = q],
           UNCHANGED <<event, order, edits, raced>>,
           late' = late \/ (late' = late \cup {r} /\ Targeted(r)' /\ seen'[r] \in Event)
    PROVE  IInv'
<1>1. Held /\ Typed(r) /\ RunInv(r) /\ SaidInv(r)
  BY TypesByRun DEF IInv, TypedRuns, TypedRest
<1>2. pc'[r] = "done" /\ answer'[r] = k /\ r \notin late
  BY <1>1 DEF Return, Held, RunInv
<1>3. Still(r) /\ Held'
  BY <1>1 DEF Held, Still, Return
<1>4. target'[r] \in Id \cup {0} /\ seen'[r] \in Event \cup {{}} /\ items'[r] \in Seq(Id)
  BY <1>1 DEF Held, Typed
<1>5. Typed(r)'
  BY <1>1, <1>2, <1>4 DEF Typed
<1>6. RunInv(r)' /\ SaidInv(r)'
  BY <1>2 DEF RunInv, SaidInv
<1> QED
  BY <1>2, <1>3, <1>5, <1>6, IdleStep

\* A run that goes on to its next call, to its event.
LEMMA OnStep ==
    ASSUME IInv, NEW r \in Run, pc[r] \notin {"idle", "done"},
           NEW p \in {"series", "zone", "write"}, Go(r, p),
           p = "zone" => order[r].job = "update",
           target' = target \/ \E i \in Id : target' = [target EXCEPT ![r] = i],
           seen' = seen \/ \E e \in Event : seen' = [seen EXCEPT ![r] = e],
           Targeted(r)', p # "series" => seen'[r] \in Event,
           UNCHANGED <<event, order, items, late, edits, raced>>
    PROVE  IInv'
<1>1. Held /\ Typed(r) /\ RunInv(r) /\ SaidInv(r)
  BY TypesByRun DEF IInv, TypedRuns, TypedRest
<1>2. pc'[r] = p /\ answer'[r] = "none" /\ r \notin late'
  BY <1>1 DEF Go, Held, RunInv, Typed
<1>3. Still(r) /\ Held'
  BY <1>1 DEF Held, Still, Go
<1>4. target'[r] \in Id \cup {0} /\ seen'[r] \in Event \cup {{}}
  BY <1>1 DEF Held, Typed
<1>5. Typed(r)'
  BY <1>1, <1>2, <1>4 DEF Typed
<1>6. RunInv(r)' /\ SaidInv(r)'
  BY <1>2 DEF RunInv, SaidInv
<1> QED
  BY <1>2, <1>3, <1>5, <1>6, IdleStep

\* A run that reads its event, or the series of it.
LEMMA LookStep == ASSUME IInv, NEW r \in Run, Look(r) PROVE IInv'
<1> DEFINE o == order[r]
           i == IF pc[r] = "look" THEN o.id ELSE target[r]
<1>1. Held /\ Typed(r) /\ RunInv(r) /\ SaidInv(r) /\ SeriesInv /\ event \in [Id -> Event]
  BY TypesByRun DEF IInv, TypedRuns, TypedRest
<1>2. pc[r] \in {"look", "series"} /\ UNCHANGED <<event, order, items, late, edits, raced>>
  BY DEF Look, Idle
<1>3. o \in Order /\ o.job \in {"update", "delete"} /\ o.id \in Id
  BY <1>1, <1>2, OrderAssumption, OrderIs DEF RunInv, Typed, Targeted
<1>4. i \in Id /\ (i = o.id \/ i \in event[o.id].of)
  BY <1>1, <1>2, <1>3 DEF RunInv, Targeted
<1>5. event[o.id].live => event[i].live
  BY <1>3, <1>4, <1>1 DEF SeriesInv
<1> HIDE DEF i
<1>6. CASE /\ pc[r] = "look" /\ o.all /\ event[i].of # {}
           /\ target' = [target EXCEPT ![r] = CHOOSE s \in event[i].of : TRUE]
           /\ Go(r, "series")
           /\ UNCHANGED seen
  <2> DEFINE s == CHOOSE s \in event[i].of : TRUE
  <2>1. i = o.id /\ s \in event[i].of /\ s \in Id
    BY <1>1, <1>4, <1>6, EventTimed DEF i
  <2> HIDE DEF s
  <2>2. target' = [target EXCEPT ![r] = s] /\ target'[r] = s
    BY <1>1, <1>6 DEF s, Held
  <2>3. Targeted(r)'
    BY <1>2, <1>3, <2>1, <2>2 DEF Targeted
  <2> QED
    BY <1>2, <1>6, <2>1, <2>2, <2>3, OnStep
<1>7. CASE /\ target' = [target EXCEPT ![r] = i]
           /\ seen' = [seen EXCEPT ![r] = event[i]]
           /\ Decide(r, i, o)
  <2>1. event[i] \in Event /\ target'[r] = i /\ seen'[r] \in Event
    BY <1>1, <1>4, <1>7 DEF Held
  <2>2. Targeted(r)'
    BY <1>2, <1>3, <1>4, <2>1 DEF Targeted
  <2>3. ASSUME NEW k \in {"error", "already", "success"}, Return(r, k), k = "already" => ~event[i].live
        PROVE  IInv'
    BY <1>2, <1>3, <1>4, <1>5, <1>7, <2>1, <2>3, EndStep
  <2>4. ASSUME NEW p \in {"zone", "write"}, Go(r, p), p = "zone" => o.job = "update"
        PROVE  IInv'
    BY <1>2, <1>4, <1>7, <2>1, <2>2, <2>4, OnStep
  <2>5. \/ \E k \in {"error", "already", "success"} : Return(r, k) /\ (k = "already" => ~event[i].live)
        \/ Go(r, "zone") /\ o.job = "update"
        \/ Go(r, "write")
    BY <1>3, <1>4, <1>7, DecideIs
  <2> QED
    BY <2>3, <2>4, <2>5
<1>8. CASE /\ ~event[i].live /\ Return(r, "already")
           /\ UNCHANGED <<target, seen>>
  BY <1>2, <1>3, <1>5, <1>8, EndStep
<1>9. CASE /\ Return(r, "error")
           /\ UNCHANGED <<target, seen>>
  BY <1>2, <1>9, EndStep
<1> QED
  BY <1>6, <1>7, <1>8, <1>9 DEF Look, i

\* A run that reads the calendar's zone.
LEMMA ReadZoneStep == ASSUME IInv, NEW r \in Run, ReadZone(r) PROVE IInv'
<1>1. Held /\ Typed(r) /\ RunInv(r) /\ SaidInv(r)
  BY TypesByRun DEF IInv, TypedRuns, TypedRest
<1>2. pc[r] = "zone" /\ UNCHANGED <<event, order, target, seen, items, late, edits, raced>>
  BY DEF ReadZone, Idle
<1>3. CASE order[r].job = "update" /\ Go(r, "write")
  <2>1. Targeted(r) /\ seen[r] \in Event
    BY <1>1, <1>2, <1>3 DEF RunInv
  <2>2. Targeted(r)'
    BY <1>2, <2>1 DEF Targeted
  <2> QED
    BY <1>2, <1>3, <2>1, <2>2, OnStep
<1>4. CASE order[r].job = "find" /\ Go(r, "list")
  <2>1. pc' = [pc EXCEPT ![r] = "list"] /\ UNCHANGED answer
    BY <1>4 DEF Go
  <2>2. Still(r) /\ Held'
    BY <1>1, <1>2, <2>1 DEF Held, Still
  <2>3. pc'[r] = "list" /\ answer'[r] = "none" /\ r \notin late'
    BY <1>1, <1>2, <2>1 DEF Held, Typed, RunInv
  <2>4. Typed(r)' /\ RunInv(r)' /\ SaidInv(r)'
    BY <1>1, <1>2, <1>4, <2>3 DEF Typed, RunInv, SaidInv
  <2> QED
    BY <1>2, <2>2, <2>3, <2>4, IdleStep
<1>5. CASE Return(r, "error")
  BY <1>2, <1>5, EndStep
<1> QED
  BY <1>3, <1>4, <1>5 DEF ReadZone

\* The events behind those that a run has are events.
LEMMA BehindIs ==
    ASSUME TypeOK, NEW o, NEW have
    PROVE  Behind(Listed(o), have) \in Seq(Id)
<1> DEFINE S == {i \in Listed(o) : have = <<>> \/ Earlier(Last(have), i)}
<1>1. S \in SUBSET Id
  BY DEF Listed
<1>2. Behind(Listed(o), have) = InOrder(S)
  BY DEF Behind
<1> HIDE DEF S
<1>3. InOrder(S) \in Seq(S)
  BY <1>1, InOrderIs
<1> QED
  BY <1>1, <1>2, <1>3

\* The lesser of two numbers.
LEMMA MinIs == ASSUME NEW a \in Int, NEW b \in Int PROVE Min({a, b}) \in Int /\ Min({a, b}) <= a /\ Min({a, b}) <= b
<1>1. \E x \in {a, b} : \A y \in {a, b} : x <= y
  <2>1. CASE a <= b
    BY <2>1
  <2>2. CASE b <= a
    BY <2>2
  <2> QED
    BY <2>1, <2>2
<1>2. Min({a, b}) \in {a, b} /\ \A y \in {a, b} : Min({a, b}) <= y
  BY <1>1 DEF Min
<1> QED
  BY <1>2

\* What a page adds.
LEMMA PageIs ==
    ASSUME IInv, NEW r \in Run, pc[r] = "list", NEW k,
           k \in 0..Min({Len(Behind(Listed(order[r]), items[r])), order[r].limit - Len(items[r])})
    PROVE  /\ Behind(Listed(order[r]), items[r]) \in Seq(Id)
           /\ k \in 0..Len(Behind(Listed(order[r]), items[r])) /\ Len(items[r]) + k <= order[r].limit
           /\ order[r].limit \in Nat /\ Len(items[r]) \in Nat
           /\ SubSeq(Behind(Listed(order[r]), items[r]), 1, k) \in Seq(Id)
           /\ items[r] \o SubSeq(Behind(Listed(order[r]), items[r]), 1, k) \in Seq(Id)
<1> DEFINE rest == Behind(Listed(order[r]), items[r])
           have == items[r]
           lim == order[r].limit
<1>1. rest \in Seq(Id) /\ have \in Seq(Id)
  BY BehindIs DEF IInv, ShapeInv
<1>2. lim \in Nat
  <2>1. order[r] \in Orders[r] /\ order[r].job = "find"
    BY DEF IInv, TypeOK, RunInv
  <2> QED
    BY <2>1, OrderAssumption, OrderIs
<1> HIDE DEF rest, have, lim
<1>3. Len(rest) \in Int /\ lim - Len(have) \in Int
  BY <1>1, <1>2
<1>4. k \in 0..Len(rest) /\ Len(have) + k <= lim
  <2>1. k \in 0..Min({Len(rest), lim - Len(have)})
    BY DEF rest, have, lim
  <2>2. /\ Min({Len(rest), lim - Len(have)}) \in Int
        /\ Min({Len(rest), lim - Len(have)}) <= Len(rest)
        /\ Min({Len(rest), lim - Len(have)}) <= lim - Len(have)
    BY <1>3, MinIs
  <2> QED
    BY <1>1, <1>2, <2>1, <2>2
<1>5. SubSeq(rest, 1, k) \in Seq(Id)
  BY <1>1, <1>4
<1>6. have \o SubSeq(rest, 1, k) \in Seq(Id)
  <2> HIDE DEF have
  <2> QED
    BY <1>1, <1>5
<1> QED
  BY <1>1, <1>2, <1>4, <1>5, <1>6 DEF rest, have, lim

\* A page of a search.
LEMMA ListStep == ASSUME IInv, NEW r \in Run, List(r) PROVE IInv'
<1> DEFINE o == order[r]
           rest == Behind(Listed(o), items[r])
<1>1. Held /\ Typed(r) /\ RunInv(r) /\ SaidInv(r)
  BY TypesByRun DEF IInv, TypedRuns, TypedRest
<1>2. pc[r] = "list" /\ UNCHANGED <<event, order, target, seen, late, edits, raced>>
  BY DEF List, Idle
<1>3. CASE (Return(r, "found") \/ Return(r, "error")) /\ UNCHANGED items
  BY <1>2, <1>3, EndStep
<1>4. ASSUME NEW k \in 0..Min({Len(rest), o.limit - Len(items[r])}),
             items' = [items EXCEPT ![r] = @ \o SubSeq(rest, 1, k)],
             IF k = Len(rest) \/ Len(items[r]) + k = o.limit THEN Return(r, "found")
             ELSE k > 0 /\ UNCHANGED <<pc, answer>>
      PROVE  IInv'
  <2> DEFINE q == items[r] \o SubSeq(rest, 1, k)
  <2>1. q \in Seq(Id)
    BY <1>2, PageIs
  <2>2. items' = [items EXCEPT ![r] = q]
    BY <1>4
  <2> HIDE DEF q
  <2>3. CASE Return(r, "found")
    BY <1>2, <2>1, <2>2, <2>3, EndStep
  <2>4. CASE UNCHANGED <<pc, answer>>
    <3>1. Still(r) /\ Held' /\ items'[r] = q
      BY <1>1, <1>2, <2>2, <2>4 DEF Held, Still
    <3>2. Typed(r)'
      BY <1>1, <1>2, <2>1, <2>4, <3>1 DEF Typed
    <3>3. RunInv(r)' /\ SaidInv(r)'
      BY <1>1, <1>2, <2>4 DEF RunInv, SaidInv, Targeted
    <3>4. answer'[r] # "deleted"
      BY <1>1, <1>2, <2>4 DEF Typed
    <3> QED
      BY <1>2, <3>1, <3>2, <3>3, <3>4, IdleStep
  <2> QED
    BY <1>4, <2>3, <2>4
<1> HIDE DEF rest
<1> QED
  BY <1>3, <1>4 DEF List, rest

\* A run that writes.
LEMMA WriteStep == ASSUME IInv, NEW r \in Run, Write(r) PROVE IInv'
<1>1. Held /\ Typed(r) /\ RunInv(r) /\ SaidInv(r) /\ TypeOK /\ SeriesInv
  BY TypesByRun DEF IInv, TypedRuns, TypedRest
<1>2. /\ pc[r] = "write" /\ UNCHANGED <<order, target, seen, items, edits>>
      /\ Targeted(r) /\ seen[r] \in Event /\ r \notin late
  BY <1>1 DEF Write, RunInv
<1>3. ASSUME Applied(r), UNCHANGED late,
             NEW k \in {"success", "error", "deleted", "already"}, Return(r, k),
             k \in {"deleted", "already"} => order[r].job = "delete" /\ k = Outcome(r)
      PROVE  IInv'
  <2>1. /\ event' \in [Id -> Event] /\ SeriesInv' /\ OnlyGo /\ raced' \subseteq Run
        /\ order[r].job = "delete" => ~event'[target[r]].live /\ ~event'[order[r].id].live
    BY <1>1, <1>2, <1>3, AppliedKeeps
  <2>2. Still(r) /\ Held'
    BY <1>1, <1>2, <1>3 DEF Held, Still, Return
  <2>3. pc'[r] = "done" /\ answer'[r] = k
    BY <1>1, <1>3 DEF Held, Return
  <2>4. Typed(r)' /\ RunInv(r)'
    BY <1>1, <1>2, <1>3, <2>3 DEF Typed, RunInv
  <2>5. SaidInv(r)'
    BY <1>2, <1>3, <2>1, <2>3 DEF SaidInv, Targeted
  <2>6. k = "deleted" => event[target[r]].live
    BY <1>3 DEF Outcome
  <2>7. ASSUME k = "deleted", NEW u \in Run \ {r}, answer[u] = "deleted" PROVE target[u] # target[r]
    BY <2>6, <2>7 DEF IInv, SaidInv
  <2> QED
    BY <1>1, <1>2, <1>3, <2>1, <2>2, <2>3, <2>4, <2>5, <2>7, StepOf DEF TypeOK
<1>4. ASSUME Applied(r), UNCHANGED late,
             \/ Return(r, IF order[r].job = "delete" THEN Outcome(r) ELSE "success")
             \/ Return(r, "error")
      PROVE  IInv'
  <2>1. CASE Return(r, "error")
    BY <1>3, <1>4, <2>1
  <2>2. CASE order[r].job = "delete" /\ Return(r, Outcome(r))
    <3>1. Outcome(r) \in {"deleted", "already"}
      BY DEF Outcome
    <3> QED
      BY <1>3, <1>4, <2>2, <3>1
  <2>3. CASE order[r].job # "delete" /\ Return(r, "success")
    BY <1>3, <1>4, <2>3
  <2> QED
    BY <1>4, <2>1, <2>2, <2>3
<1>5. CASE /\ Return(r, "error")
           /\ late' \in {late, IF Refused(r) THEN late ELSE late \cup {r}}
           /\ UNCHANGED <<event, raced>>
  <2>1. late' = late \/ late' = late \cup {r}
    BY <1>5
  <2>2. Targeted(r)' /\ seen'[r] \in Event
    BY <1>2, <1>5 DEF Targeted
  <2> QED
    BY <1>2, <1>5, <2>1, <2>2, EndStep
<1> QED
  BY <1>4, <1>5 DEF Write

\* A run that is cut off.
LEMMA CutStep == ASSUME IInv, NEW r \in Run, Cut(r) PROVE IInv'
<1>1. RunInv(r)
  BY DEF IInv
<1>2. /\ pc[r] \notin {"idle", "done"} /\ Return(r, "cut")
      /\ UNCHANGED <<event, order, target, seen, items, edits, raced>>
  BY DEF Cut
<1>3. late' = late \/ (late' = late \cup {r} /\ pc[r] = "write")
  BY DEF Cut
<1>4. pc[r] = "write" => Targeted(r)' /\ seen'[r] \in Event
  BY <1>1, <1>2 DEF RunInv, Targeted
<1> QED
  BY <1>2, <1>3, <1>4, EndStep

\* A write that arrives late.
LEMMA ArriveStep == ASSUME IInv, Arrive PROVE IInv'
<1>1. PICK r \in Run : /\ r \in late /\ Applied(r) /\ late' = late \ {r}
                       /\ UNCHANGED <<pc, order, target, seen, items, answer, edits>>
  BY DEF Arrive, IInv, TypeOK
<1>2. Held /\ Typed(r) /\ RunInv(r) /\ SaidInv(r) /\ TypeOK /\ SeriesInv
  BY TypesByRun DEF IInv, TypedRuns, TypedRest
<1>3. Targeted(r) /\ seen[r] \in Event /\ pc[r] = "done"
  BY <1>1, <1>2 DEF RunInv
<1>4. event' \in [Id -> Event] /\ SeriesInv' /\ OnlyGo /\ raced' \subseteq Run
  BY <1>1, <1>2, <1>3, AppliedKeeps
<1>5. Still(r) /\ Held' /\ Typed(r)'
  BY <1>1, <1>2 DEF Still, Held, Typed
<1>6. RunInv(r)' /\ SaidInv(r)'
  BY <1>1, <1>2, <1>4, OtherRun
<1>7. answer'[r] = "deleted" => \A u \in Run \ {r} : answer[u] = "deleted" => target[u] # target'[r]
  BY <1>1 DEF IInv, OnceInv
<1> QED
  BY <1>1, <1>2, <1>4, <1>5, <1>6, <1>7, StepOf DEF TypeOK

\* A user's edit changes no run.
LEMMA EditStep == ASSUME IInv, Edit PROVE IInv'
<1>1. /\ event' \in [Id -> Event] /\ SeriesInv' /\ OnlyGo /\ raced' \subseteq Run /\ edits' \in 0..MaxEdits
  BY EditKeeps DEF IInv
<1>2. UNCHANGED <<pc, order, target, seen, items, late, answer>>
  BY DEF Edit
<1>3. \A u \in Run : RunInv(u)' /\ SaidInv(u)'
  BY <1>1, <1>2, OtherRun DEF IInv
<1>4. TypeOK' /\ ShapeInv' /\ OnceInv'
  BY <1>1, <1>2 DEF IInv, TypeOK, ShapeInv, OnceInv
<1> QED
  BY <1>1, <1>3, <1>4 DEF IInv

------------------------------------------------------------------------------
(* The theorems *)

LEMMA InitIInv == Init => IInv
<1> SUFFICES ASSUME Init PROVE IInv
  OBVIOUS
<1>1. TypeOK /\ ShapeInv /\ OnceInv
  BY CalendarAssumption, EditAssumption DEF Init, TypeOK, ShapeInv, OnceInv, Id
<1>2. SeriesInv
  BY CalendarAssumption DEF Init, SeriesInv
<1>3. \A r \in Run : RunInv(r) /\ SaidInv(r)
  BY DEF Init, RunInv, SaidInv
<1> QED
  BY <1>1, <1>2, <1>3 DEF IInv

LEMMA StepIInv == IInv /\ [Next]_vars => IInv'
<1> SUFFICES ASSUME IInv, [Next]_vars PROVE IInv'
  OBVIOUS
<1>1. ASSUME NEW r \in Run, Begin(r) \/ Look(r) \/ ReadZone(r) \/ List(r) \/ Write(r) \/ Cut(r)
      PROVE  IInv'
  BY <1>1, BeginStep, LookStep, ReadZoneStep, ListStep, WriteStep, CutStep
<1>2. CASE UNCHANGED vars
  <2>1. TypeOK' /\ ShapeInv' /\ SeriesInv' /\ OnceInv' /\ OnlyGo
    BY <1>2 DEF vars, IInv, TypeOK, ShapeInv, SeriesInv, OnceInv, OnlyGo
  <2>2. \A u \in Run : RunInv(u)' /\ SaidInv(u)'
    BY <1>2, <2>1, OtherRun DEF vars, IInv
  <2> QED
    BY <2>1, <2>2 DEF IInv
<1> QED
  BY <1>1, <1>2, ArriveStep, EditStep DEF Next

LEMMA SpecIInv == Spec => []IInv
BY InitIInv, StepIInv, PTL DEF Spec

\* The state keeps its types: the times that an update computes are times, in
\* any zone and for any values, and what a search has found are events.
THEOREM TypeCorrect == Spec => []TypeOK
<1>1. IInv => TypeOK
  BY DEF IInv
<1> QED
  BY SpecIInv, <1>1, PTL

\* A delete that says that an event is deleted is right, for good, whatever
\* happens meanwhile and afterwards, and one run at most says that it was it.
THEOREM DeletesTrue == Spec => []DeletesAreTrue
<1>1. IInv => DeletesAreTrue
  BY DEF IInv, SaidInv, OnceInv, DeletesAreTrue
<1> QED
  BY SpecIInv, <1>1, PTL

------------------------------------------------------------------------------
(* Pages                                                                    *)
(*                                                                          *)
(* What a search has found is a first part of what the API lists (FirstOf), *)
(* as long as no event is changed under it.                                 *)

Covered(q, i) == \E a \in 1..Len(q) : q[a] = i

Precedes(q, i) == \A a \in 1..Len(q) : Earlier(q[a], i)

\* q has events of the list, in their order, and the others come later.
FirstOf(q, list) ==
    /\ \A a, b \in 1..Len(q) : a < b => Earlier(q[a], q[b])
    /\ \A a \in 1..Len(q) : q[a] \in list
    /\ \A i \in list : Covered(q, i) \/ Precedes(q, i)

PageInv(r) ==
    /\ pc[r] \notin {"list", "done"} => items[r] = <<>>
    /\ pc[r] = "list" /\ r \notin raced =>
         /\ FirstOf(items[r], Listed(order[r])) /\ Len(items[r]) <= order[r].limit
         /\ NoTime(order[r]) => items[r] = <<>>

PInv == IInv /\ \A r \in Run : PageInv(r)

\* An answer of a search that nothing was changed under.
FoundFirst(r) ==
    LET o == order[r]
        q == items'[r]
    IN IF NoTime(o) THEN q = <<>>
       ELSE /\ FirstOf(q, Listed(o)) /\ Len(q) <= o.limit
            /\ Len(q) = o.limit \/ \A i \in Listed(o) : Covered(q, i)

\* A page makes a longer first part, and the last one makes it whole.
LEMMA PageAdds ==
    ASSUME IInv, NEW list \in SUBSET Id, NEW have \in Seq(Id), FirstOf(have, list),
           NEW k \in 0..Len(Behind(list, have))
    PROVE  /\ FirstOf(have \o SubSeq(Behind(list, have), 1, k), list)
           /\ Len(have \o SubSeq(Behind(list, have), 1, k)) = Len(have) + k
           /\ k = Len(Behind(list, have)) =>
                \A i \in list : Covered(have \o SubSeq(Behind(list, have), 1, k), i)
<1> DEFINE S == {i \in list : have = <<>> \/ Earlier(Last(have), i)}
           rest == Behind(list, have)
           page == SubSeq(rest, 1, k)
           q == have \o page
           m == Len(have)
<1>1. TypeOK /\ S \in SUBSET Id /\ rest = InOrder(S) /\ m \in Nat
  BY DEF IInv, Behind
<1>2. \A i, j, l \in Id : Earlier(i, j) /\ Earlier(j, l) => Earlier(i, l)
  BY <1>1, EarlierOrders
<1>3. /\ rest \in Seq(S) /\ rest \in Seq(Id) /\ Len(rest) \in Nat
      /\ \A a, b \in 1..Len(rest) : a < b => Earlier(rest[a], rest[b])
      /\ \A i \in S : \E a \in 1..Len(rest) : rest[a] = i
  <2> HIDE DEF S, rest
  <2>1. /\ rest \in Seq(S) /\ Len(rest) \in Nat
        /\ \A a, b \in 1..Len(rest) : a < b => Earlier(rest[a], rest[b])
        /\ \A i \in S : \E a \in 1..Len(rest) : rest[a] = i
    BY <1>1, InOrderIs
  <2>2. ASSUME NEW T \in SUBSET Id, NEW s \in Seq(T) PROVE s \in Seq(Id)
    OBVIOUS
  <2>3. rest \in Seq(Id)
    BY <1>1, <2>1, <2>2
  <2> QED
    BY <2>1, <2>3
<1> HIDE DEF rest
<1>4. page \in Seq(Id) /\ Len(page) = k /\ \A b \in 1..k : page[b] = rest[b]
  BY <1>3 DEF rest
<1> HIDE DEF page
<1>5. /\ Len(q) = m + k
      /\ \A a \in 1..m : q[a] = have[a]
      /\ \A b \in 1..k : q[m + b] = rest[b]
  <2>1. /\ q \in Seq(Id) /\ Len(q) = Len(have) + Len(page)
        /\ \A a \in 1..(Len(have) + Len(page)) : q[a] = IF a <= Len(have) THEN have[a] ELSE page[a - Len(have)]
    BY <1>4, ConcatProperties
  <2>2. k \in Nat
    BY DEF rest
  <2>3. \A a \in 1..m : q[a] = have[a]
    BY <1>1, <1>4, <2>1, <2>2
  <2>4. ASSUME NEW b \in 1..k PROVE q[m + b] = rest[b]
    <3>1. m + b \in 1..(Len(have) + Len(page)) /\ ~(m + b <= Len(have)) /\ m + b - Len(have) = b
      BY <1>1, <1>4, <2>2
    <3> QED
      BY <1>4, <2>1, <3>1
  <2> QED
    BY <1>4, <2>1, <2>3, <2>4
<1> HIDE DEF q
<1>6. ASSUME NEW a \in 1..(m + k) PROVE a \in 1..m \/ \E b \in 1..k : a = m + b
  <2>1. CASE a <= m
    BY <1>1, <2>1
  <2>2. CASE a > m
    <3>1. a - m \in 1..k /\ a = m + (a - m)
      BY <1>1, <2>2 DEF rest
    <3> QED
      BY <3>1
  <2> QED
    BY <1>1, <2>1, <2>2
<1>7. ASSUME NEW i \in S, NEW a \in 1..m PROVE Earlier(have[a], i)
  <2>1. have # <<>> /\ Last(have) = have[m] /\ m \in 1..m
    BY <1>1 DEF Last
  <2>2. Earlier(have[m], i)
    BY <2>1
  <2>3. have[a] \in Id /\ have[m] \in Id /\ i \in Id
    BY <1>1, <2>1
  <2>4. a = m \/ Earlier(have[a], have[m])
    BY <1>1, <2>1 DEF FirstOf
  <2> QED
    BY <1>2, <2>2, <2>3, <2>4
<1>8. \A b \in 1..k : rest[b] \in S /\ b \in 1..Len(rest)
  BY <1>3 DEF rest
<1>9. \A a, b \in 1..Len(q) : a < b => Earlier(q[a], q[b])
  <2> SUFFICES ASSUME NEW a \in 1..(m + k), NEW b \in 1..(m + k), a < b PROVE Earlier(q[a], q[b])
    BY <1>5
  <2>1. CASE a \in 1..m /\ b \in 1..m
    BY <1>5, <2>1 DEF FirstOf
  <2>2. CASE a \in 1..m /\ \E c \in 1..k : b = m + c
    <3>1. PICK c \in 1..k : b = m + c
      BY <2>2
    <3>2. q[a] = have[a] /\ q[b] = rest[c] /\ rest[c] \in S
      BY <1>5, <1>8, <2>2, <3>1
    <3> HIDE DEF S
    <3> QED
      BY <1>7, <2>2, <3>2
  <2>3. CASE (\E c \in 1..k : a = m + c) /\ (\E d \in 1..k : b = m + d)
    <3>1. PICK c \in 1..k : a = m + c
      BY <2>3
    <3>2. PICK d \in 1..k : b = m + d
      BY <2>3
    <3>3. c < d /\ c \in 1..Len(rest) /\ d \in 1..Len(rest)
      BY <1>1, <1>8, <3>1, <3>2
    <3>4. q[a] = rest[c] /\ q[b] = rest[d]
      BY <1>5, <3>1, <3>2
    <3> QED
      BY <1>3, <3>3, <3>4
  <2>4. CASE (\E c \in 1..k : a = m + c) /\ b \in 1..m
    BY <1>1, <2>4
  <2> QED
    BY <1>6, <2>1, <2>2, <2>3, <2>4
<1>10. \A a \in 1..Len(q) : q[a] \in list
  <2> SUFFICES ASSUME NEW a \in 1..(m + k) PROVE q[a] \in list
    BY <1>5
  <2>1. CASE a \in 1..m
    BY <1>5, <2>1 DEF FirstOf
  <2>2. CASE \E b \in 1..k : a = m + b
    BY <1>5, <1>8, <2>2
  <2> QED
    BY <1>6, <2>1, <2>2
<1>11. ASSUME NEW i \in list
       PROVE  /\ Covered(q, i) \/ Precedes(q, i)
              /\ k = Len(rest) => Covered(q, i)
  <2>1. CASE Covered(have, i)
    <3>1. PICK a \in 1..m : have[a] = i
      BY <2>1 DEF Covered
    <3>2. a \in 1..Len(q) /\ q[a] = i
      BY <1>1, <1>5, <3>1 DEF rest
    <3> QED
      BY <3>2 DEF Covered
  <2>2. CASE ~Covered(have, i)
    <3>1. Precedes(have, i)
      BY <2>2 DEF FirstOf
    <3>2. i \in S
      <4>1. CASE have = <<>>
        BY <4>1
      <4>2. CASE have # <<>>
        <5>1. m \in 1..m /\ Last(have) = have[m]
          BY <1>1, <4>2 DEF Last
        <5> QED
          BY <3>1, <5>1 DEF Precedes
      <4> QED
        BY <4>1, <4>2
    <3>3. PICK c \in 1..Len(rest) : rest[c] = i
      BY <1>3, <3>2
    <3>4. CASE c <= k
      <4>1. c \in 1..k /\ m + c \in 1..Len(q) /\ q[m + c] = i
        BY <1>1, <1>5, <3>3, <3>4 DEF rest
      <4> QED
        BY <4>1 DEF Covered
    <3>5. CASE c > k
      <4>1. ASSUME NEW a \in 1..(m + k) PROVE Earlier(q[a], i)
        <5>1. CASE a \in 1..m
          BY <1>5, <3>1, <5>1 DEF Precedes
        <5>2. CASE \E b \in 1..k : a = m + b
          <6>1. PICK b \in 1..k : a = m + b
            BY <5>2
          <6>2. b < c /\ b \in 1..Len(rest) /\ q[a] = rest[b]
            BY <1>5, <1>8, <3>5, <6>1 DEF rest
          <6> QED
            BY <1>3, <3>3, <6>2
        <5> QED
          BY <1>6, <5>1, <5>2
      <4>2. k # Len(rest)
        BY <1>3, <3>5 DEF rest
      <4> QED
        BY <1>5, <4>1, <4>2 DEF Precedes
    <3> QED
      BY <1>3, <3>4, <3>5 DEF rest
  <2> QED
    BY <2>1, <2>2
<1> QED
  BY <1>5, <1>9, <1>10, <1>11 DEF FirstOf, q, page, rest

\* Who changes an event is noticed by those who list.
LEMMA RaceIs ==
    ASSUME TypeOK, Race
    PROVE  raced \subseteq raced' /\ (event' = event \/ \A r \in Run : pc[r] = "list" => r \in raced')
BY DEF Race

\* The list is the same as long as the events are.
LEMMA SameList ==
    ASSUME NEW r \in Run, UNCHANGED event, order'[r] = order[r], items'[r] = items[r],
           FirstOf(items[r], Listed(order[r]))
    PROVE  FirstOf(items[r], Listed(order[r]))'
<1>1. Listed(order[r])' = Listed(order[r])
  BY DEF Listed, From, Until, Bounded, First, After
<1>2. \A i, j : Earlier(i, j)' <=> Earlier(i, j)
  BY DEF Earlier, First
<1> QED
  BY <1>1, <1>2 DEF FirstOf, Covered, Precedes

\* A run that does not step.
LEMMA OtherPages ==
    ASSUME NEW u \in Run, PageInv(u), raced \subseteq raced',
           event' = event \/ (pc[u] = "list" => u \in raced'),
           pc'[u] = pc[u], order'[u] = order[u], items'[u] = items[u]
    PROVE  PageInv(u)'
<1>1. pc'[u] \notin {"list", "done"} => items'[u] = <<>>
  BY DEF PageInv
<1>2. CASE pc[u] = "list" /\ u \notin raced'
  <2>1. /\ UNCHANGED event
        /\ FirstOf(items[u], Listed(order[u])) /\ Len(items[u]) <= order[u].limit
        /\ NoTime(order[u]) => items[u] = <<>>
    BY <1>2 DEF PageInv
  <2>2. FirstOf(items[u], Listed(order[u]))'
    BY <2>1, SameList
  <2>3. NoTime(order[u])' => NoTime(order[u])
    BY DEF NoTime
  <2> QED
    BY <1>1, <2>1, <2>2, <2>3 DEF PageInv
<1> QED
  BY <1>1, <1>2 DEF PageInv

\* A page that is added to what a search has.
LEMMA ListAdds ==
    ASSUME PInv, NEW r \in Run, List(r)
    PROVE  PageInv(r)' /\ (r \notin raced /\ answer'[r] = "found" => FoundFirst(r))
<1> DEFINE o == order[r]
           rest == Behind(Listed(o), items[r])
<1>1. Held /\ Typed(r) /\ IInv /\ PageInv(r) /\ r \in Run
  BY TypesByRun DEF PInv, IInv, TypedRuns, TypedRest
<1>2. pc[r] = "list" /\ UNCHANGED <<event, order, raced>>
  BY DEF List, Idle
<1>3. CASE NoTime(o) /\ Return(r, "found") /\ UNCHANGED items
  <2>1. pc'[r] = "done" /\ items'[r] = items[r]
    BY <1>1, <1>3 DEF Return, Held
  <2> QED
    BY <1>1, <1>2, <1>3, <2>1 DEF PageInv, FoundFirst
<1>6. CASE Return(r, "error")
  <2>1. pc'[r] = "done" /\ answer'[r] = "error"
    BY <1>1, <1>6 DEF Return, Held
  <2> QED
    BY <2>1 DEF PageInv
<1>4. ASSUME NEW k \in 0..Min({Len(rest), o.limit - Len(items[r])}),
             ~NoTime(o),
             items' = [items EXCEPT ![r] = @ \o SubSeq(rest, 1, k)],
             IF k = Len(rest) \/ Len(items[r]) + k = o.limit THEN Return(r, "found")
             ELSE k > 0 /\ UNCHANGED <<pc, answer>>
      PROVE  PageInv(r)' /\ (r \notin raced /\ answer'[r] = "found" => FoundFirst(r))
  <2> DEFINE q == items[r] \o SubSeq(rest, 1, k)
  <2>1. /\ q \in Seq(Id) /\ k \in 0..Len(rest) /\ Len(items[r]) + k <= o.limit
        /\ items[r] \in Seq(Id)
    BY <1>1, <1>2, PageIs DEF Typed
  <2>2. items'[r] = q /\ ~NoTime(o) /\ ~NoTime(o)'
    BY <1>1, <1>2, <1>4 DEF Held, NoTime
  <2>3. ASSUME r \notin raced
        PROVE  /\ FirstOf(q, Listed(o)) /\ Len(q) = Len(items[r]) + k
               /\ k = Len(rest) => \A i \in Listed(o) : Covered(q, i)
    <3>1. Listed(o) \in SUBSET Id
      BY DEF Listed
    <3>2. FirstOf(items[r], Listed(o))
      BY <1>1, <1>2, <2>3 DEF PageInv
    <3> DEFINE list == Listed(o)
               have == items[r]
    <3>3. list \in SUBSET Id /\ have \in Seq(Id) /\ FirstOf(have, list) /\ k \in 0..Len(Behind(list, have))
      BY <2>1, <3>1, <3>2
    <3> HIDE DEF list, have
    <3>4. /\ FirstOf(have \o SubSeq(Behind(list, have), 1, k), list)
          /\ Len(have \o SubSeq(Behind(list, have), 1, k)) = Len(have) + k
          /\ k = Len(Behind(list, have)) =>
               \A i \in list : Covered(have \o SubSeq(Behind(list, have), 1, k), i)
      BY <1>1, <3>3, PageAdds
    <3> QED
      BY <3>4 DEF list, have
  <2> HIDE DEF q, rest
  <2>4. ASSUME r \notin raced, answer'[r] = "found" PROVE FoundFirst(r)
    <3>1. answer[r] = "none"
      BY <1>1, <1>2 DEF Typed
    <3>2. k = Len(rest) \/ Len(items[r]) + k = o.limit
      BY <1>4, <2>4, <3>1
    <3> QED
      BY <2>1, <2>2, <2>3, <2>4, <3>2 DEF FoundFirst
  <2>5. CASE Return(r, "found")
    <3>1. pc'[r] = "done"
      BY <1>1, <2>5 DEF Return, Held
    <3> QED
      BY <2>4, <3>1 DEF PageInv
  <2>6. CASE UNCHANGED <<pc, answer>>
    <3>1. ASSUME r \notin raced PROVE FirstOf(items[r], Listed(order[r]))'
      <4>1. Listed(order[r])' = Listed(order[r])
        BY <1>2 DEF Listed, From, Until, Bounded, First, After
      <4>2. \A i, j : Earlier(i, j)' <=> Earlier(i, j)
        BY <1>2 DEF Earlier, First
      <4>3. FirstOf(items'[r], Listed(order[r]))
        BY <2>2, <2>3, <3>1
      <4> QED
        BY <4>1, <4>2, <4>3 DEF FirstOf, Covered, Precedes
    <3>2. r \notin raced => Len(items'[r]) <= order'[r].limit
      BY <1>2, <2>1, <2>2, <2>3
    <3> QED
      BY <1>2, <2>2, <2>4, <2>6, <3>1, <3>2 DEF PageInv
  <2> QED
    BY <1>4, <2>5, <2>6
<1>7. \/ NoTime(o) /\ Return(r, "found") /\ UNCHANGED items
      \/ \E k \in 0..Min({Len(rest), o.limit - Len(items[r])}) :
           /\ ~NoTime(o)
           /\ items' = [items EXCEPT ![r] = @ \o SubSeq(rest, 1, k)]
           /\ IF k = Len(rest) \/ Len(items[r]) + k = o.limit THEN Return(r, "found")
              ELSE k > 0 /\ UNCHANGED <<pc, answer>>
      \/ Return(r, "error")
  BY DEF List
<1> HIDE DEF rest
<1> QED
  BY <1>3, <1>4, <1>6, <1>7

\* A step of a run that is not listing.
LEMMA OwnPages ==
    ASSUME PInv, NEW r \in Run,
           Begin(r) \/ Look(r) \/ ReadZone(r) \/ Write(r) \/ Cut(r)
    PROVE  /\ PageInv(r)' /\ Still(r) 
           /\ pc[r] = "list" => answer'[r] # "found"
           /\ raced \subseteq raced'
           /\ event' = event \/ \A u \in Run : pc[u] = "list" => u \in raced'
<1>1. Held /\ Typed(r) /\ IInv /\ PageInv(r)
  BY TypesByRun DEF PInv, IInv, TypedRuns, TypedRest
<1> USE DEF Held, Still, Go, Return, Idle, PageInv
<1>2. CASE Begin(r)
  <2>1. pc[r] = "idle" /\ items[r] = <<>> /\ UNCHANGED <<event, raced, items>>
    BY <1>1, <1>2 DEF Begin
  <2>2. PICK o \in Orders[r] :
          /\ order' = [order EXCEPT ![r] = o]
          /\ Go(r, IF o.job # "find" THEN "look"
                   ELSE IF o.period # "none" \/ {o.start.kind, o.end.kind} \cap {"day", "naive"} # {} THEN "zone" ELSE "list")
    BY <1>2 DEF Begin
  <2>3. order'[r] = o /\ o \in Order
    BY <1>1, <2>2, OrderAssumption
  <2>4. Still(r)
    BY <1>1, <1>2, <2>2 DEF Begin
  <2>5. pc'[r] = "list" => o.job = "find"
    BY <1>1, <2>2
  <2>6. PageInv(r)'
    <3>1. items'[r] = <<>>
      BY <2>1
    <3>2. pc'[r] = "list" => Len(items'[r]) <= order'[r].limit
      BY <2>3, <2>5, <3>1, OrderIs
    <3>3. FirstOf(items[r], Listed(order[r]))'
      BY <3>1 DEF FirstOf, Precedes
    <3> QED
      BY <3>1, <3>2, <3>3
  <2> QED
    BY <2>1, <2>4, <2>6
<1>3. CASE Look(r)
  <2>1. /\ pc[r] \in {"look", "series"} /\ UNCHANGED <<event, raced, items, order, late>>
        /\ items[r] = <<>>
    BY <1>1, <1>3 DEF Look
  <2>2. CASE pc'[r] # "list" /\ Still(r)
    BY <2>1, <2>2
  <2>3. ASSUME NEW p \in {"series", "zone", "write"}, Go(r, p) PROVE pc'[r] # "list" /\ \A u \in Run \ {r} : pc'[u] = pc[u] /\ answer'[u] = answer[u]
    BY <1>1, <2>3
  <2>4. ASSUME NEW k, Return(r, k) PROVE pc'[r] # "list" /\ \A u \in Run \ {r} : pc'[u] = pc[u] /\ answer'[u] = answer[u]
    BY <1>1, <2>4
  <2>5. \A u \in Run \ {r} : target'[u] = target[u] /\ seen'[u] = seen[u]
    BY <1>1, <1>3 DEF Look
  <2>6. (\E p \in {"series", "zone", "write"} : Go(r, p)) \/ \E k : Return(r, k)
    BY <1>3 DEF Look, Decide
  <2>7. pc'[r] # "list" /\ \A u \in Run \ {r} : pc'[u] = pc[u] /\ answer'[u] = answer[u]
    BY <2>3, <2>4, <2>6
  <2> QED
    BY <2>1, <2>2, <2>5, <2>7
<1>4. CASE ReadZone(r)
  <2>1. pc[r] = "zone" /\ UNCHANGED <<event, raced, items, order, late, target, seen>> /\ items[r] = <<>>
    BY <1>1, <1>4 DEF ReadZone
  <2>2. Still(r)
    BY <1>1, <1>4, <2>1 DEF ReadZone
  <2>3. pc'[r] = "list" => order[r].job = "find"
    BY <1>1, <1>4 DEF ReadZone
  <2>4. order[r].job = "find" => order[r].limit \in Nat
    <3>1. order[r] \in Order
      BY <1>1, <2>1, OrderAssumption DEF Typed
    <3> QED
      BY <3>1, OrderIs
  <2>5. FirstOf(items[r], Listed(order[r]))'
    BY <2>1 DEF FirstOf, Precedes
  <2>6. PageInv(r)'
    BY <2>1, <2>3, <2>4, <2>5
  <2> QED
    BY <2>1, <2>2, <2>6
<1>5. CASE Write(r)
  <2>1. /\ pc[r] = "write" /\ UNCHANGED <<items, order, target, seen>>
        /\ \E k : Return(r, k)
    BY <1>1, <1>5 DEF Write
  <2>2. late' = late \/ late' = late \cup {r}
    BY <1>5 DEF Write
  <2>3. raced \subseteq raced' /\ (event' = event \/ \A u \in Run : pc[u] = "list" => u \in raced')
    BY <1>1, <1>5, RaceIs DEF Write, Applied, IInv
  <2>4. pc'[r] = "done" /\ Still(r)
    BY <1>1, <2>1, <2>2
  <2> QED
    BY <2>1, <2>3, <2>4
<1>6. CASE Cut(r)
  <2>1. UNCHANGED <<event, items, order, target, seen, raced>> /\ Return(r, "cut")
    BY <1>6 DEF Cut
  <2>2. late' = late \/ late' = late \cup {r}
    BY <1>6 DEF Cut
  <2>3. pc'[r] = "done" /\ answer'[r] = "cut" /\ Still(r)
    BY <1>1, <2>1, <2>2
  <2> QED
    BY <2>1, <2>3
<1> QED
  BY <1>2, <1>3, <1>4, <1>5, <1>6

LEMMA InitPInv == Init => PInv
BY InitIInv DEF Init, PInv, PageInv

\* Each step keeps the pages, and an answer of a search is right.
LEMMA StepPages ==
    PInv /\ [Next]_vars =>
        PInv' /\ \A r \in Run \ raced : pc[r] = "list" /\ answer'[r] = "found" => FoundFirst(r)
<1> SUFFICES ASSUME PInv, [Next]_vars
             PROVE  PInv' /\ \A r \in Run \ raced : pc[r] = "list" /\ answer'[r] = "found" => FoundFirst(r)
  OBVIOUS
<1>1. IInv' /\ IInv /\ \A u \in Run : PageInv(u)
  BY StepIInv DEF PInv
<1>2. \A u \in Run : pc[u] = "list" => answer[u] # "found"
  BY <1>1 DEF IInv, TypeOK
<1>3. ASSUME NEW r \in Run, Begin(r) \/ Look(r) \/ ReadZone(r) \/ Write(r) \/ Cut(r)
      PROVE  /\ \A u \in Run : PageInv(u)'
             /\ \A u \in Run \ raced : pc[u] = "list" /\ answer'[u] = "found" => FoundFirst(u)
  <2>1. /\ PageInv(r)' /\ Still(r)
        /\ pc[r] = "list" => answer'[r] # "found"
        /\ raced \subseteq raced'
        /\ event' = event \/ \A u \in Run : pc[u] = "list" => u \in raced'
    BY <1>3, OwnPages
  <2>2. ASSUME NEW u \in Run \ {r} PROVE PageInv(u)' /\ answer'[u] = answer[u]
    BY <1>1, <2>1, OtherPages DEF Still
  <2> QED
    BY <1>2, <2>1, <2>2
<1>4. ASSUME NEW r \in Run, List(r)
      PROVE  /\ \A u \in Run : PageInv(u)'
             /\ \A u \in Run \ raced : pc[u] = "list" /\ answer'[u] = "found" => FoundFirst(u)
  <2>1. PageInv(r)' /\ (r \notin raced /\ answer'[r] = "found" => FoundFirst(r))
    BY <1>4, ListAdds
  <2>2. UNCHANGED <<event, order, raced>>
    BY <1>4 DEF List, Idle
  <2>3. Held
    BY <1>1, TypesByRun DEF IInv
  <2>4. ASSUME NEW u \in Run \ {r} PROVE pc'[u] = pc[u] /\ items'[u] = items[u] /\ answer'[u] = answer[u]
    BY <1>4, <2>3 DEF List, Return, Held
  <2>5. ASSUME NEW u \in Run \ {r} PROVE PageInv(u)'
    BY <1>1, <2>2, <2>4, OtherPages
  <2> QED
    BY <1>2, <2>1, <2>4, <2>5
<1>5. ASSUME Arrive \/ Edit \/ UNCHANGED vars
      PROVE  /\ \A u \in Run : PageInv(u)'
             /\ \A u \in Run \ raced : pc[u] = "list" /\ answer'[u] = "found" => FoundFirst(u)
  <2>1. UNCHANGED <<pc, order, items, answer>>
    BY <1>5 DEF Arrive, Edit, vars
  <2>2. raced \subseteq raced' /\ (event' = event \/ \A u \in Run : pc[u] = "list" => u \in raced')
    BY <1>1, <1>5, RaceIs DEF Arrive, Edit, Applied, vars, IInv
  <2>3. ASSUME NEW u \in Run PROVE PageInv(u)'
    BY <1>1, <2>1, <2>2, OtherPages
  <2> QED
    BY <1>2, <2>1, <2>3
<1> QED
  BY <1>1, <1>3, <1>4, <1>5 DEF Next, PInv

\* However the API cuts the pages, a search that no event was changed under
\* answers with the first events of what the API lists for its interval, in
\* their order, and with all of them unless there are more than its limit.
THEOREM PagesMakeOneList ==
    Spec => [][\A r \in Run \ raced : pc[r] = "list" /\ answer'[r] = "found" => FoundFirst(r)]_vars
<1> DEFINE A == \A r \in Run \ raced : pc[r] = "list" /\ answer'[r] = "found" => FoundFirst(r)
<1>1. PInv /\ [Next]_vars => PInv' /\ [A]_vars
  BY StepPages
<1> QED
  BY InitPInv, <1>1, PTL DEF Spec

------------------------------------------------------------------------------
(* What an update does to its event                                         *)

\* What a run means to change is what it has seen, and within what it was asked.
Meant(r) ==
    /\ seen[r] = event[target[r]] /\ seen[r].live
    /\ seen[r].series => order[r].all
    /\ order[r].job = "update" => Asked(order[r], seen[r]).kind # "refused"

InScope(r) == target[r] = order[r].id \/ (order[r].all /\ target[r] \in event[order[r].id].of)

ScopeInv(r) ==
    /\ pc[r] = "series" => order[r].all /\ InScope(r)
    /\ pc[r] \in {"zone", "write"} /\ order[r].job # "find" => InScope(r) /\ (r \notin raced => Meant(r))

SInv == PInv /\ \A r \in Run : ScopeInv(r)

\* The events that change, and the runs that notice it.
LEMMA EventsChange ==
    IInv /\ [Next]_vars =>
        /\ OnlyGo /\ raced \subseteq raced'
        /\ \A u \in Run : pc[u] \in {"zone", "write"} /\ target[u] \in Id /\ u \notin raced' =>
                            event'[target[u]] = event[target[u]]
<1> SUFFICES ASSUME IInv, [Next]_vars
             PROVE  /\ OnlyGo /\ raced \subseteq raced'
                    /\ \A u \in Run : pc[u] \in {"zone", "write"} /\ target[u] \in Id /\ u \notin raced' =>
                                        event'[target[u]] = event[target[u]]
  OBVIOUS
<1>1. CASE UNCHANGED <<event, raced>>
  BY <1>1 DEF OnlyGo
<1>2. ASSUME OnlyGo, Race
      PROVE  /\ OnlyGo /\ raced \subseteq raced'
             /\ \A u \in Run : pc[u] \in {"zone", "write"} /\ target[u] \in Id /\ u \notin raced' =>
                                 event'[target[u]] = event[target[u]]
  BY <1>2 DEF Race
<1>3. TypeOK /\ SeriesInv
  BY DEF IInv
<1>4. ASSUME NEW r \in Run, Applied(r), Targeted(r), seen[r] \in Event PROVE OnlyGo /\ Race
  BY <1>3, <1>4, AppliedKeeps DEF Applied
<1>5. CASE Edit
  BY <1>2, <1>3, <1>5, EditKeeps DEF Edit
<1>6. CASE Arrive
  <2>1. PICK r \in Run : r \in late /\ Applied(r)
    BY <1>3, <1>6 DEF Arrive, TypeOK
  <2> QED
    BY <1>2, <1>4, <2>1 DEF IInv, RunInv
<1>7. ASSUME NEW r \in Run, Write(r), ~UNCHANGED <<event, raced>> PROVE OnlyGo /\ Race
  BY <1>4, <1>7 DEF Write, IInv, RunInv
<1>8. ASSUME NEW r \in Run, Begin(r) \/ Look(r) \/ ReadZone(r) \/ List(r) \/ Cut(r)
      PROVE  UNCHANGED <<event, raced>>
  BY <1>8 DEF Begin, Look, ReadZone, List, Cut, Idle
<1>9. CASE UNCHANGED vars
  BY <1>1, <1>9 DEF vars
<1> QED
  BY <1>1, <1>2, <1>5, <1>6, <1>7, <1>8, <1>9 DEF Next

\* A run that does not step.
LEMMA OtherScope ==
    ASSUME NEW u \in Run, ScopeInv(u), RunInv(u), OnlyGo, raced \subseteq raced',
           pc[u] \in {"zone", "write"} /\ target[u] \in Id /\ u \notin raced' =>
             event'[target[u]] = event[target[u]],
           pc'[u] = pc[u], order'[u] = order[u], target'[u] = target[u], seen'[u] = seen[u]
    PROVE  ScopeInv(u)'
<1>1. pc[u] \in {"series", "zone", "write"} /\ (pc[u] = "zone" => order[u].job # "find") =>
        order[u].id \in Id /\ target[u] \in Id
  BY DEF RunInv, Targeted
<1>2. pc'[u] = "series" => order'[u].all /\ InScope(u)'
  BY <1>1 DEF ScopeInv, InScope, OnlyGo
<1>3. CASE pc[u] \in {"zone", "write"} /\ order[u].job # "find"
  <2>1. InScope(u)'
    BY <1>1, <1>3 DEF ScopeInv, InScope, OnlyGo
  <2>2. u \notin raced' => Meant(u)'
    BY <1>1, <1>3 DEF ScopeInv, Meant, Asked
  <2> QED
    BY <1>2, <2>1, <2>2 DEF ScopeInv
<1> QED
  BY <1>2, <1>3 DEF ScopeInv

\* A run that steps.
LEMMA OwnScope ==
    ASSUME SInv, NEW r \in Run,
           Begin(r) \/ Look(r) \/ ReadZone(r) \/ List(r) \/ Write(r) \/ Cut(r)
    PROVE  ScopeInv(r)'
<1>1. Held /\ Typed(r) /\ IInv /\ RunInv(r) /\ ScopeInv(r)
  BY TypesByRun DEF SInv, PInv, IInv, TypedRuns, TypedRest
<1> USE DEF Held, Go, Return, Idle
<1>2. CASE pc'[r] \in {"look", "list", "done"}
  BY <1>2 DEF ScopeInv
<1>3. CASE Begin(r)
  <2>1. PICK o \in Orders[r] :
          /\ order' = [order EXCEPT ![r] = o]
          /\ Go(r, IF o.job # "find" THEN "look"
                   ELSE IF o.period # "none" \/ {o.start.kind, o.end.kind} \cap {"day", "naive"} # {} THEN "zone" ELSE "list")
    BY <1>3 DEF Begin
  <2>2. order'[r] = o /\ (pc'[r] \in {"look", "list"} \/ (pc'[r] = "zone" /\ o.job = "find"))
    BY <1>1, <2>1
  <2> QED
    BY <2>2 DEF ScopeInv
<1>4. CASE Look(r)
  <2> DEFINE o == order[r]
             i == IF pc[r] = "look" THEN o.id ELSE target[r]
  <2>1. UNCHANGED <<event, raced, order>> /\ pc[r] \in {"look", "series"}
    BY <1>4 DEF Look
  <2>2. o \in Order /\ o.job \in {"update", "delete"} /\ o.id \in Id
    BY <1>1, <2>1, OrderAssumption DEF RunInv, Typed, Targeted
  <2>3. i \in Id /\ (pc[r] = "series" => o.all /\ i \in {o.id} \cup event[o.id].of)
    BY <1>1, <2>1, <2>2 DEF RunInv, Targeted, ScopeInv, InScope
  <2>4. i = o.id \/ (o.all /\ i \in event[o.id].of)
    BY <2>1, <2>3
  <2>5. i = o.id \/ pc[r] = "series"
    BY <2>1
  <2> HIDE DEF i
  <2>6. CASE /\ pc[r] = "look" /\ o.all /\ event[i].of # {}
             /\ target' = [target EXCEPT ![r] = CHOOSE s \in event[i].of : TRUE]
             /\ Go(r, "series")
    <3>1. target'[r] \in event[o.id].of
      BY <1>1, <2>5, <2>6
    <3>2. order'[r].all /\ InScope(r)'
      BY <2>1, <2>6, <3>1 DEF InScope
    <3>3. pc'[r] = "series"
      BY <1>1, <2>6
    <3> QED
      BY <3>2, <3>3 DEF ScopeInv
  <2>7. CASE /\ target' = [target EXCEPT ![r] = i]
             /\ seen' = [seen EXCEPT ![r] = event[i]]
             /\ Decide(r, i, o)
    <3>1. target'[r] = i /\ seen'[r] = event[i]
      BY <1>1, <2>7
    <3>2. InScope(r)'
      BY <2>1, <2>4, <3>1 DEF InScope
    <3> DEFINE e == event[i]
               t == Asked(o, e)
    <3>3. e.live \in BOOLEAN /\ e.series \in BOOLEAN /\ o.all \in BOOLEAN
      BY <1>1, <2>2, <2>3 DEF IInv, TypeOK, Event, Order
    <3> HIDE DEF t
    <3>4. \/ pc'[r] = "done"
          \/ /\ pc'[r] \in {"zone", "write"} /\ e.live
             /\ o.all \/ ~e.series
             /\ o.job = "update" => t.kind # "refused"
      BY <1>1, <2>2, <2>7, <3>3 DEF Decide, t
    <3>5. CASE pc'[r] \in {"zone", "write"}
      <4>1. Meant(r)'
        <5>1. Asked(order[r], seen[r])' = t
          BY <2>1, <3>1 DEF Asked, t
        <5> QED
          BY <2>1, <3>1, <3>3, <3>4, <3>5, <5>1 DEF Meant
      <4> QED
        BY <3>2, <3>5, <4>1 DEF ScopeInv
    <3> QED
      BY <1>2, <3>4, <3>5
  <2>8. CASE Return(r, "already") \/ Return(r, "error")
    BY <1>1, <1>2, <2>8
  <2> QED
    BY <1>4, <2>6, <2>7, <2>8 DEF Look, i
<1>5. CASE ReadZone(r)
  <2>1. UNCHANGED <<event, raced, order, target, seen>> /\ pc[r] = "zone"
    BY <1>5 DEF ReadZone
  <2>2. CASE order[r].job = "update" /\ Go(r, "write")
    <3>1. InScope(r) /\ (r \notin raced => Meant(r))
      BY <1>1, <2>1, <2>2 DEF ScopeInv
    <3>2. InScope(r)' /\ (r \notin raced' => Meant(r)')
      BY <2>1, <3>1 DEF InScope, Meant, Asked
    <3>3. pc'[r] = "write"
      BY <1>1, <2>2
    <3> QED
      BY <3>2, <3>3 DEF ScopeInv
  <2>3. CASE Go(r, "list") \/ Return(r, "error")
    BY <1>1, <1>2, <2>3
  <2> QED
    BY <1>5, <2>2, <2>3 DEF ReadZone
<1>6. CASE List(r)
  BY <1>1, <1>2, <1>6 DEF List
<1>7. CASE Write(r) \/ Cut(r)
  <2>1. \E k : Return(r, k)
    BY <1>7 DEF Write, Cut
  <2> QED
    BY <1>1, <1>2, <2>1
<1> QED
  BY <1>3, <1>4, <1>5, <1>6, <1>7

LEMMA InitSInv == Init => SInv
BY InitPInv DEF Init, SInv, ScopeInv

LEMMA StepSInv == SInv /\ [Next]_vars => SInv'
<1> SUFFICES ASSUME SInv, [Next]_vars PROVE SInv'
  OBVIOUS
<1>1. PInv' /\ PInv /\ IInv /\ \A u \in Run : ScopeInv(u) /\ RunInv(u)
  BY StepPages DEF SInv, PInv, IInv
<1>2. /\ OnlyGo /\ raced \subseteq raced'
      /\ \A u \in Run : pc[u] \in {"zone", "write"} /\ target[u] \in Id /\ u \notin raced' =>
                          event'[target[u]] = event[target[u]]
  BY <1>1, EventsChange
<1>3. ASSUME NEW r \in Run, Begin(r) \/ Look(r) \/ ReadZone(r) \/ List(r) \/ Write(r) \/ Cut(r)
      PROVE  \A u \in Run : ScopeInv(u)'
  <2>1. ScopeInv(r)'
    BY <1>3, OwnScope
  <2>2. ASSUME NEW u \in Run \ {r}
        PROVE  pc'[u] = pc[u] /\ order'[u] = order[u] /\ target'[u] = target[u] /\ seen'[u] = seen[u]
    <3>1. CASE List(r)
      <4>1. Held
        BY <1>1, TypesByRun DEF IInv
      <4> QED
        BY <3>1, <4>1 DEF List, Return, Idle, Held
    <3>2. CASE Begin(r) \/ Look(r) \/ ReadZone(r) \/ Write(r) \/ Cut(r)
      BY <1>1, <3>2, OwnPages DEF Still
    <3> QED
      BY <1>3, <3>1, <3>2
  <2>3. ASSUME NEW u \in Run \ {r} PROVE ScopeInv(u)'
    BY <1>1, <1>2, <2>2, OtherScope
  <2> QED
    BY <2>1, <2>3
<1>4. ASSUME Arrive \/ Edit \/ UNCHANGED vars PROVE \A u \in Run : ScopeInv(u)'
  <2>1. UNCHANGED <<pc, order, target, seen>>
    BY <1>4 DEF Arrive, Edit, vars
  <2> QED
    BY <1>1, <1>2, <2>1, OtherScope
<1> QED
  BY <1>1, <1>3, <1>4 DEF Next, SInv

\* A success of an update that nothing was changed under: what it has made of
\* the event is what it was asked for.
LEMMA Success ==
    ASSUME SInv, NEW r \in Run \ raced, Write(r), answer'[r] = "success"
    PROVE  LET o == order[r]
               i == target[r]
               e == event[i]
           IN /\ o \in Order /\ o.job = "update" /\ o.id \in Id /\ i \in Id /\ e \in Event
              /\ InScope(r) /\ e.live /\ (e.series => o.all)
              /\ Asked(o, e).kind # "refused"
              /\ Asked(o, e).kind = "times" => Asked(o, e).start < Asked(o, e).end
              /\ Patched(i, Asked(o, e), NewZone(o, e))
<1> DEFINE o == order[r]
           i == target[r]
           e == event[i]
           t == Asked(o, e)
<1>1. Held /\ TypeOK /\ RunInv(r) /\ ScopeInv(r) /\ pc[r] = "write"
  BY TypesByRun DEF SInv, PInv, IInv, Write
<1>2. o \in Order /\ o.job \in {"update", "delete"} /\ o.id \in Id /\ i \in Id /\ e \in Event
  BY <1>1 DEF RunInv, Targeted, TypeOK
<1>3. InScope(r) /\ seen[r] = e /\ e.live /\ (e.series => o.all) /\ (o.job = "update" => t.kind # "refused")
  BY <1>1, <1>2 DEF ScopeInv, Meant
<1>4. Applied(r) /\ ~Refused(r) /\ o.job = "update"
  <2>1. ASSUME NEW k, Return(r, k) PROVE answer'[r] = k
    BY <1>1, <2>1 DEF Held, Return
  <2>2. Outcome(r) # "success"
    BY DEF Outcome
  <2>3. \/ Applied(r) /\ ~Refused(r) /\ Return(r, IF o.job = "delete" THEN Outcome(r) ELSE "success")
        \/ Return(r, "error")
    BY DEF Write
  <2> QED
    BY <1>2, <2>1, <2>2, <2>3
<1>5. Patched(i, t, NewZone(o, e))
  BY <1>3, <1>4 DEF Applied
<1>6. TimesOK(t)
  BY <1>2, AskedTyped
<1>7. t.kind = "times" => t.start < t.end
  <2>1. t.kind = "times" => ~(t.end <= t.start)
    BY <1>3, <1>4 DEF Refused
  <2> HIDE DEF t
  <2> QED
    BY <1>6, <2>1 DEF TimesOK
<1> HIDE DEF t
<1> QED
  BY <1>2, <1>3, <1>4, <1>5, <1>7 DEF t

\* Only a write makes an update successful that was to write.
LEMMA SuccessIsWrite ==
    ASSUME SInv, [Next]_vars, NEW r \in Run, pc[r] = "write", answer'[r] = "success"
    PROVE  Write(r)
<1>1. IInv /\ answer[r] = "none"
  BY DEF SInv, PInv, IInv, TypeOK
<1>2. ASSUME NEW u \in Run, u # r, Begin(u) \/ Look(u) \/ ReadZone(u) \/ List(u) \/ Write(u) \/ Cut(u)
      PROVE  answer'[r] = answer[r]
  <2>1. CASE List(u)
    BY <1>1, <1>2, <2>1, TypesByRun DEF List, Return, Held, IInv
  <2>2. CASE Begin(u) \/ Look(u) \/ ReadZone(u) \/ Write(u) \/ Cut(u)
    BY <1>2, <2>2, OwnPages DEF Still, SInv
  <2> QED
    BY <1>2, <2>1, <2>2
<1>3. ~(Begin(r) \/ Look(r) \/ ReadZone(r) \/ List(r))
  BY DEF Begin, Look, ReadZone, List
<1>4. ~Cut(r)
  BY <1>1, TypesByRun DEF Cut, Return, Held, IInv
<1>5. ~(Arrive \/ Edit \/ UNCHANGED vars)
  BY <1>1 DEF Arrive, Edit, vars
<1> QED
  BY <1>1, <1>2, <1>3, <1>4, <1>5 DEF Next

------------------------------------------------------------------------------
(* Lengths                                                                  *)
(*                                                                          *)
(* Every event ends after it begins (LenInv): the API refuses others, now   *)
(* and for a write that comes late, and an occurrence is as long as its     *)
(* series.                                                                  *)

LenInv == \A i \in Id : event[i].start < event[i].end

\* A write that may still be carried out is none that the API refuses.
LateInv(r) == r \in late => ~Refused(r)

WInv == SInv /\ LenInv /\ \A r \in Run : LateInv(r)

\* An event of some length, and what follows it.
LEMMA BecomesLasts ==
    ASSUME TypeOK, LenInv, NEW i \in Id, NEW e \in Event, e.start < e.end, Becomes(i, e)
    PROVE  LenInv'
<1>1. event \in [Id -> Event] /\ e.start \in Int /\ e.end \in Int
  BY DEF TypeOK, Event
<1>2. ASSUME NEW j \in Id PROVE event'[j].start < event'[j].end
  <2>1. CASE j = i
    BY <2>1 DEF Becomes
  <2>2. CASE j # i /\ i \notin event[j].of
    BY <1>1, <2>2 DEF Becomes, LenInv
  <2>3. CASE j # i /\ i \in event[j].of
    <3> DEFINE p == Placed(event[j], e)
    <3>1. p \in Event /\ p.end = p.start + (e.end - e.start)
      BY <1>1, PlacedIs
    <3>2. event'[j] = [p EXCEPT !.live = @ /\ e.live]
      BY <2>3 DEF Becomes
    <3> HIDE DEF p
    <3>3. p.start \in Int
      BY <3>1 DEF Event
    <3>4. event'[j].start = p.start /\ event'[j].end = p.end
      BY <3>1, <3>2 DEF Event
    <3> QED
      BY <1>1, <3>1, <3>3, <3>4
  <2> QED
    BY <2>1, <2>2, <2>3
<1> QED
  BY <1>2 DEF LenInv

\* A write that the API does not refuse.
LEMMA AppliedLasts ==
    ASSUME TypeOK, LenInv, NEW r \in Run, Targeted(r), seen[r] \in Event, Applied(r), ~Refused(r)
    PROVE  LenInv'
<1> DEFINE i == target[r]
           o == order[r]
           t == Asked(o, seen[r])
<1>1. i \in Id /\ o \in Order /\ o.job # "find"
  BY DEF Targeted
<1>2. event \in [Id -> Event] /\ event[i] \in Event /\ event[i].start < event[i].end
  BY <1>1 DEF TypeOK, LenInv
<1>3. CASE o.job = "update" /\ Patched(i, t, NewZone(o, seen[r]))
  <2>1. TimesOK(t) /\ NewZone(o, seen[r]) \in SUBSET Zone /\ (t.kind = "times" => ~(t.end <= t.start))
    BY <1>1, <1>3, AskedTyped DEF Refused
  <2> HIDE DEF t
  <2>2. CASE t.kind # "times"
    BY <1>3, <2>2 DEF Patched, LenInv
  <2>3. CASE t.kind = "times"
    <3>1. PICK e \in Event : Becomes(i, e) /\ e.start = t.start /\ e.end = t.end
      BY <1>1, <1>3, <2>1, <2>3, PatchedIs
    <3>2. e.start < e.end
      BY <2>1, <2>3, <3>1 DEF TimesOK
    <3> QED
      BY <1>1, <3>1, <3>2, BecomesLasts
  <2> QED
    BY <2>2, <2>3
<1>4. CASE o.job = "delete" /\ Becomes(i, [event[i] EXCEPT !.live = FALSE])
  <2> DEFINE e == [event[i] EXCEPT !.live = FALSE]
  <2>1. e \in Event /\ e.start < e.end
    BY <1>2 DEF Event
  <2>2. Becomes(i, e)
    BY <1>4
  <2> HIDE DEF e
  <2> QED
    BY <1>1, <2>1, <2>2, BecomesLasts
<1> QED
  BY <1>3, <1>4 DEF Applied

\* An edit by a user.
LEMMA EditLasts ==
    ASSUME TypeOK, LenInv, Edit
    PROVE  LenInv'
<1>1. PICK i \in Id :
         \/ Becomes(i, [event[i] EXCEPT !.live = FALSE])
         \/ Becomes(i, [event[i] EXCEPT !.series = TRUE])
         \/ LET day == IF event[i].allDay THEN 1 ELSE DayLen
            IN Becomes(i, [event[i] EXCEPT !.start = @ + day, !.end = @ + day])
  BY DEF Edit
<1>2. event[i] \in Event /\ event[i].start < event[i].end
  BY DEF TypeOK, LenInv
<1>3. PICK e \in Event : e.start < e.end /\ Becomes(i, e)
  <2>1. CASE Becomes(i, [event[i] EXCEPT !.live = FALSE])
    <3> DEFINE e == [event[i] EXCEPT !.live = FALSE]
    <3>1. e \in Event /\ e.start < e.end
      BY <1>2 DEF Event
    <3> QED
      BY <2>1, <3>1
  <2>2. CASE Becomes(i, [event[i] EXCEPT !.series = TRUE])
    <3> DEFINE e == [event[i] EXCEPT !.series = TRUE]
    <3>1. e \in Event /\ e.start < e.end
      BY <1>2 DEF Event
    <3> QED
      BY <2>2, <3>1
  <2> DEFINE day == IF event[i].allDay THEN 1 ELSE DayLen
  <2>3. CASE Becomes(i, [event[i] EXCEPT !.start = @ + day, !.end = @ + day])
    <3> DEFINE e == [event[i] EXCEPT !.start = @ + day, !.end = @ + day]
    <3>1. day \in Int
      BY DayAssumption
    <3>2. Becomes(i, e)
      BY <2>3
    <3> HIDE DEF day
    <3>3. event[i].start \in Int /\ event[i].end \in Int
      BY <1>2 DEF Event
    <3> DEFINE begin == event[i].start + day
               finish == event[i].end + day
    <3>4. begin \in Int /\ finish \in Int /\ begin < finish
      BY <1>2, <3>1, <3>3
    <3>5. e = [event[i] EXCEPT !.start = begin, !.end = finish]
      BY DEF e
    <3> HIDE DEF begin, finish
    <3>6. e \in Event /\ e.start < e.end
      BY <1>2, <3>4, <3>5 DEF Event
    <3> QED
      BY <3>2, <3>6
  <2> QED
    BY <1>1, <2>1, <2>2, <2>3
<1> QED
  BY <1>3, BecomesLasts

LEMMA InitWInv == Init => WInv
BY InitSInv, CalendarAssumption DEF Init, WInv, LenInv, LateInv

LEMMA StepWInv == WInv /\ [Next]_vars => WInv'
<1> SUFFICES ASSUME WInv, [Next]_vars PROVE WInv'
  OBVIOUS
<1>1. SInv' /\ SInv /\ IInv /\ TypeOK /\ Held /\ LenInv /\ \A u \in Run : RunInv(u) /\ LateInv(u)
  BY StepSInv, TypesByRun DEF WInv, SInv, PInv, IInv
<1>2. ASSUME NEW u \in Run, order'[u] = order[u], seen'[u] = seen[u], u \in late' => ~Refused(u) PROVE LateInv(u)'
  BY <1>2 DEF LateInv, Refused, Asked
<1>3. ASSUME NEW r \in Run, Begin(r) \/ Look(r) \/ ReadZone(r) \/ List(r) PROVE LenInv' /\ \A u \in Run : LateInv(u)'
  <2>1. UNCHANGED <<event, late>> /\ r \notin late
    BY <1>1, <1>3 DEF Begin, Look, ReadZone, List, Idle, RunInv
  <2>2. ASSUME NEW u \in Run, u # r PROVE order'[u] = order[u] /\ seen'[u] = seen[u]
    BY <1>1, <1>3, <2>2 DEF Begin, Look, ReadZone, List, Held
  <2> QED
    BY <1>1, <1>2, <2>1, <2>2 DEF LenInv, LateInv
<1>4. ASSUME NEW r \in Run, Write(r) PROVE LenInv' /\ \A u \in Run : LateInv(u)'
  <2>1. UNCHANGED <<order, seen>> /\ (late' = late \/ (~Refused(r) /\ late' = late \cup {r}))
    BY <1>4 DEF Write
  <2>2. Targeted(r) /\ seen[r] \in Event
    BY <1>1, <1>4 DEF Write, RunInv
  <2>3. event' = event \/ (Applied(r) /\ ~Refused(r))
    BY <1>4 DEF Write
  <2>4. LenInv'
    BY <1>1, <2>2, <2>3, AppliedLasts DEF LenInv
  <2> QED
    BY <1>1, <1>2, <2>1, <2>4 DEF LateInv
<1>5. ASSUME NEW r \in Run, Cut(r) PROVE LenInv' /\ \A u \in Run : LateInv(u)'
  <2>1. UNCHANGED <<event, order, seen>> /\ (late' = late \/ (~Refused(r) /\ late' = late \cup {r}))
    BY <1>5 DEF Cut
  <2> QED
    BY <1>1, <1>2, <2>1 DEF LenInv, LateInv
<1>6. CASE Arrive
  <2>1. PICK r \in late : Applied(r) /\ late' = late \ {r}
    BY <1>6 DEF Arrive
  <2>2. UNCHANGED <<order, seen>> /\ r \in Run
    BY <1>1, <1>6 DEF Arrive, TypeOK
  <2>3. Targeted(r) /\ seen[r] \in Event /\ ~Refused(r)
    BY <1>1, <2>2 DEF RunInv, LateInv
  <2>4. LenInv'
    BY <1>1, <2>1, <2>2, <2>3, AppliedLasts
  <2>5. ASSUME NEW u \in Run PROVE LateInv(u)'
    <3>1. order'[u] = order[u] /\ seen'[u] = seen[u] /\ (u \in late' => ~Refused(u))
      BY <1>1, <2>1, <2>2 DEF LateInv
    <3> QED
      BY <1>2, <3>1
  <2> QED
    BY <1>1, <2>4, <2>5 DEF WInv
<1>7. CASE Edit
  <2>1. UNCHANGED <<order, seen, late>>
    BY <1>7 DEF Edit
  <2>2. ASSUME NEW u \in Run PROVE LateInv(u)'
    <3>1. order'[u] = order[u] /\ seen'[u] = seen[u] /\ (u \in late' => ~Refused(u))
      BY <1>1, <2>1 DEF LateInv
    <3> QED
      BY <1>2, <3>1
  <2> QED
    BY <1>1, <1>7, <2>2, EditLasts DEF WInv
<1>8. CASE UNCHANGED vars
  <2>1. UNCHANGED <<event, order, seen, late>>
    BY <1>8 DEF vars
  <2>2. ASSUME NEW u \in Run PROVE LateInv(u)'
    <3>1. order'[u] = order[u] /\ seen'[u] = seen[u] /\ (u \in late' => ~Refused(u))
      BY <1>1, <2>1 DEF LateInv
    <3> QED
      BY <1>2, <3>1
  <2>3. LenInv'
    BY <1>1, <2>1 DEF LenInv
  <2> QED
    BY <1>1, <2>2, <2>3 DEF WInv
<1> QED
  BY <1>1, <1>3, <1>4, <1>5, <1>6, <1>7, <1>8 DEF Next, WInv

------------------------------------------------------------------------------
(* Days                                                                     *)

\* Products with a length of day, which the provers do not order by themselves.
LEMMA Later ==
    ASSUME NEW c \in Int, NEW d \in Int, c < d, NEW L \in Nat \ {0}
    PROVE  c * L + L <= d * L
<1> DEFINE n == d - c - 1
<1>1. n \in Nat
  OBVIOUS
<1>2. d * L = c * L + L + n * L
  <2>1. d = c + 1 + n
    OBVIOUS
  <2> HIDE DEF n
  <2> QED
    BY <1>1, <2>1
<1>3. 0 <= n * L /\ n * L \in Int
  <2> HIDE DEF n
  <2> QED
    BY <1>1
<1>4. c * L \in Int /\ d * L \in Int
  OBVIOUS
<1> HIDE DEF n
<1> QED
  BY <1>2, <1>3, <1>4
\* A quotient is the number of whole lengths.
LEMMA DivIs ==
    ASSUME NEW L \in Nat \ {0}, NEW x \in Int, NEW d \in Int
    PROVE  /\ x \div L \in Int
           /\ d * L <= x /\ x < d * L + L <=> d = x \div L
           /\ d <= x \div L <=> d * L <= x
<1>1. x \div L \in Int /\ x % L \in Int /\ x = L * (x \div L) + (x % L) /\ 0 <= x % L /\ x % L < L
  OBVIOUS
<1> DEFINE q == x \div L
<1>2. q \in Int /\ q * L <= x /\ x < q * L + L
  BY <1>1
<1> HIDE DEF q
<1>3. d > q => d * L >= q * L + L
  BY <1>2, Later
<1>4. d < q => q * L >= d * L + L
  BY <1>2, Later
<1>5. q * L \in Int /\ d * L \in Int
  BY <1>2
<1> HIDE DEF q
<1>6. /\ d * L <= x /\ x < d * L + L <=> d = q
      /\ d <= q <=> d * L <= x
  BY <1>2, <1>3, <1>4, <1>5
<1> QED
  BY <1>2, <1>6 DEF q

\* The calendar's clock is not put forward over midnight, nor so shortly before
\* that a reading which is skipped is taken for one of the next day.  It may be
\* put forward at midnight.
QuietClock ==
    \A d \in Int :
        ~(/\ CalZone.at + CalZone.before < d * DayLen
          /\ d * DayLen < CalZone.at + CalZone.after + (CalZone.after - CalZone.before))

LEMMA ZoneIs == \A z \in Zone : z.at \in Int /\ z.before \in Int /\ z.after \in Int /\ z.before <= z.after
BY DEF Zone

\* A day begins at its midnight.
LEMMA DayStart ==
    ASSUME QuietClock, NEW t \in Int, NEW d \in Int
    PROVE  d <= DayOf(In(CalZone, Stored(t))) <=> Midnight(d) <= t
<1> DEFINE z == CalZone
           w == Clock(z, t)
           m == d * DayLen
<1>1. z.at \in Int /\ z.before \in Int /\ z.after \in Int /\ z.before <= z.after
  BY ZoneIs, CalendarAssumption
<1>2. DayOf(In(z, Stored(t))) = w \div DayLen
  <2>1. Instant(Stored(t)) = t
    BY DEF Instant, Stored, Offset, Fixed
  <2> QED
    BY <2>1 DEF DayOf, In
<1>3. Midnight(d) = m - Offset(z, m)
  BY DEF Midnight, Instant
<1>4. w \in Int /\ m \in Int
  BY <1>1, DayAssumption DEF Clock
<1>5. d <= w \div DayLen <=> m <= w
  BY <1>4, DivIs, DayAssumption
<1>6. ~(z.at + z.before < m /\ m < z.at + z.after + (z.after - z.before))
  BY DEF QuietClock
<1>7. m <= w <=> m - Offset(z, m) <= t
  <2> HIDE DEF z, m
  <2> QED
    BY <1>1, <1>4, <1>6 DEF Clock, Offset
<1> QED
  BY <1>2, <1>3, <1>5, <1>7

\* Days come one after the other.
LEMMA DaysFollow ==
    ASSUME QuietClock, NEW c \in Int, NEW d \in Int, c < d
    PROVE  Midnight(c) \in Int /\ Midnight(d) \in Int /\ Midnight(c) < Midnight(d)
<1> DEFINE z == CalZone
           k == c * DayLen
           m == d * DayLen
<1>1. z.at \in Int /\ z.before \in Int /\ z.after \in Int /\ z.before <= z.after
  BY ZoneIs, CalendarAssumption
<1>2. Midnight(c) = k - Offset(z, k) /\ Midnight(d) = m - Offset(z, m)
  BY DEF Midnight, Instant
<1>3. k \in Int /\ m \in Int /\ k < m
  BY Later, DayAssumption
<1>4. ~(z.at + z.before < m /\ m < z.at + z.after + (z.after - z.before))
  BY DEF QuietClock
<1> HIDE DEF z, k, m
<1> QED
  BY <1>1, <1>2, <1>3, <1>4 DEF Offset

\* A length on a clock is one of time, if the clock is not changed meanwhile.
LEMMA StaysLong ==
    ASSUME NEW z \in Zone, NEW w \in Int, NEW n \in Int,
           NEW b, b = Instant([wall |-> w, zone |-> z]), NEW f, f = Instant([wall |-> w + n, zone |-> z]),
           b < f \/ n > 0, z.before = z.after \/ ~(b < z.at + (z.after - z.before) /\ z.at <= f)
    PROVE  b \in Int /\ f = b + n
<1>1. z.at \in Int /\ z.before \in Int /\ z.after \in Int /\ z.before <= z.after
  BY ZoneIs
<1>2. b = w - Offset(z, w)
  BY DEF Instant
<1> DEFINE v == w + n
<1>3. f = v - Offset(z, v)
  <2> HIDE DEF v
  <2>1. Instant([wall |-> v, zone |-> z]) = v - Offset(z, v)
    BY DEF Instant
  <2> QED
    BY <2>1 DEF v
<1> QED
  BY <1>1, <1>2, <1>3 DEF Offset

------------------------------------------------------------------------------
(* What a search finds                                                      *)

\* The events that a search is about, as FindIsWhole says.
Wanted(o) ==
    {i \in Id : /\ event[i].live /\ ~event[i].series
                /\ IF o.period # "none"
                   THEN \E d \in DaysMeant(o.period) : d \in DaysOf(event[i])
                   ELSE /\ After(event[i]) > From(o)
                        /\ Given(o.end) => First(event[i]) < Until(o)}

LEMMA Bounds ==
    ASSUME QuietClock, NEW e \in Event, e.start < e.end
    PROVE  First(e) \in Int /\ After(e) \in Int /\ First(e) < After(e)
<1>1. e.start \in Int /\ e.end \in Int
  BY DEF Event
<1> QED
  BY <1>1, DaysFollow DEF First, After

\* An event has an instant on one of n days if it overlaps the time between the
\* midnight of the first and that after the last of them.
LEMMA OverlapIsDay ==
    ASSUME QuietClock, NEW e \in Event, e.start < e.end, NEW c \in Int, NEW n \in Nat \ {0}
    PROVE  (\E d \in 0..(n - 1) : c + d \in DaysOf(e)) <=> After(e) > Midnight(c) /\ First(e) < Midnight(c + n)
<1> DEFINE D(t) == DayOf(In(CalZone, Stored(t)))
           low == Midnight(c)
           high == Midnight(c + n)
<1>1. First(e) \in Int /\ After(e) \in Int /\ First(e) < After(e)
  BY Bounds
<1>2. low \in Int /\ high \in Int /\ low < high
  BY DaysFollow
<1>3. \A t \in Int : D(t) \in Int /\ (c <= D(t) <=> low <= t) /\ (c + n <= D(t) <=> high <= t)
  <2>1. \A t \in Int : D(t) \in Int
    BY Datetimes, CalendarAssumption
  <2> QED
    BY <2>1, DayStart
<1>4. DaysOf(e) = {D(t) : t \in First(e)..(After(e) - 1)}
  BY DEF DaysOf
<1> HIDE DEF D, low, high
<1>5. ASSUME NEW d \in 0..(n - 1), c + d \in DaysOf(e) PROVE After(e) > low /\ First(e) < high
  <2>1. PICK t \in First(e)..(After(e) - 1) : c + d = D(t)
    BY <1>4, <1>5
  <2>2. t \in Int /\ c <= D(t) /\ ~(c + n <= D(t))
    BY <1>1, <2>1
  <2> QED
    BY <1>1, <1>2, <1>3, <2>1, <2>2
<1>6. ASSUME After(e) > low, First(e) < high PROVE \E d \in 0..(n - 1) : c + d \in DaysOf(e)
  <2> DEFINE t == IF First(e) >= low THEN First(e) ELSE low
  <2>1. t \in First(e)..(After(e) - 1) /\ t \in Int /\ low <= t /\ ~(high <= t)
    BY <1>1, <1>2, <1>6
  <2> HIDE DEF t
  <2>2. D(t) \in Int /\ c <= D(t) /\ ~(c + n <= D(t)) /\ D(t) \in DaysOf(e)
    BY <1>3, <1>4, <2>1
  <2>3. D(t) - c \in 0..(n - 1) /\ c + (D(t) - c) = D(t)
    BY <2>2
  <2> QED
    BY <2>2, <2>3
<1> QED
  BY <1>5, <1>6 DEF low, high

\* The days of a period are those from its first day on, as many as it has.
LEMMA PeriodIs ==
    ASSUME NEW period \in Period, period # "none"
    PROVE  /\ FirstDay(period) \in Int /\ NumDays(period) \in Nat \ {0}
           /\ DaysMeant(period) = {FirstDay(period) + d : d \in 0..(NumDays(period) - 1)}
<1>1. Today \in Int /\ Monday \in Int
  BY Datetimes, CalendarAssumption DEF Today
<1> DEFINE T == Today
<1>2. T \in Int
  BY <1>1
<1>3. CASE period = "this_week"
  <2> DEFINE f == T - ((T - Monday) % 7)
  <2>1. FirstDay(period) = f /\ NumDays(period) = 7 /\ f \in Int
    BY <1>1, <1>3 DEF FirstDay, NumDays
  <2>2. DaysMeant(period) = {d \in (T - 6)..(T + 6) : (d - Monday) \div 7 = (T - Monday) \div 7}
    BY <1>3 DEF DaysMeant
  <2> HIDE DEF T
  <2>3. \A d \in Int : d \in (T - 6)..(T + 6) /\ (d - Monday) \div 7 = (T - Monday) \div 7 <=> d - f \in 0..6
    BY <1>1, <1>2
  <2> HIDE DEF f
  <2> DEFINE W == {d \in (T - 6)..(T + 6) : (d - Monday) \div 7 = (T - Monday) \div 7}
  <2>4. W = {f + d : d \in 0..6}
    <3>1. ASSUME NEW d \in W PROVE d \in {f + c : c \in 0..6}
      <4>1. d - f \in 0..6 /\ d = f + (d - f)
        BY <1>2, <2>1, <2>3, <3>1
      <4> QED
        BY <4>1
    <3>2. ASSUME NEW c \in 0..6 PROVE f + c \in W
      <4> DEFINE d == f + c
      <4>1. d \in Int /\ d - f \in 0..6
        BY <2>1
      <4> HIDE DEF d
      <4>2. d \in W
        BY <2>3, <4>1
      <4> QED
        BY <4>2 DEF d
    <3> HIDE DEF W
    <3> QED
      BY <3>1, <3>2
  <2>5. 7 \in Nat \ {0} /\ 7 - 1 = 6
    OBVIOUS
  <2> QED
    BY <2>1, <2>2, <2>4, <2>5
<1>4. CASE period \in {"today", "tomorrow"}
  <2>1. 0..(NumDays(period) - 1) = {0} /\ NumDays(period) = 1
    BY <1>4 DEF NumDays
  <2>2. FirstDay(period) \in Int /\ DaysMeant(period) = {FirstDay(period)}
    BY <1>1, <1>4 DEF FirstDay, DaysMeant
  <2> HIDE DEF T
  <2>3. {FirstDay(period) + d : d \in {0}} = {FirstDay(period)}
    BY <2>2
  <2> QED
    BY <2>1, <2>2, <2>3
<1>5. CASE period = "next_7_days"
  <2>1. FirstDay(period) = T /\ NumDays(period) = 7 /\ DaysMeant(period) = T..(T + 6)
    BY <1>5 DEF FirstDay, NumDays, DaysMeant
  <2> HIDE DEF T
  <2>2. T..(T + 6) = {T + d : d \in 0..6}
    <3>1. ASSUME NEW d \in T..(T + 6) PROVE \E c \in 0..6 : d = T + c
      <4>1. d - T \in 0..6 /\ d = T + (d - T)
        BY <1>2
      <4> QED
        BY <4>1
    <3>2. \A c \in 0..6 : T + c \in T..(T + 6)
      BY <1>2
    <3> QED
      BY <3>1, <3>2
  <2>3. 7 \in Nat \ {0} /\ 7 - 1 = 6
    OBVIOUS
  <2> QED
    BY <1>2, <2>1, <2>2, <2>3
<1> QED
  BY <1>3, <1>4, <1>5 DEF Period

\* What the API lists is what the search is about.
LEMMA ListedIsWanted ==
    ASSUME TypeOK, LenInv, QuietClock, NEW o \in Order, o.job = "find"
    PROVE  Listed(o) = Wanted(o)
<1>1. ASSUME NEW i \in Id PROVE event[i] \in Event /\ event[i].start < event[i].end
  BY DEF TypeOK, LenInv
<1>2. CASE o.period # "none"
  <2> DEFINE c == FirstDay(o.period)
             n == NumDays(o.period)
  <2>1. c \in Int /\ n \in Nat \ {0} /\ DaysMeant(o.period) = {c + d : d \in 0..(n - 1)}
    BY <1>2, PeriodIs DEF Order
  <2>2. From(o) = Midnight(c) /\ Until(o) = Midnight(c + n) /\ Bounded(o)
    BY <1>2 DEF From, Until, Bounded
  <2> HIDE DEF c, n
  <2>3. \A i \in Id : (\E d \in 0..(n - 1) : c + d \in DaysOf(event[i])) <=>
                        After(event[i]) > From(o) /\ (Bounded(o) => First(event[i]) < Until(o))
    BY <1>1, <2>1, <2>2, OverlapIsDay
  <2>4. Wanted(o) = {i \in Id : /\ event[i].live /\ ~event[i].series
                                /\ \E d \in 0..(n - 1) : c + d \in DaysOf(event[i])}
    BY <1>2, <2>1 DEF Wanted
  <2> QED
    BY <2>3, <2>4 DEF Listed
<1>3. CASE o.period = "none"
  BY <1>3 DEF Listed, Wanted, Bounded
<1> QED
  BY <1>2, <1>3

LEMMA SmallerIs == ASSUME NEW a \in Int, NEW b \in Int, a <= b PROVE Min({a, b}) = a /\ Min({b, a}) = a
<1>1. Min({a, b}) \in {a, b} /\ Min({a, b}) <= a /\ Min({a, b}) <= b
  <2>1. \E x \in {a, b} : \A y \in {a, b} : x <= y
    OBVIOUS
  <2> QED
    BY <2>1 DEF Min
<1>2. {b, a} = {a, b}
  OBVIOUS
<1> QED
  BY <1>1, <1>2

\* The first events of a list are as many as are asked for, and come first.
LEMMA FirstAreAll ==
    ASSUME TypeOK, NEW list \in SUBSET Id, NEW q \in Seq(Id), FirstOf(q, list), NEW limit \in Nat, Len(q) <= limit,
           Len(q) = limit \/ \A i \in list : Covered(q, i)
    PROVE  /\ Len(q) = Min({limit, Cardinality(list)})
           /\ \A a, b \in 1..Len(q) : a < b => Earlier(q[a], q[b])
           /\ ToSet(q) \subseteq list
           /\ \A i \in ToSet(q), j \in list \ ToSet(q) : Earlier(i, j)
<1> DEFINE n == Len(q)
<1>1. n \in Nat /\ q \in [1..n -> Id] /\ DOMAIN q = 1..n
  OBVIOUS
<1>2. /\ \A a, b \in 1..n : a < b => Earlier(q[a], q[b])
      /\ \A a \in 1..n : q[a] \in list
      /\ \A i \in list : Covered(q, i) \/ Precedes(q, i)
  BY DEF FirstOf
<1>3. ToSet(q) = {q[a] : a \in 1..n}
  BY <1>1 DEF ToSet
<1>4. IsFiniteSet(list) /\ Cardinality(list) \in Nat
  BY CalendarAssumption, FS_Subset, FS_CardinalityType
<1>5. IsFiniteSet(1..n) /\ Cardinality(1..n) = n
  <2> HIDE DEF n
  <2>1. IsFiniteSet(1..n) /\ Cardinality(1..n) = IF 1 > n THEN 0 ELSE n - 1 + 1
    BY <1>1, FS_Interval
  <2>2. 1 > n => n = 0
    BY <1>1
  <2> QED
    BY <1>1, <2>1, <2>2
<1>6. q \in Injection(1..n, list)
  <2>1. ASSUME NEW a \in 1..n, NEW b \in 1..n, q[a] = q[b] PROVE a = b
    <3>1. ~Earlier(q[a], q[b]) /\ ~Earlier(q[b], q[a])
      BY <1>1, <2>1, EarlierOrders
    <3> QED
      BY <1>1, <1>2, <3>1
  <2>2. q \in [1..n -> list]
    BY <1>1, <1>2
  <2> QED
    BY <1>1, <2>1, <2>2 DEF Injection, IsInjective
<1>7. n <= Cardinality(list) /\ (n = Cardinality(list) <=> q \in Surjection(1..n, list))
  BY <1>4, <1>5, <1>6, FS_Injection
<1>8. n = Min({limit, Cardinality(list)})
  <2>1. CASE n = limit
    BY <1>4, <1>7, <2>1, SmallerIs
  <2>2. CASE \A i \in list : Covered(q, i)
    <3>1. q \in Surjection(1..n, list)
      BY <1>1, <1>2, <2>2 DEF Surjection, Covered
    <3> QED
      BY <1>4, <1>7, <3>1, SmallerIs
  <2> QED
    BY <2>1, <2>2
<1>9. ASSUME NEW i \in ToSet(q), NEW j \in list \ ToSet(q) PROVE Earlier(i, j)
  BY <1>2, <1>3, <1>9 DEF Covered, Precedes
<1> QED
  BY <1>2, <1>3, <1>8, <1>9

\* A search that no event was changed under has the first of the events that it
\* is about, as many as it was asked for, however the pages are cut, if the
\* clock of the calendar is not changed about midnight.
THEOREM FindsWhole == QuietClock => (Spec => FindIsWhole)
<1> SUFFICES ASSUME QuietClock PROVE Spec => FindIsWhole
  OBVIOUS
<1> DEFINE A(r) ==
           LET o == order[r]
               n == Min({o.limit, Cardinality(Wanted(o))})
           IN IF NoTime(o) THEN items'[r] = <<>>
              ELSE /\ Len(items'[r]) = n
                   /\ \A a, b \in 1..n : a < b => Earlier(items'[r][a], items'[r][b])
                   /\ ToSet(items'[r]) \subseteq Wanted(o)
                   /\ \A i \in ToSet(items'[r]), j \in Wanted(o) \ ToSet(items'[r]) : Earlier(i, j)
<1>1. ASSUME WInv, [Next]_vars, NEW r \in Run \ raced, pc[r] = "list", answer'[r] = "found" PROVE A(r)
  <2> DEFINE o == order[r]
             q == items'[r]
  <2>1. TypeOK /\ LenInv /\ RunInv(r) /\ SInv /\ PInv
    BY <1>1 DEF WInv, SInv, PInv, IInv
  <2>2. o \in Order /\ o.job = "find" /\ o.limit \in Nat
    BY <1>1, <2>1, OrderAssumption, OrderIs DEF RunInv, TypeOK
  <2>3. FoundFirst(r)
    BY <1>1, <2>1, StepPages
  <2>4. q \in Seq(Id)
    <3>1. TypeOK'
      BY <1>1, <2>1, StepIInv DEF PInv, IInv
    <3> QED
      BY <3>1 DEF TypeOK
  <2>5. Listed(o) = Wanted(o) /\ Listed(o) \in SUBSET Id
    BY <2>1, <2>2, ListedIsWanted DEF Listed
  <2>6. CASE NoTime(o)
    BY <2>3, <2>6 DEF FoundFirst
  <2>7. CASE ~NoTime(o)
    <3>1. FirstOf(q, Listed(o)) /\ Len(q) <= o.limit /\ (Len(q) = o.limit \/ \A i \in Listed(o) : Covered(q, i))
      BY <2>3, <2>7 DEF FoundFirst
    <3> DEFINE list == Listed(o)
               limit == o.limit
    <3>2. /\ list \in SUBSET Id /\ q \in Seq(Id) /\ FirstOf(q, list) /\ limit \in Nat /\ Len(q) <= limit
          /\ Len(q) = limit \/ \A i \in list : Covered(q, i)
      BY <2>2, <2>4, <2>5, <3>1
    <3> HIDE DEF q, list, limit
    <3>3. /\ Len(q) = Min({limit, Cardinality(list)})
          /\ \A a, b \in 1..Len(q) : a < b => Earlier(q[a], q[b])
          /\ ToSet(q) \subseteq list
          /\ \A i \in ToSet(q), j \in list \ ToSet(q) : Earlier(i, j)
      BY <2>1, <3>2, FirstAreAll
    <3> QED
      BY <2>5, <2>7, <3>3 DEF q, list, limit
  <2> QED
    BY <2>6, <2>7
<1>2. WInv /\ [Next]_vars => [\A r \in Run \ raced : pc[r] = "list" /\ answer'[r] = "found" => A(r)]_vars
  BY <1>1
<1>3. FindIsWhole <=> [][\A r \in Run \ raced : pc[r] = "list" /\ answer'[r] = "found" => A(r)]_vars
  BY DEF FindIsWhole, Wanted
<1> HIDE DEF A
<1> QED
  BY InitWInv, StepWInv, <1>2, <1>3, PTL DEF Spec

------------------------------------------------------------------------------
(* What becomes of the times                                                *)

\* A reading of a clock and the instant that it is.
LEMMA Readings ==
    ASSUME NEW z \in Zone
    PROVE  /\ \A w \in Int : LET t == Instant([wall |-> w, zone |-> z]) IN t \in Int /\ Shows(z, t, w)
           /\ \A t \in Int : LET d == In(z, Stored(t))
                             IN d = [wall |-> Clock(z, t), zone |-> z] /\ Clock(z, t) \in Int /\ Instant(d) = t
<1>1. z.at \in Int /\ z.before \in Int /\ z.after \in Int /\ z.before <= z.after
  BY ZoneIs
<1>2. \A w \in Int : Instant([wall |-> w, zone |-> z]) = w - Offset(z, w)
  BY DEF Instant
<1>3. \A t \in Int : Instant(Stored(t)) = t
  BY DEF Instant, Stored, Offset, Fixed
<1>4. \A t \in Int : In(z, Stored(t)) = [wall |-> Clock(z, t), zone |-> z]
  BY <1>3 DEF In
<1>5. \A t \in Int : Clock(z, t) \in Int /\ Clock(z, t) - Offset(z, Clock(z, t)) = t
  BY <1>1 DEF Clock, Offset
<1>6. \A w \in Int : w - Offset(z, w) \in Int /\ Shows(z, w - Offset(z, w), w)
  BY <1>1 DEF Shows, Clock, Offset
<1> QED
  BY <1>2, <1>4, <1>5, <1>6

\* A value that is parsed is the instant and the day that it is meant to be: a
\* reading on a clock that is never changed, or on that of the zone.
LEMMA ParsedIs ==
    ASSUME NEW v \in Value, Given(v), NEW z \in Zone
    PROVE  /\ InstantOf(v, z) \in Int /\ Instant(Parse(v, z)) = InstantOf(v, z)
           /\ DayIn(v, z) = DayThat(v, z) /\ DayThat(v, z) \in Int
           /\ v.wall \in Int
           /\ v.kind \in {"day", "naive"} => Parse(v, z) = [wall |-> v.wall, zone |-> z]
           /\ v.kind \in {"day", "naive", "aware"}
           /\ \E y \in Zone : Parse(v, z) = [wall |-> v.wall, zone |-> y] /\ (v.kind = "aware" => y.before = y.after)
<1>1. v.wall \in Int /\ v.kind \in {"day", "naive", "aware"} /\ (v.kind = "aware" => v.offset \in Int)
  BY DEF Value, Given, Absent
<1>2. CASE v.kind = "aware"
  <2> DEFINE y == Fixed(v.offset)
             t == v.wall - v.offset
  <2>1. y \in Zone /\ y.before = y.after /\ t \in Int
    BY <1>1, <1>2 DEF Fixed, Zone
  <2>2. Parse(v, z) = [wall |-> v.wall, zone |-> y]
    BY <1>2 DEF Parse
  <2>3. Instant(Parse(v, z)) = t
    BY <1>1, <1>2, <2>2 DEF Instant, Offset, Fixed
  <2>4. DayIn(v, z) = Clock(z, t) \div DayLen
    BY <1>2, <2>3 DEF DayIn, DayOf, In
  <2>5. Clock(z, t) \div DayLen \in Int
    BY <2>1, Readings, DivIs, DayAssumption
  <2> QED
    BY <1>1, <1>2, <2>1, <2>2, <2>3, <2>4, <2>5 DEF InstantOf, DayThat
<1>3. CASE v.kind # "aware"
  <2>1. Parse(v, z) = [wall |-> v.wall, zone |-> z]
    BY <1>3 DEF Parse
  <2>2. Instant(Parse(v, z)) = InstantOf(v, z) /\ InstantOf(v, z) \in Int
    BY <1>1, <1>3, <2>1, Readings DEF InstantOf
  <2>3. DayIn(v, z) = v.wall \div DayLen /\ v.wall \div DayLen \in Int
    BY <1>1, <1>3, <2>1, DivIs, DayAssumption DEF DayIn, DayOf
  <2> QED
    BY <1>1, <1>3, <2>1, <2>2, <2>3 DEF DayThat
<1> QED
  BY <1>2, <1>3

\* Two values are as far apart as their instants, unless both are readings of a
\* clock that is changed between them.
LEMMA ApartIs ==
    ASSUME NEW start \in Value, Given(start), start.kind # "day", NEW end \in Value, Given(end), end.kind # "day",
           NEW z \in Zone, Minus(Parse(end, z), Parse(start, z)) > 0
    PROVE  LET asked == [start |-> InstantOf(start, z), end |-> InstantOf(end, z)] IN
           \/ Minus(Parse(end, z), Parse(start, z)) = asked.end - asked.start
           \/ start.kind = "naive" /\ end.kind = "naive" /\ Across(z, asked)
<1> DEFINE b == InstantOf(start, z)
           f == InstantOf(end, z)
<1>1. /\ b \in Int /\ f \in Int /\ start.wall \in Int /\ end.wall \in Int
      /\ Instant(Parse(start, z)) = b /\ Instant(Parse(end, z)) = f
      /\ start.kind \in {"naive", "aware"} /\ end.kind \in {"naive", "aware"}
      /\ start.kind = "naive" => Parse(start, z) = [wall |-> start.wall, zone |-> z]
      /\ end.kind = "naive" => Parse(end, z) = [wall |-> end.wall, zone |-> z]
  BY ParsedIs
<1>2. PICK x \in Zone : Parse(start, z) = [wall |-> start.wall, zone |-> x] /\ (start.kind = "aware" => x.before = x.after)
  BY ParsedIs
<1>3. PICK y \in Zone : Parse(end, z) = [wall |-> end.wall, zone |-> y] /\ (end.kind = "aware" => y.before = y.after)
  BY ParsedIs
<1>4. CASE x # y
  BY <1>1, <1>2, <1>3, <1>4 DEF Minus
<1>5. CASE x = y
  <2>1. Minus(Parse(end, z), Parse(start, z)) = end.wall - start.wall
    BY <1>2, <1>3, <1>5 DEF Minus
  <2>2. b = Instant([wall |-> start.wall, zone |-> x]) /\ f = Instant([wall |-> end.wall, zone |-> x])
    BY <1>1, <1>2, <1>3, <1>5
  <2> DEFINE n == end.wall - start.wall
  <2>3. n \in Int /\ n > 0 /\ end.wall = start.wall + n
    BY <1>1, <2>1
  <2> HIDE DEF b, f, n
  <2>4. x.before = x.after \/ ~(b < x.at + (x.after - x.before) /\ x.at <= f) => f = b + n
    BY <1>1, <2>2, <2>3, StaysLong
  <2>5. CASE x.before = x.after
    <3>1. f - b = n
      BY <1>1, <2>3, <2>4, <2>5
    <3> QED
      BY <2>1, <3>1 DEF b, f, n
  <2>6. CASE x.before # x.after
    <3>1. start.kind = "naive" /\ end.kind = "naive" /\ x = z
      BY <1>1, <1>2, <1>3, <1>5, <2>6
    <3>2. ~(b < z.at + (z.after - z.before) /\ z.at <= f) => f - b = n
      BY <1>1, <2>3, <2>4, <3>1
    <3> QED
      BY <2>1, <3>1, <3>2 DEF Across, b, f, n
  <2> QED
    BY <2>5, <2>6
<1> QED
  BY <1>4, <1>5

\* A time on a clock and one that is n later on that clock.
LEMMA LengthStays ==
    ASSUME NEW w \in Int, NEW n \in Int, NEW y \in Zone, NEW begin, begin = [wall |-> w, zone |-> y],
           NEW t, t = Times(begin, Plus(begin, n)), t.start < t.end, y.before = y.after \/ ~Across(y, t)
    PROVE  t.end - t.start = n
<1>1. Plus(begin, n) = [wall |-> w + n, zone |-> y]
  BY DEF Plus
<1>2. t.start = Instant([wall |-> w, zone |-> y]) /\ t.end = Instant([wall |-> w + n, zone |-> y])
  BY <1>1 DEF Times
<1>3. t.start \in Int /\ t.end = t.start + n
  BY <1>2, StaysLong DEF Across
<1> QED
  BY <1>3

\* All-day times.
LEMMA AllDayIs ==
    ASSUME NEW o \in Order, o.job # "find", NEW e \in Event, ToAllDay(o, e),
           NEW t, t = AllDayTimes(e, o.start, o.end, ReadIn(o))
    PROVE  t.kind = "times" /\ SingleAsAsked(o, e, t)
<1> DEFINE z == ReadIn(o)
           start == o.start
           end == o.end
<1>1. /\ e.start \in Int /\ e.end \in Int /\ e.allDay \in BOOLEAN /\ z \in Zone
      /\ start \in Value /\ end \in Value
  BY OrderIs, AskedTyped DEF Event
<1> DEFINE first == IF Given(start) THEN DayIn(start, z)
                    ELSE IF e.allDay THEN e.start ELSE DayOf(In(z, Stored(e.start)))
           after == IF Given(end) THEN DayIn(end, z) + 1
                    ELSE IF e.allDay THEN first + (e.end - e.start) ELSE first + 1
<1>2. t = Days(first, after)
  BY DEF AllDayTimes
<1>3. first = IF Given(start) THEN DayThat(start, z) ELSE IF e.allDay THEN e.start ELSE Clock(z, e.start) \div DayLen
  BY <1>1, ParsedIs, Readings DEF DayOf
<1>4. first \in Int
  <2>1. Clock(z, e.start) \div DayLen \in Int
    BY <1>1, Readings, DivIs, DayAssumption
  <2> QED
    BY <1>1, <1>3, <2>1, ParsedIs
<1>5. after = IF Given(end) THEN DayThat(end, z) + 1 ELSE IF e.allDay THEN first + (e.end - e.start) ELSE first + 1
  BY <1>1, ParsedIs
<1> HIDE DEF first, after
<1>6. t.kind = "times" /\ t.allDay = TRUE /\ t.start = first /\ t.end = after
  BY <1>2 DEF Days
<1>7. ~Given(end) /\ e.allDay => t.end - t.start = e.end - e.start
  BY <1>1, <1>4, <1>5, <1>6
<1>8. ToAllDay(o, e) = TRUE
  BY <1>1 DEF ToAllDay
<1> QED
  BY <1>1, <1>3, <1>5, <1>6, <1>7, <1>8 DEF SingleAsAsked

\* Times of day, of one event.
LEMMA TimedIs ==
    ASSUME NEW o \in Order, o.job # "find", NEW e \in Event, ~ToAllDay(o, e),
           "day" \notin {o.start.kind, o.end.kind}, Given(o.start) \/ Given(o.end),
           NEW t, t = TimedTimes(e, o.start, o.end, ReadIn(o)), t.kind = "times", t.start < t.end
    PROVE  SingleAsAsked(o, e, t)
<1> DEFINE z == ReadIn(o)
           start == o.start
           end == o.end
           begin == IF Given(start) THEN Parse(start, z) ELSE Stored(e.start)
           n == e.end - e.start
           finish == IF Given(end) THEN Parse(end, z) ELSE Plus(begin, n)
<1>1. /\ e.start \in Int /\ e.end \in Int /\ e.allDay \in BOOLEAN /\ z \in Zone /\ n \in Int
      /\ start \in Value /\ end \in Value
  BY OrderIs, AskedTyped DEF Event
<1>2. t = Times(begin, finish) /\ (e.allDay => Given(start) /\ Given(end))
  <2>1. Minus(Stored(e.end), Stored(e.start)) = n
    BY DEF Minus, Stored
  <2> QED
    BY <2>1 DEF TimedTimes, Reason
<1> HIDE DEF finish
<1>3. t.allDay = FALSE /\ t.start = Instant(begin) /\ t.end = Instant(finish)
  BY <1>2 DEF Times
<1>4. t.start = IF Given(start) THEN InstantOf(start, z) ELSE e.start
  <2>1. Instant(Stored(e.start)) = e.start
    BY <1>1 DEF Instant, Stored, Offset, Fixed
  <2> QED
    BY <1>1, <1>3, <2>1, ParsedIs
<1>5. Given(end) => t.end = InstantOf(end, z)
  BY <1>1, <1>3, ParsedIs DEF finish
<1>6. ~Given(end) => t.end - t.start = n \/ (start.kind = "naive" /\ Across(z, t))
  <2> SUFFICES ASSUME ~Given(end), ~(start.kind = "naive" /\ Across(z, t)) PROVE t.end - t.start = n
    OBVIOUS
  <2>1. PICK y \in Zone : /\ begin = [wall |-> start.wall, zone |-> y] /\ start.wall \in Int
                          /\ start.kind = "aware" => y.before = y.after
                          /\ start.kind = "naive" => y = z
    <3>1. start.kind \in {"naive", "aware"} /\ start.wall \in Int /\ begin = Parse(start, z)
      BY <1>1, ParsedIs
    <3> QED
      BY <1>1, <3>1, ParsedIs
  <2>2. y.before = y.after \/ ~Across(y, t)
    <3>1. start.kind \in {"naive", "aware"}
      BY <1>1, ParsedIs
    <3> QED
      BY <2>1, <3>1
  <2>3. t = Times(begin, Plus(begin, n))
    BY <1>2 DEF finish
  <2> DEFINE w == start.wall
  <2>4. w \in Int /\ n \in Int /\ begin = [wall |-> w, zone |-> y]
    BY <1>1, <2>1
  <2> HIDE DEF begin, n, w
  <2> QED
    BY <2>2, <2>3, <2>4, LengthStays
<1>7. ToAllDay(o, e) = FALSE
  <2>1. ToAllDay(o, e) \in BOOLEAN
    BY <1>1, Member DEF ToAllDay
  <2> QED
    BY <2>1
<1> HIDE DEF begin
<1> QED
  BY <1>1, <1>2, <1>3, <1>4, <1>5, <1>6, <1>7 DEF SingleAsAsked

\* A day and a time of day make a reading of that time of day.
LEMMA OnDay ==
    ASSUME NEW d \in Int, NEW x \in Int
    PROVE  LET w == d * DayLen + (x % DayLen)
           IN /\ w \in Int /\ d * DayLen <= w /\ w < d * DayLen + DayLen
              /\ w % DayLen = x % DayLen /\ (w + DayLen) % DayLen = x % DayLen
<1> DEFINE r == x % DayLen
           w == d * DayLen + r
<1>1. r \in Int /\ 0 <= r /\ r < DayLen /\ DayLen \in Nat \ {0}
  BY DayAssumption
<1>2. d * DayLen \in Int /\ (d + 1) * DayLen = d * DayLen + DayLen
  BY <1>1
<1> HIDE DEF r
<1>3. w \in Int /\ d * DayLen <= w /\ w < d * DayLen + DayLen
  BY <1>1, <1>2
<1>4. ASSUME NEW v \in Int, NEW c \in Int, v = c * DayLen + r PROVE v % DayLen = r
  <2>1. v \div DayLen = c
    <3>1. c * DayLen \in Int
      BY <1>1
    <3>2. c * DayLen <= v /\ v < c * DayLen + DayLen
      BY <1>1, <1>4, <3>1
    <3> QED
      BY <1>1, <3>2, DivIs
  <2>2. v = DayLen * (v \div DayLen) + (v % DayLen) /\ v % DayLen \in Int
    BY <1>1
  <2>3. DayLen * c = c * DayLen
    BY <1>1
  <2>4. c * DayLen \in Int
    BY <1>1
  <2> QED
    BY <1>1, <1>4, <2>1, <2>2, <2>3, <2>4
<1>5. w % DayLen = r
  BY <1>3, <1>4
<1>6. (w + DayLen) % DayLen = r
  <2>1. w + DayLen \in Int /\ w + DayLen = (d + 1) * DayLen + r /\ d + 1 \in Int
    BY <1>1, <1>2, <1>3
  <2> HIDE DEF w
  <2> QED
    BY <1>4, <2>1
<1> QED
  BY <1>3, <1>5, <1>6 DEF r

\* The times of a series.
LEMMA SeriesIs ==
    ASSUME NEW o \in Order, o.job # "find", NEW e \in Event, e.start < e.end, ~e.allDay,
           "day" \notin {o.start.kind, o.end.kind}, Given(o.start) \/ Given(o.end),
           NEW t, t = SeriesTimes(e, o.start, o.end, ReadIn(o)), t.kind = "times", t.start < t.end,
           NEW f, f.allDay = t.allDay, f.start = t.start, f.end = t.end, f.zone = e.zone
    PROVE  SeriesAsAsked(o, e, f)
<1> DEFINE z == ReadIn(o)
           start == o.start
           end == o.end
           y == e.zone
           u == Clock(y, e.start)
           v == Clock(y, e.end)
           d == u \div DayLen
           first == [wall |-> u, zone |-> y]
           last == [wall |-> v, zone |-> y]
           Tod(a) == Clock(y, InstantOf(a, z)) % DayLen
           W(a) == d * DayLen + Tod(a)
<1>1. /\ e.start \in Int /\ e.end \in Int /\ e.allDay = FALSE /\ y \in Zone /\ z \in Zone
      /\ start \in Value /\ end \in Value
  BY OrderIs, AskedTyped DEF Event
<1>2. /\ u \in Int /\ v \in Int /\ Instant(first) = e.start
      /\ In(y, Stored(e.start)) = first /\ In(y, Stored(e.end)) = last
  BY <1>1, Readings
<1>3. d \in Int /\ d * DayLen \in Int /\ d * DayLen <= u /\ u < d * DayLen + DayLen
  <2>1. d \in Int /\ d * DayLen <= u /\ u < d * DayLen + DayLen
    BY <1>2, DivIs, DayAssumption
  <2> HIDE DEF d
  <2> QED
    BY <2>1, DayAssumption
<1>4. ASSUME NEW a \in Value, Given(a)
      PROVE  /\ W(a) \in Int /\ d * DayLen <= W(a) /\ W(a) < d * DayLen + DayLen
             /\ W(a) % DayLen = Tod(a) /\ (W(a) + DayLen) % DayLen = Tod(a)
             /\ On(first, In(y, Parse(a, z))) = [wall |-> W(a), zone |-> y]
  <2> DEFINE x == Clock(y, InstantOf(a, z))
  <2>1. x \in Int /\ Instant(Parse(a, z)) = InstantOf(a, z)
    BY <1>1, <1>4, ParsedIs, Datetimes
  <2>2. In(y, Parse(a, z)) = [wall |-> x, zone |-> y]
    BY <2>1 DEF In
  <2>3. On(first, In(y, Parse(a, z))) = [wall |-> W(a), zone |-> y]
    BY <2>2 DEF On, DayOf
  <2>4. Tod(a) = x % DayLen
    OBVIOUS
  <2> HIDE DEF x, d, Tod
  <2> QED
    BY <1>3, <2>1, <2>3, <2>4, OnDay
<1>5. Minus(last, first) = v - u
  BY DEF Minus
<1>6. f.allDay = FALSE
  <2>1. \E b, g : t = Times(b, g)
    BY DEF SeriesTimes, Reason
  <2> QED
    BY <2>1 DEF Times
<1> DEFINE asked == [start |-> InstantOf(start, z), end |-> InstantOf(end, z)]
<1>7. CASE Given(start)
  <2> DEFINE begin == [wall |-> W(start), zone |-> y]
             len == IF Given(end) THEN Minus(Parse(end, z), Parse(start, z)) ELSE v - u
  <2>1. t = Times(begin, Plus(begin, len))
    BY <1>1, <1>2, <1>4, <1>5, <1>7 DEF SeriesTimes
  <2>2. W(start) \in Int
    BY <1>1, <1>4, <1>7
  <2>3. len \in Int
    <3>1. Given(end) => Minus(Parse(end, z), Parse(start, z)) \in Int
      BY <1>1, <1>7, Values, Datetimes
    <3>2. v - u \in Int
      BY <1>2
    <3> QED
      BY <3>1, <3>2
  <2> HIDE DEF W, len
  <2>4. t.start = Instant(begin)
    <3> HIDE DEF begin
    <3> QED
      BY <2>1 DEF Times
  <2>5. Shows(y, t.start, W(start))
    BY <1>1, <2>2, <2>4, Readings
  <2>6. Across(y, f) \/ t.end - t.start = len
    <3> DEFINE w == W(start)
    <3>1. w \in Int /\ begin = [wall |-> w, zone |-> y]
      BY <2>2
    <3>2. Across(y, f) <=> Across(y, t)
      BY DEF Across
    <3> HIDE DEF w, begin, y
    <3> QED
      BY <1>1, <2>1, <2>3, <3>1, <3>2, LengthStays
  <2>7. CASE Given(end)
    <3>1. ASSUME ~Across(y, f)
          PROVE  t.end - t.start = asked.end - asked.start \/ (start.kind = "naive" /\ end.kind = "naive" /\ Across(z, asked))
      <4>1. t.end - t.start = len /\ len = Minus(Parse(end, z), Parse(start, z))
        BY <2>6, <2>7, <3>1 DEF len
      <4>2. t.start \in Int /\ t.end \in Int
        <5>1. begin \in Stamp /\ Plus(begin, len) \in Stamp
          BY <1>1, <2>2, <2>3, Datetimes DEF Stamp
        <5> HIDE DEF begin
        <5> QED
          BY <2>1, <5>1, Datetimes DEF Times
      <4>3. len > 0
        BY <2>3, <4>1, <4>2
      <4> QED
        BY <1>1, <1>7, <2>7, <4>1, <4>3, ApartIs
    <3> HIDE DEF asked
    <3>2. \/ f.end - f.start = asked.end - asked.start
          \/ Across(y, f)
          \/ start.kind = "naive" /\ end.kind = "naive" /\ Across(z, asked)
      BY <3>1
    <3> QED
      BY <1>1, <1>6, <1>7, <2>5, <2>7, <3>2 DEF SeriesAsAsked, asked, W
  <2>8. CASE ~Given(end)
    <3>1. len = e.end - e.start \/ Across(y, e)
      <4>1. len = v - u
        BY <2>8 DEF len
      <4>2. y.at \in Int /\ y.before \in Int /\ y.after \in Int /\ y.before <= y.after
        BY <1>1, ZoneIs
      <4>3. e.start < e.end
        OBVIOUS
      <4> QED
        BY <1>1, <4>1, <4>2, <4>3 DEF Across, Clock
    <3> QED
      BY <1>1, <1>6, <1>7, <2>5, <2>6, <2>8, <3>1 DEF SeriesAsAsked, W
  <2> QED
    BY <2>7, <2>8
<1>8. CASE ~Given(start)
  <2> DEFINE w == IF W(end) <= u THEN W(end) + DayLen ELSE W(end)
             until == [wall |-> W(end), zone |-> y]
  <2>1. Given(end)
    BY <1>8
  <2>2. /\ W(end) \in Int /\ d * DayLen <= W(end) /\ W(end) < d * DayLen + DayLen
        /\ W(end) % DayLen = Tod(end) /\ (W(end) + DayLen) % DayLen = Tod(end)
        /\ On(first, In(y, Parse(end, z))) = until
    BY <1>1, <1>4, <2>1
  <2>3. t = Times(first, IF until.wall <= first.wall THEN Plus(until, DayLen) ELSE until)
    BY <1>2, <1>8, <2>2 DEF SeriesTimes, Reason
  <2> HIDE DEF W
  <2>4. w \in (u + 1)..(u + DayLen) /\ w % DayLen = Tod(end)
    <3> HIDE DEF u, d, Tod
    <3> QED
      BY <1>2, <1>3, <2>2, DayAssumption
  <2>5. (IF until.wall <= first.wall THEN Plus(until, DayLen) ELSE until) = [wall |-> w, zone |-> y]
    BY DEF Plus
  <2> HIDE DEF w, until
  <2>6. t.start = Instant(first) /\ t.end = Instant([wall |-> w, zone |-> y])
    BY <2>3, <2>5 DEF Times
  <2>7. t.start = e.start /\ Shows(y, t.end, w)
    <3>1. w \in Int
      BY <1>2, <2>4, DayAssumption
    <3> QED
      BY <1>1, <1>2, <2>6, <3>1, Readings
  <2> QED
    BY <1>1, <1>6, <1>8, <2>1, <2>4, <2>7 DEF SeriesAsAsked
<1> QED
  BY <1>7, <1>8

\* An update that answers "success", and what it has made of the event.
LEMMA UpdateIsWhole ==
    ASSUME WInv, NEW r \in Run \ raced, Write(r), answer'[r] = "success"
    PROVE  LET o == order[r]
               i == target[r]
               e == event[i]
               f == event'[i]
           IN /\ i = o.id \/ (o.all /\ event[o.id].of = {i})
              /\ f.series => o.all
              /\ f.live
              /\ f.start < f.end
              /\ IF f.series THEN SeriesAsAsked(o, e, f) ELSE SingleAsAsked(o, e, f)
<1> DEFINE o == order[r]
           i == target[r]
           e == event[i]
           f == event'[i]
           t == Asked(o, e)
<1>1. SInv /\ TypeOK /\ SeriesInv /\ LenInv
  BY DEF WInv, SInv, PInv, IInv
<1>2. /\ o \in Order /\ o.job = "update" /\ o.id \in Id /\ i \in Id /\ e \in Event
      /\ InScope(r) /\ e.live /\ (e.series => o.all) /\ t.kind # "refused"
      /\ Patched(i, t, NewZone(o, e))
      /\ t.kind = "times" => t.start < t.end
  BY <1>1, Success
<1>3. e.start < e.end /\ e.start \in Int /\ e.end \in Int /\ e.allDay \in BOOLEAN /\ e.series \in BOOLEAN /\ e.zone \in Zone
  BY <1>1, <1>2 DEF LenInv, Event
<1>4. i = o.id \/ (o.all /\ event[o.id].of = {i})
  BY <1>1, <1>2, CalendarAssumption DEF InScope, SeriesInv
<1> DEFINE toAllDay == ToAllDay(o, e)
           start == o.start
           end == o.end
<1>5. t = CASE ~Given(start) /\ ~Given(end) /\ toAllDay = e.allDay -> NoChange
            [] (Given(start) \/ Given(end)) /\ ~toAllDay /\ "day" \in {start.kind, end.kind} -> Reason
            [] OTHER ->
                 IF e.series THEN IF toAllDay \/ e.allDay THEN Reason ELSE SeriesTimes(e, start, end, ReadIn(o))
                 ELSE IF toAllDay THEN AllDayTimes(e, start, end, ReadIn(o))
                 ELSE TimedTimes(e, start, end, ReadIn(o))
  BY DEF Asked, NewTimes, ToAllDay
<1>6. NoChange.kind = "same" /\ Reason.kind = "refused"
  BY DEF NoChange, Reason
<1>7. /\ start \in Value /\ end \in Value /\ toAllDay \in BOOLEAN
      /\ TimesOK(t) /\ NewZone(o, e) \in SUBSET Zone
  BY <1>2, <1>3, OrderIs, AskedTyped, Member DEF ToAllDay
<1> HIDE DEF t, toAllDay
<1>8. CASE ~Given(start) /\ ~Given(end) /\ toAllDay = e.allDay
  <2>1. f = e
    BY <1>2, <1>5, <1>6, <1>8 DEF Patched
  <2>2. SingleAsAsked(o, e, e)
    <3>1. ~(e.allDay /\ ~e.allDay)
      OBVIOUS
    <3> QED
      BY <1>8, <3>1 DEF SingleAsAsked, toAllDay
  <2>3. SeriesAsAsked(o, e, e)
    BY <1>8 DEF SeriesAsAsked
  <2>4. /\ f.series => o.all
        /\ f.live /\ f.start < f.end
        /\ IF f.series THEN SeriesAsAsked(o, e, f) ELSE SingleAsAsked(o, e, f)
    <3> HIDE DEF e, f
    <3> QED
      BY <1>2, <1>3, <2>1, <2>2, <2>3
  <2> QED
    BY <1>4, <2>4
<1>9. CASE ~(~Given(start) /\ ~Given(end) /\ toAllDay = e.allDay)
  <2>1. /\ t.kind = "times"
        /\ (Given(start) \/ Given(end)) /\ ~toAllDay => "day" \notin {start.kind, end.kind}
        /\ IF e.series THEN ~toAllDay /\ ~e.allDay /\ t = SeriesTimes(e, start, end, ReadIn(o))
           ELSE IF toAllDay THEN t = AllDayTimes(e, start, end, ReadIn(o))
           ELSE t = TimedTimes(e, start, end, ReadIn(o))
    <3>1. /\ t # Reason
          /\ (Given(start) \/ Given(end)) /\ ~toAllDay => "day" \notin {start.kind, end.kind}
          /\ IF e.series THEN ~toAllDay /\ ~e.allDay /\ t = SeriesTimes(e, start, end, ReadIn(o))
             ELSE IF toAllDay THEN t = AllDayTimes(e, start, end, ReadIn(o))
             ELSE t = TimedTimes(e, start, end, ReadIn(o))
      <4> HIDE DEF e, start, end, o
      <4> QED
        BY <1>2, <1>5, <1>6, <1>9
    <3>2. /\ t = AllDayTimes(e, start, end, ReadIn(o)) => t.kind = "times"
          /\ t = TimedTimes(e, start, end, ReadIn(o)) => t.kind = "times"
          /\ t = SeriesTimes(e, start, end, ReadIn(o)) => t.kind = "times"
      <4>1. \A b, g : Days(b, g).kind = "times" /\ Times(b, g).kind = "times"
        BY DEF Days, Times
      <4> HIDE DEF e, start, end, o
      <4>2. /\ \E b, g : AllDayTimes(e, start, end, ReadIn(o)) = Days(b, g)
            /\ \E b, g : TimedTimes(e, start, end, ReadIn(o)) \in {Reason, Times(b, g)}
            /\ \E b, g : SeriesTimes(e, start, end, ReadIn(o)) \in {Reason, Times(b, g)}
        BY DEF AllDayTimes, TimedTimes, SeriesTimes
      <4> QED
        BY <3>1, <4>1, <4>2
    <3> QED
      BY <3>1, <3>2
  <2>2. PICK g \in Event :
          /\ Becomes(i, g)
          /\ g.allDay = t.allDay /\ g.start = t.start /\ g.end = t.end
          /\ g.live = e.live /\ g.series = e.series
          /\ \A y \in Zone : NewZone(o, e) = {y} => g.zone = y
    <3> DEFINE zone == NewZone(o, e)
    <3>1. /\ TypeOK /\ i \in Id /\ TimesOK(t) /\ t.kind = "times"
          /\ zone \in SUBSET Zone /\ Patched(i, t, zone)
      BY <1>1, <1>2, <1>7, <2>1
    <3> HIDE DEF zone, i
    <3>2. PICK g \in Event :
            /\ Becomes(i, g)
            /\ g.allDay = t.allDay /\ g.start = t.start /\ g.end = t.end
            /\ g.live = event[i].live /\ g.series = event[i].series
            /\ \A y \in Zone : zone = {y} => g.zone = y
      BY <3>1, PatchedIs
    <3> QED
      BY <3>2 DEF zone
  <2>3. f = g
    BY <1>2, <2>2 DEF Becomes
  <2>4. t.start < t.end
    BY <1>2, <2>1
  <2>5. CASE e.series
    <3>1. NewZone(o, e) = {e.zone}
      BY <2>5 DEF NewZone
    <3>2. f.allDay = t.allDay /\ f.start = t.start /\ f.end = t.end /\ f.zone = e.zone /\ f.live /\ f.series
      BY <1>2, <1>3, <2>2, <2>3, <2>5, <3>1
    <3>3. Given(start) \/ Given(end)
      BY <1>9, <2>1, <2>5, <1>3, <1>7
    <3>4. SeriesAsAsked(o, e, f)
      <4> HIDE DEF e, f, o
      <4> QED
        BY <1>2, <1>3, <2>1, <2>4, <2>5, <3>2, <3>3, SeriesIs DEF start, end
    <3> QED
      BY <1>2, <1>4, <2>4, <2>5, <3>2, <3>4
  <2>6. CASE ~e.series
    <3>1. f.allDay = t.allDay /\ f.start = t.start /\ f.end = t.end /\ f.live /\ ~f.series
      BY <1>2, <2>2, <2>3, <2>6
    <3>2. SingleAsAsked(o, e, t)
      <4>1. CASE toAllDay
        BY <1>2, <2>1, <2>6, <4>1, AllDayIs DEF toAllDay
      <4>2. CASE ~toAllDay
        <5>1. t = TimedTimes(e, start, end, ReadIn(o))
          BY <2>1, <2>6, <4>2
        <5>2. Given(start) \/ Given(end)
          <6>1. ~Given(start) /\ ~Given(end) => e.allDay
            BY <1>3, <1>7, <1>9, <4>2
          <6>2. ~Given(start) /\ e.allDay => t = Reason
            BY <5>1 DEF TimedTimes
          <6> QED
            BY <1>6, <2>1, <6>1, <6>2
        <5> HIDE DEF e, o
        <5> QED
          BY <1>2, <2>1, <2>4, <4>2, <5>1, <5>2, TimedIs DEF toAllDay, start, end
      <4> QED
        BY <4>1, <4>2
    <3>3. SingleAsAsked(o, e, f)
      <4>1. Across(ReadIn(o), f) <=> Across(ReadIn(o), t)
        BY <3>1 DEF Across
      <4> HIDE DEF e, f, o
      <4> QED
        BY <3>1, <3>2, <4>1 DEF SingleAsAsked
    <3> QED
      BY <1>2, <1>4, <2>4, <3>1, <3>3
  <2> QED
    BY <2>5, <2>6
<1> QED
  BY <1>8, <1>9

\* An update that answers "success" and that nothing was changed under has
\* changed the event, or the series, that it was asked for, a series only if all
\* of it was meant, and has left it there, ending after it begins.  Each time or
\* day that was given is the event's, and what was not given stayed, as
\* SingleAsAsked and SeriesAsAsked say: whatever zones, values and events there
\* are, a series in a zone of its own among them.
THEOREM UpdatesWhole == Spec => UpdatesAsAsked
<1> DEFINE A(r) ==
           LET o == order[r]
               i == target[r]
               e == event[i]
               f == event'[i]
           IN /\ i = o.id \/ (o.all /\ event[o.id].of = {i})
              /\ f.series => o.all
              /\ f.live
              /\ f.start < f.end
              /\ IF f.series THEN SeriesAsAsked(o, e, f) ELSE SingleAsAsked(o, e, f)
<1>1. ASSUME WInv, [Next]_vars, NEW r \in Run \ raced, pc[r] = "write", answer'[r] = "success" PROVE A(r)
  <2>1. SInv
    BY <1>1 DEF WInv
  <2>2. Write(r)
    BY <1>1, <2>1, SuccessIsWrite
  <2> QED
    BY <1>1, <2>2, UpdateIsWhole
<1>2. WInv /\ [Next]_vars => [\A r \in Run \ raced : pc[r] = "write" /\ answer'[r] = "success" => A(r)]_vars
  BY <1>1
<1>3. UpdatesAsAsked <=> [][\A r \in Run \ raced : pc[r] = "write" /\ answer'[r] = "success" => A(r)]_vars
  BY DEF UpdatesAsAsked
<1> HIDE DEF A
<1> QED
  BY InitWInv, StepWInv, <1>2, <1>3, PTL DEF Spec

=============================================================================
