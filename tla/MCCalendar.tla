------------------------------ MODULE MCCalendar ------------------------------
(* Instances of CalendarEvents: days of four units, a clock that is put       *)
(* forward on day 1, one event, and a series from day 0 on with an occurrence.*)
(* The series is kept in a zone of its own, whose clock is put forward later. *)
EXTENDS CalendarEvents

Summer == [at |-> 5, before |-> 0, after |-> 1]

Abroad == [at |-> 6, before |-> 2, after |-> 3]

Single(start, end) ==
    [live |-> TRUE, series |-> FALSE, of |-> {}, n |-> 0, allDay |-> FALSE,
     start |-> start, end |-> end, zone |-> Summer]

Series == [Single(1, 2) EXCEPT !.series = TRUE, !.zone = Abroad]

\* The occurrence on day 2.
Second == [Single(8, 9) EXCEPT !.of = {1}, !.n = 2, !.zone = Abroad]

Events == (1 :> Series) @@ (2 :> Second) @@ (3 :> Single(9, 11))

\* The week of today ends with day 2.
Mon == -4

Nothing == [kind |-> "absent"]

Day(d) == [kind |-> "day", wall |-> d * DayLen]

Naive(w) == [kind |-> "naive", wall |-> w]

Aware(w, offset) == [kind |-> "aware", wall |-> w, offset |-> offset]

Update(i, all, start, end, allDay, zone, other) ==
    [job |-> "update", id |-> i, all |-> all, start |-> start, end |-> end,
     allDay |-> allDay, zone |-> zone, other |-> other]

Delete(i, all) ==
    [Update(i, all, Nothing, Nothing, {}, {}, FALSE) EXCEPT !.job = "delete"]

Find(period, start, end, limit) ==
    [job |-> "find", period |-> period, start |-> start, end |-> end, limit |-> limit]

Fix == [at |-> 0, before |-> 3, after |-> 3]

Updates ==
    { Update(3, FALSE, Naive(4), Nothing, {}, {}, FALSE),
      Update(3, FALSE, Naive(5), Nothing, {}, {}, FALSE),
      Update(3, TRUE, Aware(6, 1), Nothing, {}, {}, TRUE),
      Update(3, FALSE, Nothing, Naive(15), {}, {Fix}, FALSE),
      Update(3, FALSE, Nothing, Nothing, {TRUE}, {Fix}, FALSE),
      Update(3, FALSE, Day(1), Aware(15, -1), {TRUE}, {}, FALSE),
      Update(3, FALSE, Nothing, Nothing, {}, {}, TRUE),
      Update(3, FALSE, Day(1), Nothing, {}, {}, FALSE),
      Update(2, TRUE, Aware(11, 1), Nothing, {}, {}, FALSE),
      Update(2, TRUE, Nothing, Naive(9), {}, {}, FALSE),
      Update(2, TRUE, Naive(4), Aware(8, 2), {}, {}, FALSE),
      Update(2, TRUE, Naive(2), Naive(4), {}, {}, FALSE),
      Update(2, FALSE, Naive(14), Naive(15), {}, {}, FALSE),
      Update(1, FALSE, Naive(14), Nothing, {}, {}, FALSE) }

Others ==
    { Delete(2, FALSE), Delete(2, TRUE), Delete(3, FALSE), Delete(1, FALSE),
      Find("today", Nothing, Nothing, 2),
      Find("tomorrow", Nothing, Nothing, 2),
      Find("this_week", Nothing, Nothing, 2),
      Find("next_7_days", Nothing, Nothing, 2),
      Find("none", Nothing, Nothing, 1),
      Find("none", Naive(3), Naive(3), 2),
      Find("none", Day(1), Aware(12, 1), 2) }

\* Two runs, which are asked for anything.
Anything == [r \in Run |-> Updates \cup Others]

=============================================================================
