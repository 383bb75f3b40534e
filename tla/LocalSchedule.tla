--------------------------- MODULE LocalSchedule ---------------------------
(***************************************************************************)
(* Reservations and the schedule of AbstractLocalProcessor                 *)
(* (cirq_google/engine/abstract_local_processor.py).  Times are numbers    *)
(* 1..MaxTime; a time slot without a start or an end starts at 0 or ends   *)
(* at MaxTime + 1, before and after every time a reservation can have.     *)
(***************************************************************************)
EXTENDS Naturals, Sequences, SequencesExt

CONSTANTS
    MaxTime,           \* latest time of a reservation
    MaxReservations,   \* bound on calls of create_reservation
    MaxUpdates,        \* bound on calls of update_reservation
    InitialSchedules   \* schedules the processor may be created with

Types == {"UNALLOCATED", "MAINTENANCE", "RESERVATION"}
Slots == [start : 0..MaxTime, end : 1..(MaxTime + 1), type : Types]
Slot(s, e, t) == [start |-> s, end |-> e, type |-> t]

\* What __init__ accepts: it sorts the slots and compares each with the next one.
ValidSchedule(sched) ==
    /\ \A i, j \in DOMAIN sched : i < j => sched[i].start <= sched[j].start
    /\ \A i \in 1..(Len(sched) - 1) : sched[i].end <= sched[i + 1].start

ASSUME ScheduleAssumption ==
    /\ MaxTime \in Nat /\ MaxReservations \in Nat /\ MaxUpdates \in Nat
    /\ \A s \in InitialSchedules : s \in Seq(Slots) /\ ValidSchedule(s)

VARIABLES
    schedule,      \* _schedule
    reservations,  \* _reservations: id -> [start, end]
    counter,       \* _resource_id_counter
    first,         \* the schedule the processor was created with
    booked,        \* every reservation ever made, as made
    updates        \* calls of update_reservation

scheduleVars == <<schedule, reservations, counter, first, booked, updates>>

ScheduleInit ==
    /\ first \in InitialSchedules
    /\ schedule = first
    /\ reservations = << >>
    /\ counter = 0
    /\ booked = {}
    /\ updates = 0

\* Mutant: only the slot the reservation starts in is looked at.
MutIsAvailable(r) ==
    \A i \in DOMAIN schedule :
        \/ schedule[i].type = "UNALLOCATED"
        \/ schedule[i].end <= r.start
        \/ schedule[i].start > r.start

\* _is_available: slots that are not UNALLOCATED must end before or start after.
IsAvailable(r) ==
    \A i \in DOMAIN schedule :
        \/ schedule[i].type = "UNALLOCATED"
        \/ schedule[i].end <= r.start
        \/ schedule[i].start >= r.end

\* Slot t does not end before the slot r and does not start after it.
Meets(t, r) == ~(t.end <= r.start \/ t.start >= r.end)

\* Mutant: a slot that is split loses its end.
MutPieces(t, r, inserted) ==
    IF ~Meets(t, r) THEN <<t>>
    ELSE LET self == IF inserted THEN << >> ELSE <<r>>
             rest == IF t.end > r.end THEN <<[t EXCEPT !.start = r.end]>> ELSE << >>
         IN  IF r.start <= t.start THEN self \o rest
                                   ELSE <<[t EXCEPT !.end = r.start], r>>

\* Mutant: the reservation is put behind the rest of the slot it takes from.
MutOrderPieces(t, r, inserted) ==
    IF ~Meets(t, r) THEN <<t>>
    ELSE LET self == IF inserted THEN << >> ELSE <<r>>
             rest == IF t.end > r.end THEN <<[t EXCEPT !.start = r.end]>> ELSE << >>
         IN  IF r.start <= t.start THEN rest \o self
                                   ELSE <<[t EXCEPT !.end = r.start], r>> \o rest

\* What becomes of slot t when the slot r is inserted, r itself included unless
\* it is there already.
Pieces(t, r, inserted) ==
    IF ~Meets(t, r) THEN <<t>>
    ELSE LET self == IF inserted THEN << >> ELSE <<r>>
             rest == IF t.end > r.end THEN <<[t EXCEPT !.start = r.end]>> ELSE << >>
         IN  IF r.start <= t.start
             THEN self \o rest
             ELSE <<[t EXCEPT !.end = r.start], r>> \o rest

\* new_schedule of _insert_reservation_into after each turn of its loop; the slot
\* was inserted when an earlier slot met it.
NewSchedule(sched, r) ==
    LET new[n \in 0..Len(sched)] ==
            IF n = 0 THEN << >>
            ELSE new[n - 1] \o Pieces(sched[n], r, \E k \in 1..(n - 1) : Meets(sched[k], r))
    IN  new

\* _insert_reservation_into
InsertInto(sched, r) ==
    LET new == NewSchedule(sched, r)[Len(sched)]
    IN  IF \E k \in DOMAIN sched : Meets(sched[k], r) THEN new ELSE Append(new, r)

\* create_reservation, for a start and an end that are in order; the id is
\* taken before the slot is found not to be available.
CreateReservation(s, e) ==
    LET r == Slot(s, e, "RESERVATION")
    IN  /\ counter < MaxReservations
        /\ s <= e
        /\ counter' = counter + 1
        /\ IF IsAvailable(r)
           THEN /\ reservations' = [i \in DOMAIN reservations \cup {counter + 1} |->
                                       IF i = counter + 1 THEN [start |-> s, end |-> e]
                                                          ELSE reservations[i]]
                /\ schedule' = InsertInto(schedule, r)
                /\ booked' = booked \cup {[id |-> counter + 1, start |-> s, end |-> e]}
           ELSE UNCHANGED <<reservations, schedule, booked>>
        /\ UNCHANGED <<first, updates>>

\* remove_reservation: the time slot stays.
RemoveReservation(id) ==
    /\ id \in DOMAIN reservations
    /\ reservations' = [i \in DOMAIN reservations \ {id} |-> reservations[i]]
    /\ UNCHANGED <<schedule, counter, first, booked, updates>>

\* update_reservation: start, end or both of the reservation, not of its slot,
\* and without a look at their order.
UpdateReservation(id, s, e) ==
    /\ updates < MaxUpdates
    /\ id \in DOMAIN reservations
    /\ reservations' = [reservations EXCEPT ![id] = [start |-> s, end |-> e]]
    /\ updates' = updates + 1
    /\ UNCHANGED <<schedule, counter, first, booked>>

ScheduleNext ==
    \/ \E s, e \in 1..MaxTime : CreateReservation(s, e)
    \/ \E id \in DOMAIN reservations :
          \/ RemoveReservation(id)
          \/ \E s \in 1..MaxTime : UpdateReservation(id, s, reservations[id].end)
          \/ \E e \in 1..MaxTime : UpdateReservation(id, reservations[id].start, e)

ScheduleSpec == ScheduleInit /\ [][ScheduleNext]_scheduleVars

-----------------------------------------------------------------------------
(* Properties *)

ScheduleTypeOK ==
    /\ schedule \in Seq(Slots)
    /\ counter \in 0..MaxReservations
    /\ DOMAIN reservations \subseteq 1..counter
    /\ \A i \in DOMAIN reservations :
          reservations[i].start \in 1..MaxTime /\ reservations[i].end \in 1..MaxTime

Covers(t, u) == t.start <= u /\ u < t.end
TypeAt(sched, u) == {sched[i].type : i \in {i \in DOMAIN sched : Covers(sched[i], u)}}

CoversAllTime(sched) ==
    /\ Len(sched) > 0 /\ sched[1].start = 0 /\ sched[Len(sched)].end = MaxTime + 1
    /\ \A i \in 1..(Len(sched) - 1) : sched[i].end = sched[i + 1].start

\* Slots split, shortened and put in by _insert_reservation_into still say, for
\* every time, what the initial schedule and the reservations made since say: no
\* time is lost, covered twice or booked twice, and the slot of a reservation stays
\* whole.  A schedule that covers all time when the processor is created, the default
\* one in particular, stays in order of time, as the comment of that method has it.
\* Two things break the order: a gap in the schedule, and a reservation of no length
\* at the border of two slots; both are appended at the end.
ScheduleIsCalendar ==
    /\ \A u \in 0..MaxTime :
          /\ TypeAt(schedule, u) =
                IF \E b \in booked : Covers(b, u) THEN {"RESERVATION"} ELSE TypeAt(first, u)
          /\ \A i, j \in DOMAIN schedule :
                Covers(schedule[i], u) /\ Covers(schedule[j], u) => i = j
    /\ \A b \in booked : Slot(b.start, b.end, "RESERVATION") \in ToSet(schedule)
    /\ CoversAllTime(first) /\ (\A b \in booked : b.start < b.end) => CoversAllTime(schedule)
=============================================================================
