------------------------------- MODULE Dispatch -------------------------------
(***************************************************************************)
(* The hourly e-mail dispatcher: which schedules are due, the e-mail in    *)
(* chunks of recipients, and the update that records the run.  A request   *)
(* whose answer is lost throws out of the loop over the schedules, and the *)
(* platform's time limit may end a run anywhere.                           *)
(***************************************************************************)
EXTENDS Integers, FiniteSets

CONSTANTS Once, Daily, Weekly,   \* the email_schedules, by frequency
          Chunks,                \* the groups of recipients of an e-mail
          SendHour, RunAt,       \* when a schedule is to be sent
          HoursPerDay, MaxTime,  \* the ticks of a day, and the last tick
          NotRun                 \* last_run_at is null

\* What the constants have to be: the modules that use this one assume it.
DispatchAssumption ==
  /\ HoursPerDay \in Nat \ {0} /\ MaxTime \in Nat /\ NotRun \notin Nat
  /\ SendHour \in 0..HoursPerDay - 1 /\ RunAt \in Nat
  /\ Once \cap Daily = {} /\ Once \cap Weekly = {} /\ Daily \cap Weekly = {}
  /\ {"idle", "next"} \cap (Once \cup Daily \cup Weekly) = {}

VARIABLES lastRun,  \* last_run_at of each schedule
          clock,    \* hours since the first tick
          tick,     \* the run in flight: the schedules left, the chunks left
          copies    \* of this period's e-mail to a chunk; 2 stands for more

dispatchVars == <<lastRun, clock, tick, copies>>

Schedules == Once \cup Daily \cup Weekly
Times     == 0..MaxTime
NoTick    == [at |-> "idle", due |-> {}, chunks |-> {}]

DispatchTypeOK ==
  /\ lastRun \in [Schedules -> Times \cup {NotRun}]
  /\ clock \in Times
  /\ tick \in [at : {"idle", "next"} \cup Schedules, due : SUBSET Schedules, chunks : SUBSET Chunks]
  /\ copies \in [Schedules \X Chunks -> 0..2]

DispatchInit ==
  /\ lastRun = [s \in Schedules |-> NotRun] /\ clock = 0 /\ tick = NoTick
  /\ copies = [m \in Schedules \X Chunks |-> 0]

-----------------------------------------------------------------------------

Day(t)  == t \div HoursPerDay
Hour(t) == t % HoursPerDay

\* Wrong: a daily e-mail is due at any hour of a day it was not recorded on.
isDueAnyHour(s) ==
  CASE s \in Once   -> clock >= RunAt /\ lastRun[s] = NotRun
    [] s \in Daily  -> lastRun[s] = NotRun \/ Day(lastRun[s]) # Day(clock)
    [] s \in Weekly -> Day(clock) % 7 = 0 /\ (lastRun[s] = NotRun \/ clock - lastRun[s] > 6 * HoursPerDay)

isDue(s) ==
  CASE s \in Once   -> clock >= RunAt /\ lastRun[s] = NotRun
    [] s \in Daily  -> Hour(clock) = SendHour /\ (lastRun[s] = NotRun \/ Day(lastRun[s]) # Day(clock))
    [] s \in Weekly -> /\ Hour(clock) = SendHour /\ Day(clock) % 7 = 0
                       /\ lastRun[s] = NotRun \/ clock - lastRun[s] > 6 * HoursPerDay

\* The period an e-mail of the schedule belongs to.
Period(s, t) == CASE s \in Once -> 0 [] s \in Daily -> Day(t) [] s \in Weekly -> Day(t) \div 7

Delivered(m) == [copies EXCEPT ![m] = IF @ = 0 THEN 1 ELSE 2]

\* The hour goes by with the e-mails in c delivered.
NextHour(c) ==
  /\ clock < MaxTime /\ clock' = clock + 1
  /\ copies' = [m \in DOMAIN c |-> IF Period(m[1], clock + 1) = Period(m[1], clock) THEN c[m] ELSE 0]

\* pg_cron posts once an hour, if it is up, and a run is over within the hour.
HourPasses == tick = NoTick /\ NextHour(copies) /\ UNCHANGED <<lastRun, tick>>

StartTick ==
  /\ tick = NoTick
  /\ {s \in Schedules : isDue(s)} # {}
  /\ tick' = [NoTick EXCEPT !.at = "next", !.due = {s \in Schedules : isDue(s)}]
  /\ UNCHANGED <<lastRun, clock, copies>>

NextSchedule(s) ==
  /\ tick.at = "next" /\ s \in tick.due
  /\ tick' = [at |-> s, due |-> tick.due \ {s}, chunks |-> Chunks]
  /\ UNCHANGED <<lastRun, clock, copies>>

\* Resend accepts a chunk or refuses it.
SendChunk(k) ==
  /\ tick.at \in Schedules /\ k \in tick.chunks
  /\ tick' = [tick EXCEPT !.chunks = @ \ {k}]
  /\ copies' \in {copies, Delivered(<<tick.at, k>>)}
  /\ UNCHANGED <<lastRun, clock>>

\* The run is recorded whether or not the e-mail went out.
RecordRun ==
  /\ tick.at \in Schedules /\ tick.chunks = {}
  /\ lastRun' = [lastRun EXCEPT ![tick.at] = clock]
  /\ tick' = [tick EXCEPT !.at = "next"]
  /\ UNCHANGED <<clock, copies>>

\* The run is over, or dies, and then what it was sending may still arrive.
TickEnds ==
  /\ tick # NoTick
  /\ tick' = NoTick
  /\ \E c \in {copies} \cup {Delivered(<<tick.at, k>>) : k \in tick.chunks} : NextHour(c)
  /\ UNCHANGED lastRun

DispatchNext ==
  \/ HourPasses \/ StartTick \/ RecordRun \/ TickEnds
  \/ \E s \in Schedules : NextSchedule(s)
  \/ \E k \in Chunks : SendChunk(k)

DispatchSpec == DispatchInit /\ [][DispatchNext]_dispatchVars

-----------------------------------------------------------------------------
(* Properties *)

\* Nobody gets a daily e-mail twice a day or a weekly one twice a week, though
\* a run may die between an e-mail and the update that records it.
RecurringOncePerPeriod ==
  \A m \in DOMAIN copies : m[1] \notin Once => copies[m] <= 1

\* Nobody gets an e-mail that is scheduled once a second time ("'once'
\* schedules fire exactly once").  The code breaks it: a run that dies before
\* the update leaves the schedule due at the next hour.
OnceFiresOnce ==
  \A m \in DOMAIN copies : m[1] \in Once => copies[m] <= 1
=============================================================================
