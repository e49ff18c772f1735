----------------------------- MODULE DonorStreaks -----------------------------
(***************************************************************************)
(* A donor's monthly streak: the engine that computes it from the          *)
(* confirmed donations, the service that caches it in donor_streaks and    *)
(* unlocks rewards, and the listener that schedules the service when a     *)
(* donation is confirmed.                                                  *)
(*                                                                         *)
(* The listener runs when a donation is flushed, the task it schedules has *)
(* a session of its own: it may read before the donation is committed, or  *)
(* after it was rolled back, and overlaps with other tasks of the donor    *)
(* and with a recomputation the donor asks for.  One donor is modelled;    *)
(* rows of different donors never meet.                                    *)
(***************************************************************************)
EXTENDS Integers, FiniteSets, Sequences, FiniteSetsExt

CONSTANTS
    Donations,    \* bound: the donations made
    FirstMonth,   \* months since the year 0, for the clock
    LastMonth,    \* bound of the clock
    Thresholds,   \* TIER_THRESHOLDS, spark to inferno
    Tasks,        \* bound: recomputations at the same time
    MaxFaults,    \* bound: transactions rolled back and tasks that raise
    None          \* no row, no month, no task

ASSUME StreakAssumption ==
    /\ FirstMonth \in Nat /\ LastMonth \in Nat /\ FirstMonth <= LastMonth
    /\ Thresholds \in Seq(Nat \ {0})
    /\ \A i, j \in DOMAIN Thresholds : i < j => Thresholds[i] < Thresholds[j]
    /\ IsFiniteSet(Donations)
    /\ MaxFaults \in Nat

\* The columns of donor_streaks; months are numbered from 1 in a date.
Streaks == [current : Nat, longest : Nat, last : {None} \cup [year : Nat, month : 1 .. 12],
            total : Nat, tier : Nat]

ASSUME RowAssumption == None \notin Streaks

VARIABLES
    now,         \* the month
    made,        \* per donation: the month of created_at
    donation,    \* per donation: the stage of its row
    row,         \* the donor's row in donor_streaks
    rewards,     \* the tiers in streak_rewards
    task,        \* what each recomputation is doing
    faults

vars == <<now, made, donation, row, rewards, task, faults>>

-----------------------------------------------------------------------------
(* The engine. *)

Date(n) == [year |-> n \div 12, month |-> (n % 12) + 1]

PrevMonth(d) == IF d.month = 1 THEN [year |-> d.year - 1, month |-> 12]
                ELSE [d EXCEPT !.month = @ - 1]

\* The year is forgotten: no action uses this.
MonthsApart(later, earlier) == later.month - earlier.month

MonthsBetween(later, earlier) ==
    (later.year - earlier.year) * 12 + (later.month - earlier.month)

Before(d, e) == MonthsBetween(e, d) > 0

\* The earliest first, each once.
Sorted(dates) ==
    CHOOSE months \in [1 .. Cardinality(dates) -> dates] :
        \A i, j \in DOMAIN months : i < j => Before(months[i], months[j])

\* The run of consecutive months that ends at each place of the sorted list.
Runs(months) ==
    LET run[i \in DOMAIN months] ==
            IF i > 1 /\ MonthsBetween(months[i], months[i - 1]) = 1
            THEN run[i - 1] + 1 ELSE 1
    IN run

\* The second loop: from the last month backwards, until one is missing.
CurrentRun(months) ==
    LET n == Len(months)
        unbroken(k) == \A i \in n - k + 1 .. n - 1 : months[i] = PrevMonth(months[i + 1])
    IN Max({k \in 1 .. n : unbroken(k)})

TierForStreak(n) == Max({0} \cup {i \in DOMAIN Thresholds : n >= Thresholds[i]})

Streak(current, longest, last, total) ==
    [current |-> current, longest |-> longest, last |-> last,
     total |-> total, tier |-> TierForStreak(current)]

ComputeStreak(ds) ==
    LET months == Sorted({Date(made[d]) : d \in ds})
        run    == Runs(months)
    IN IF ds = {} THEN Streak(0, 0, None, 0)
       ELSE Streak(CurrentRun(months), Max({run[i] : i \in DOMAIN months}),
                   months[Len(months)], Cardinality(ds))

-----------------------------------------------------------------------------
(* Donations, as create_donation makes and confirms them.                  *)
(* "flushed": inserted as confirmed; "confirming": updated to confirmed;   *)
(* neither committed yet.                                                  *)

Stages    == {"absent", "flushed", "unconfirmed", "confirming", "confirmed"}
Confirmed == {d \in Donations : donation[d] = "confirmed"}

Init ==
    /\ now = FirstMonth
    /\ made = [d \in Donations |-> None]
    /\ donation = [d \in Donations |-> "absent"]
    /\ row = None
    /\ rewards = {}
    /\ task = [t \in Tasks |-> None]
    /\ faults = 0

\* No task lives for a month.
NextMonth ==
    /\ now < LastMonth
    /\ \A t \in Tasks : task[t] # None => task[t].month = now
    /\ \A d \in Donations : donation[d] \in {"flushed", "confirming"} => made[d] = now
    /\ now' = now + 1
    /\ UNCHANGED <<made, donation, row, rewards, task, faults>>

CreateTask(t) ==
    /\ task[t] = None
    /\ task' = [task EXCEPT ![t] = [step |-> "scheduled", month |-> now]]

\* With spend_balance a donation is inserted as confirmed, and after_insert
\* schedules a recomputation.
InsertConfirmed(d, t) ==
    /\ donation[d] = "absent"
    /\ donation' = [donation EXCEPT ![d] = "flushed"]
    /\ made' = [made EXCEPT ![d] = now]
    /\ CreateTask(t)
    /\ UNCHANGED <<now, row, rewards, faults>>

InsertUnconfirmed(d) ==
    /\ donation[d] = "absent"
    /\ donation' = [donation EXCEPT ![d] = "unconfirmed"]
    /\ made' = [made EXCEPT ![d] = now]
    /\ UNCHANGED <<now, row, rewards, task, faults>>

\* In the same request: Stellar has the payment, and after_update sees
\* False -> True.
FlushConfirmation(d, t) ==
    /\ donation[d] = "unconfirmed"
    /\ made[d] = now
    /\ donation' = [donation EXCEPT ![d] = "confirming"]
    /\ CreateTask(t)
    /\ UNCHANGED <<now, made, row, rewards, faults>>

Commit(d) ==
    /\ donation[d] \in {"flushed", "confirming"}
    /\ donation' = [donation EXCEPT ![d] = "confirmed"]
    /\ UNCHANGED <<now, made, row, rewards, task, faults>>

\* The task that was scheduled runs all the same.
Rollback(d) ==
    /\ donation[d] \in {"flushed", "confirming"}
    /\ faults < MaxFaults
    /\ faults' = faults + 1
    /\ donation' = [donation EXCEPT ![d] = IF @ = "flushed" THEN "absent" ELSE "unconfirmed"]
    /\ made' = IF donation[d] = "flushed" THEN [made EXCEPT ![d] = None] ELSE made
    /\ UNCHANGED <<now, row, rewards, task>>

-----------------------------------------------------------------------------
(* The service: recompute. *)

\* The donor asks for it, or looks at a streak that has no row yet.
RequestRecompute(t) ==
    /\ CreateTask(t)
    /\ UNCHANGED <<now, made, donation, row, rewards, faults>>

At(t, step) == task[t] # None /\ task[t].step = step

\* A read that sees what is not committed: no action uses this.
SeenWithFlushed == {d \in Donations : donation[d] \in {"flushed", "confirming", "confirmed"}}

\* Its session sees what is committed.
Seen == Confirmed

\* alone: no other recomputation has written since this one read.
ReadDonations(t) ==
    /\ At(t, "scheduled")
    /\ task' = [task EXCEPT ![t] = [step |-> "computed", month |-> @.month,
                                    seen |-> Seen, state |-> ComputeStreak(Seen),
                                    alone |-> TRUE]]
    /\ UNCHANGED <<now, made, donation, row, rewards, faults>>

ReadRow(t) ==
    /\ At(t, "computed")
    /\ task' = [task EXCEPT ![t] = [step |-> "loaded", month |-> @.month,
                                    seen |-> @.seen, state |-> @.state,
                                    alone |-> @.alone, loaded |-> row]]
    /\ UNCHANGED <<now, made, donation, row, rewards, faults>>

PreviousTier(k)    == IF k.loaded = None THEN 0 ELSE k.loaded.tier
PreviousLongest(k) == IF k.loaded = None THEN 0 ELSE k.loaded.longest

\* What the columns are set to.
Assigned(k) == [k.state EXCEPT !.longest = Max({@, PreviousLongest(k)})]

\* Only columns that differ from what was loaded are in the UPDATE.
Written(k) ==
    IF k.loaded = None THEN Assigned(k)
    ELSE [c \in DOMAIN row |->
             IF Assigned(k)[c] # k.loaded[c] THEN Assigned(k)[c] ELSE row[c]]

Unlocked(k) ==
    {i \in DOMAIN Thresholds : PreviousTier(k) < i /\ i <= k.state.tier}

\* user_id is unique: of two tasks that found no row, one can insert it.
WriteRow(t) ==
    /\ At(t, "loaded")
    /\ task[t].loaded = None => row = None
    /\ row' = Written(task[t])
    /\ rewards' = rewards \cup Unlocked(task[t])
    /\ task' = [u \in Tasks |->
                   IF u = t THEN None
                   ELSE IF At(u, "computed") \/ At(u, "loaded")
                   THEN [task[u] EXCEPT !.alone = FALSE]
                   ELSE task[u]]
    /\ UNCHANGED <<now, made, donation, faults>>

InsertFails(t) ==
    /\ At(t, "loaded")
    /\ task[t].loaded = None
    /\ row # None
    /\ task' = [task EXCEPT ![t] = None]
    /\ UNCHANGED <<now, made, donation, row, rewards, faults>>

\* Logged, and not tried again.
Raise(t) ==
    /\ task[t] # None
    /\ faults < MaxFaults
    /\ faults' = faults + 1
    /\ task' = [task EXCEPT ![t] = None]
    /\ UNCHANGED <<now, made, donation, row, rewards>>

-----------------------------------------------------------------------------

Next ==
    \/ NextMonth
    \/ \E d \in Donations :
          \/ \E t \in Tasks : InsertConfirmed(d, t) \/ FlushConfirmation(d, t)
          \/ InsertUnconfirmed(d) \/ Commit(d) \/ Rollback(d)
    \/ \E t \in Tasks :
          \/ RequestRecompute(t)
          \/ ReadDonations(t) \/ ReadRow(t) \/ WriteRow(t) \/ InsertFails(t)
          \/ Raise(t)

Spec == Init /\ [][Next]_vars

-----------------------------------------------------------------------------
(* What a streak is, over the months as numbers. *)

MonthsOf(ds) == {made[d] : d \in ds}

Spans(M) == {k \in 1 .. Cardinality(M) : \E m \in M : m .. m + k - 1 \subseteq M}

LongestSpan(M) == Max({0} \cup Spans(M))

\* "the longest run of consecutive months ending at the most recent donation
\* month" (engine.py).
LatestSpan(M) == Max({0} \cup {k \in Spans(M) : Max(M) - k + 1 .. Max(M) \subseteq M})

\* The columns a donor with these donations should have.
Exact(r, ds) ==
    LET M == MonthsOf(ds) IN
    /\ r.longest = LongestSpan(M)
    /\ r.current = LatestSpan(M)
    /\ r.last = (IF M = {} THEN None ELSE Date(Max(M)))
    /\ r.total = Cardinality(ds)
    /\ \A i \in DOMAIN Thresholds : r.tier >= i <=> r.current >= Thresholds[i]

-----------------------------------------------------------------------------
(* Properties. *)

Recomputations ==
    [step : {"scheduled"}, month : Nat] \cup
    [step : {"computed"}, month : Nat, seen : SUBSET Donations, state : Streaks,
     alone : BOOLEAN] \cup
    [step : {"loaded"}, month : Nat, seen : SUBSET Donations, state : Streaks,
     alone : BOOLEAN, loaded : Streaks \cup {None}]

\* Every part of the state has its declared shape, and a donation that has been
\* inserted has a month.
TypeOK ==
    /\ now \in FirstMonth .. LastMonth
    /\ made \in [Donations -> Nat \cup {None}]
    /\ donation \in [Donations -> Stages]
    /\ \A d \in Donations : donation[d] # "absent" => made[d] \in Nat
    /\ row \in Streaks \cup {None}
    /\ rewards \subseteq DOMAIN Thresholds
    /\ task \in [Tasks -> Recomputations \cup {None}]
    /\ faults \in 0 .. MaxFaults

\* A recomputation during which no other one wrote leaves exactly the streak
\* of the donations it read: whatever months they were made in, across the
\* turn of the year, over gaps, and whatever row was there before.
LoneRecomputeIsExact ==
    [][\A t \in Tasks :
          WriteRow(t) /\ task[t].alone => Exact(row', task[t].seen)]_vars

\* No tier is unlocked and no longest streak is shown that committed donations
\* do not bear out: not by a task that reads before a commit or after a
\* rollback, and not by tasks that overlap and mix the columns they write.
NothingUnearned ==
    LET longest == LongestSpan(MonthsOf(Confirmed)) IN
    /\ \A i \in rewards : longest >= Thresholds[i]
    /\ row # None => row.longest <= longest /\ row.total <= Cardinality(Confirmed)

\* "so streak state stays current" (listener.py): when nothing is on its way
\* and nothing went wrong, a donor who has confirmed donations has their streak.
StaysCurrent ==
    (/\ faults = 0
     /\ \A t \in Tasks : task[t] = None
     /\ \A d \in Donations : donation[d] \notin {"flushed", "confirming"})
    => \/ Confirmed = {}
       \/ row # None /\ Exact(row, Confirmed)
=============================================================================
