------------------------- MODULE AutomationScheduler -------------------------
(***************************************************************************)
(* One business's automation: the row of automation_settings, the owners   *)
(* who save it (services/automation_settings_service) and the workers that *)
(* poll for it (worker/scheduler).  The database is the queue: a worker    *)
(* reads the due row, checks the monthly ceiling, advances next_run_at if  *)
(* it is still the one it read, and only then starts a run.  Each of these *)
(* is a transaction of its own, and a save is a read and an upsert.        *)
(*                                                                         *)
(* A tick takes its `now` before it asks the database what is due, and the *)
(* database compares with its own clock: time may pass between the two.    *)
(***************************************************************************)
EXTENDS NextRun

CONSTANTS
    Workers,    \* scheduler processes: one ships, the claim is built for two
    Owners,     \* open settings pages
    Choices,    \* the cadences an owner may pick
    Days,       \* the weekdays
    Hours,      \* and the hours
    MaxTime,    \* bound: the last instant
    MaxLag,     \* bound: how old a tick's now, or a save's, may be at the database
    MaxTick,    \* bound: how long a tick may take to reach its claim
    MaxSaves,   \* bound: how often the settings are saved
    MaxDeaths   \* bound: how often a worker dies

ASSUME SchedulerAssumption ==
    /\ Choices \subseteq Cadences
    /\ Days \subseteq 0..(DaysPerWeek - 1)
    /\ Hours \subseteq 0..(HoursPerDay - 1)
    /\ {MaxTime, MaxLag, MaxTick, MaxSaves, MaxDeaths} \subseteq Nat

VARIABLES
    clock,      \* the instant it is
    settings,   \* the row of automation_settings
    worker,     \* where each worker is in its tick
    save,       \* the save each owner has under way
    claimed,    \* the slots claimed since an owner last stored them (auxiliary)
    previous,   \* the last slot claimed since the last save, or NULL (auxiliary)
    saves, deaths

vars == <<clock, settings, worker, save, claimed, previous, saves, deaths>>

Instants == 0..MaxTime

\* A slot may be computed to lie beyond the modelled time.
Slots == Nat \union {NULL}

AutomationSetting ==
    [mode : {"off", "scheduled_draft"},
     schedule : Schedules,
     paused : BOOLEAN,          \* paused_reason IS NOT NULL
     next_run_at : Slots,
     last_run_at : Instants \union {NULL}]

Stages == {"asleep", "due", "pausing", "allowed", "starting"}

Ticks == [stage : Stages, now : Instants, row : AutomationSetting]

Saves == [stage : {"none", "loaded"}, now : Instants, enabled : BOOLEAN,
          schedule : Schedules,
          paused : BOOLEAN, last_run_at : Instants \union {NULL}]   \* as it read them

\* Nobody has saved yet: there is no row, and these are the defaults.
Defaults ==
    [mode |-> "off",
     schedule |-> [cadence |-> "weekly", day |-> 0, hour |-> 0],
     paused |-> FALSE, next_run_at |-> NULL, last_run_at |-> NULL]

Asleep == [stage |-> "asleep", now |-> 0, row |-> Defaults]

NoSave == [stage |-> "none", now |-> 0, enabled |-> FALSE,
           schedule |-> Defaults.schedule, paused |-> FALSE, last_run_at |-> NULL]

-----------------------------------------------------------------------------
(* The owner.                                                               *)

\* save_automation up to its read of the row.
LoadSettings(o) ==
    /\ save[o].stage = "none"
    /\ saves < MaxSaves
    /\ saves' = saves + 1
    /\ \E enabled \in BOOLEAN, schedule \in [cadence : Choices, day : Days, hour : Hours] :
         save' = [save EXCEPT ![o] =
           [stage |-> "loaded", now |-> clock, enabled |-> enabled,
            schedule |-> schedule,
            paused |-> settings.paused, last_run_at |-> settings.last_run_at]]
    /\ UNCHANGED <<clock, settings, worker, claimed, previous, deaths>>

Stored(s, next_run_at) ==
    [settings EXCEPT
       !.mode = IF s.enabled THEN "scheduled_draft" ELSE "off",
       !.schedule = s.schedule,
       !.paused = ~s.enabled /\ s.paused,
       !.next_run_at = next_run_at]

\* Faulty variant: switching off trusts the mode alone.
UpsertKeepingSlot(o) ==
    LET s == save[o]
        next_run_at == compute_next_run(s.schedule, s.now, s.last_run_at)
    IN
    /\ s.stage = "loaded"
    /\ settings' = Stored(s, next_run_at)
    /\ claimed' = claimed \ {next_run_at}
    /\ previous' = NULL
    /\ save' = [save EXCEPT ![o] = NoSave]
    /\ UNCHANGED <<clock, worker, saves, deaths>>

\* Its upsert: every column but last_run_at, from the save's own now and read.
Upsert(o) ==
    LET s == save[o]
        next_run_at ==
            IF s.enabled
            THEN compute_next_run(s.schedule, s.now, s.last_run_at)
            ELSE NULL
    IN
    /\ s.stage = "loaded"
    /\ settings' = Stored(s, next_run_at)
    /\ claimed' = claimed \ {next_run_at}
    /\ previous' = NULL
    /\ save' = [save EXCEPT ![o] = NoSave]
    /\ UNCHANGED <<clock, worker, saves, deaths>>

-----------------------------------------------------------------------------
(* The worker.                                                              *)

\* What the worker read is of no further use.
To(w, stage) == worker' = [worker EXCEPT ![w] = [Asleep EXCEPT !.stage = stage]]

Sleep(w) == worker' = [worker EXCEPT ![w] = Asleep]

IsDue(row) ==
    /\ row.mode = "scheduled_draft"
    /\ ~row.paused
    /\ row.next_run_at # NULL
    /\ row.next_run_at <= clock

\* A tick takes its now, and due_automations() is asked on the database's
\* clock a moment later.  A tick that finds nothing due changes nothing.
ReadDue(w) ==
    /\ worker[w].stage = "asleep"
    /\ IsDue(settings)
    /\ \E now \in Instants :
         /\ now <= clock
         /\ clock <= now + MaxLag
         /\ worker' = [worker EXCEPT ![w] = [stage |-> "due", now |-> now, row |-> settings]]
    /\ UNCHANGED <<clock, settings, save, claimed, previous, saves, deaths>>

\* _pause_over_ceiling's read: the ledger may say either.
CheckCeiling(w) ==
    /\ worker[w].stage = "due"
    /\ \/ To(w, "pausing")
       \/ worker' = [worker EXCEPT ![w].stage = "allowed"]
    /\ UNCHANGED <<clock, settings, save, claimed, previous, saves, deaths>>

\* Faulty variant: the business is skipped and nothing says so.
PauseUnwritten(w) ==
    /\ worker[w].stage = "pausing"
    /\ Sleep(w)
    /\ UNCHANGED <<clock, settings, save, claimed, previous, saves, deaths>>

pause_automation(w) ==
    /\ worker[w].stage = "pausing"
    /\ settings' = [settings EXCEPT !.paused = TRUE]
    /\ Sleep(w)
    /\ UNCHANGED <<clock, save, claimed, previous, saves, deaths>>

Following(w) ==
    LET tick == worker[w]
    IN compute_next_run(tick.row.schedule, tick.now, tick.row.last_run_at)

\* The slot is written off for the worker whose clock had reached it.
Advance(w) ==
    LET tick == worker[w] IN
    /\ settings' = [settings EXCEPT !.next_run_at = Following(w), !.last_run_at = tick.now]
    /\ claimed' = IF tick.now >= tick.row.next_run_at
                  THEN claimed \union {tick.row.next_run_at} ELSE claimed
    /\ previous' = tick.row.next_run_at

\* Faulty variant: the claim does not compare with the slot that was read.
ClaimUnconditionally(w) ==
    /\ worker[w].stage = "allowed"
    /\ Advance(w)
    /\ To(w, "starting")
    /\ UNCHANGED <<clock, save, saves, deaths>>

\* Conditional on the slot that was read; nobody is told of a claim that lost.
Claim(w) ==
    /\ worker[w].stage = "allowed"
    /\ IF settings.next_run_at = worker[w].row.next_run_at
       THEN Advance(w) /\ To(w, "starting")
       ELSE Sleep(w) /\ UNCHANGED <<settings, claimed, previous>>
    /\ UNCHANGED <<clock, save, saves, deaths>>

\* The run is created and submitted, or one of the two fails and the slot is gone.
StartRun(w) ==
    /\ worker[w].stage = "starting"
    /\ Sleep(w)
    /\ UNCHANGED <<clock, settings, save, claimed, previous, saves, deaths>>

WorkerStep(w) ==
    \/ ReadDue(w)
    \/ CheckCeiling(w)
    \/ pause_automation(w)
    \/ Claim(w)
    \/ StartRun(w)

\* A database error ends the business's part of the tick, a crash the process:
\* either way the next tick starts over.
Die(w) ==
    /\ deaths < MaxDeaths
    /\ worker[w].stage # "asleep"
    /\ deaths' = deaths + 1
    /\ Sleep(w)
    /\ UNCHANGED <<clock, settings, save, claimed, previous, saves>>

-----------------------------------------------------------------------------

\* A save is one short transaction and does not outlast MaxLag; a tick with
\* many businesses before this one may last MaxTick.
Pass ==
    /\ clock < MaxTime
    /\ \A o \in Owners : save[o].stage = "loaded" => clock < save[o].now + MaxLag
    /\ \A w \in Workers : worker[w].stage \in {"due", "allowed"} => clock < worker[w].now + MaxTick
    /\ clock' = clock + 1
    /\ UNCHANGED <<settings, worker, save, claimed, previous, saves, deaths>>

\* The row an owner has just switched on, at instant 0.
SwitchedOn ==
    {[mode |-> "scheduled_draft", schedule |-> schedule, paused |-> FALSE,
      next_run_at |-> compute_next_run(schedule, 0, NULL), last_run_at |-> NULL] :
        schedule \in [cadence : Choices, day : Days, hour : Hours]}

Init ==
    /\ clock = 0
    /\ settings \in SwitchedOn
    /\ worker = [w \in Workers |-> Asleep]
    /\ save = [o \in Owners |-> NoSave]
    /\ claimed = {}
    /\ previous = NULL
    /\ saves = 0
    /\ deaths = 0

Next ==
    \/ \E o \in Owners : LoadSettings(o) \/ Upsert(o)
    \/ \E w \in Workers : WorkerStep(w) \/ Die(w)
    \/ Pass

Fairness == \A w \in Workers : WF_vars(WorkerStep(w))

Spec == Init /\ [][Next]_vars /\ Fairness

-----------------------------------------------------------------------------

(* The row and the ticks hold what the code can put there.                  *)
TypeOK ==
    /\ clock \in Instants
    /\ settings \in AutomationSetting
    /\ worker \in [Workers -> Ticks]
    /\ save \in [Owners -> Saves]
    /\ claimed \subseteq Nat
    /\ previous \in Slots
    /\ saves \in 0..MaxSaves
    /\ deaths \in 0..MaxDeaths
    /\ settings.mode = "off" => settings.next_run_at = NULL

(* next_run_at is a cache of the arithmetic: whatever saves and claims      *)
(* interleave, it is an instant of the weekday and hour the row holds.      *)
(* (automation_settings_service: "the two would disagree the first time an  *)
(* owner changed their cadence".)                                           *)
NextRunIsOnSchedule ==
    settings.next_run_at # NULL =>
        \E day \in (local_date(settings.next_run_at) - 1)..local_date(settings.next_run_at) :
            /\ day % DaysPerWeek = settings.schedule.day
            /\ settings.next_run_at = slot_utc(day, settings.schedule.hour)

Claims(w) == worker[w].stage = "allowed" /\ worker'[w].stage = "starting"

(* A worker claims nothing while the owner's switch is off, however long    *)
(* ago it read the row.  (automation_settings_service: "an owner who turns  *)
(* automation off has asked for nothing to happen".)                        *)
OffStopsClaims ==
    [][\A w \in Workers : Claims(w) => settings.mode = "scheduled_draft"]_vars

(* Workers whose clock has reached a slot claim it once between them,       *)
(* unless an owner stores it again.  (scheduler: "makes exactly one of them *)
(* win".)                                                                   *)
ReachedSlotIsClaimedOnce ==
    [][\A w \in Workers : Claims(w) => worker[w].row.next_run_at \notin claimed]_vars

(* A slot that falls due is claimed, put off by the owner, or paused: no    *)
(* death or lost race leaves it due for ever.  (scheduler: "a scheduler     *)
(* that misses a run is a silent outage".)                                  *)
DueIsHandled ==
    IsDue(settings) ~> ~IsDue(settings) \/ \E w \in Workers : worker[w].stage = "starting"

(* A slot is claimed once.  (scheduler: next_run_at "is advanced first".)   *)
SlotIsClaimedOnce ==
    [][\A w \in Workers : Claims(w) => worker[w].row.next_run_at # previous]_vars

(* Under a fortnightly schedule nobody edits, the slots claimed are a       *)
(* fortnight apart.  (_next_by_stride: "Anchor on the previous run so the   *)
(* parity of every other week survives".)                                   *)
FortnightsApart ==
    [][\A w \in Workers :
         /\ Claims(w)
         /\ previous # NULL
         /\ worker[w].row.schedule.cadence = "biweekly"
         /\ worker[w].row.next_run_at # previous
         => local_date(worker[w].row.next_run_at) - local_date(previous)
              >= 2 * DaysPerWeek]_vars

=============================================================================
