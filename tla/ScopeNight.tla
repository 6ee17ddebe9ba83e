----------------------------- MODULE ScopeNight -----------------------------
(***************************************************************************)
(* The all-night scheduler (server/scope_scheduler.py), the observer       *)
(* thread it shares with the user (server/scope_observe.py) and the scope  *)
(* service behind both.  A tick of the scheduler is a sequence of HTTP     *)
(* calls with decisions between them; the observer thread, the user, the   *)
(* sky and a restart of the server act between any two of them.            *)
(*                                                                         *)
(* Durations (skip a target, wait for the sky, a stalled frame count) are  *)
(* timers that run out at some point, and any tick may find the weather    *)
(* due.  Altitude, the moon and the list of targets come down to `good', *)
(* the listed targets that are usable now; which of them is the highest is *)
(* left open.  A scope service and a site are configured.  The state text  *)
(* shown to the user and the notices other than the weather alert are left *)
(* out.                                                                    *)
(***************************************************************************)
EXTENDS Naturals, FiniteSets

CONSTANTS
    Targets,        \* names of targets
    Texts,          \* texts of the errors of the service
    None,           \* no target, no error
    FramesPerRun, FailMin, ProbeFrames, ProbeMaxFailed,  \* scaled down
    MaxTroubles     \* calls that fail, observations the user posts, restarts

ASSUME FramesAssumption ==
    /\ ProbeFrames \in 1..FramesPerRun
    /\ FailMin \in 1..FramesPerRun
    /\ ProbeMaxFailed \in Nat

VARIABLES
    night,      \* the clock is inside the night window
    good,       \* listed targets that are high enough and far from the moon
    rain,       \* the forecast warns of rain or snow
    job,        \* the capture of the scope: running, goal, captured, failed
    open,       \* the barrel is open
    obs,        \* Observer.state
    enabled,    \* Scheduler.enabled, and the setting behind it
    pc,         \* where the tick of the scheduler is
    seen,       \* what the tick has read: the night, the last status
    parked,     \* Scheduler._parked
    handled,    \* Scheduler._handled_failure
    skyWait,    \* Scheduler._sky_wait_until: none, waiting, over
    skips,      \* Scheduler._skip, without the expired entries
    progress,   \* Scheduler._progress, `old' once STALL_S have passed
    alerted,    \* Scheduler._weather_alerted
    told,       \* history: the alert for the warning the checks see: none, sent, lost
    barged,     \* history: a POST observe was accepted during this tick
    troubles    \* calls that failed, observations of the user, restarts

skyVars == <<night, good, rain>>
scopeVars == <<job, open>>
planVars == <<parked, handled, skyWait, skips, progress>>
weatherVars == <<alerted, told>>
vars == <<skyVars, scopeVars, obs, enabled, pc, seen, planVars, weatherVars,
          barged, troubles>>

Idle == [running |-> FALSE, goal |-> 0, captured |-> 0, failed |-> 0]
Nothing == [night |-> FALSE, job |-> Idle]
Series(n) == [running |-> TRUE, goal |-> n, captured |-> 0, failed |-> 0]
NoProgress == [target |-> None, count |-> 0, old |-> FALSE]
NotObserving == [state |-> "idle", step |-> "none", target |-> None, error |-> None]

\* Most frames of a run are rejected, after a minimum sample.
failing(j) == j.captured >= FailMin /\ 2 * j.failed > j.captured

\* A probe passes when it stacked its frames.
ProbePasses(j) == j.captured >= ProbeFrames /\ j.failed <= ProbeMaxFailed

\* The frame count has not moved for STALL_S.
Stalled(target, count) ==
    progress.target = target /\ progress.count = count /\ progress.old

Note(target, count) ==
    IF progress.target = target /\ progress.count = count
      THEN progress
      ELSE [target |-> target, count |-> count, old |-> FALSE]

-----------------------------------------------------------------------------
(* The sky and the scope. *)

SkyTurns ==
    /\ \/ night' = ~night /\ UNCHANGED <<good, rain>>
       \/ \E t \in Targets :
            /\ good' = IF t \in good THEN good \ {t} ELSE good \union {t}
            /\ UNCHANGED <<night, rain>>
       \/ rain' = ~rain /\ UNCHANGED <<night, good>>
    /\ UNCHANGED <<scopeVars, obs, enabled, pc, seen, planVars, weatherVars,
                   barged, troubles>>

\* The scope takes a frame; the last one of the series ends the run.
NewFrame ==
    /\ job.running
    /\ LET last == job.captured + 1 = job.goal IN
         \E bad \in {0, 1} :
           job' = [job EXCEPT !.captured = @ + 1, !.failed = @ + bad,
                              !.running = ~last, !.goal = IF last THEN 0 ELSE @]
    /\ UNCHANGED <<skyVars, open, obs, enabled, pc, seen, planVars,
                   weatherVars, barged, troubles>>

Trouble == troubles < MaxTroubles /\ troubles' = troubles + 1
NoTrouble == UNCHANGED troubles

\* What a call does to the scope, in whose hands it is whether a run under
\* way is replaced or the call refused; a call that fails may have acted, when
\* only its answer was lost.
Serve(call) ==
    /\ job' = CASE call \in {"stop", "probe stop"} -> Idle
                 [] call = "probe start"           -> Series(ProbeFrames)
                 [] call = "starting capture"      -> Series(FramesPerRun)
                 [] OTHER                          -> job
    /\ open' = CASE call = "preparing" -> TRUE
                  [] call = "park"      -> FALSE
                  [] OTHER              -> open

Answered(call) == Serve(call) /\ NoTrouble
Unanswered(call) == (Serve(call) \/ UNCHANGED scopeVars) /\ Trouble

-----------------------------------------------------------------------------
(* The observer. *)

\* Observer.start: only one observation at a time.
StartObserver(t) ==
    /\ obs.state # "running"
    /\ obs' = [state |-> "running", step |-> "starting", target |-> t, error |-> None]

\* Observer._run, one call of the service per step: a scope with a setup
\* is prepared and calibrated first; any call may fail and ends the run.
After(step) ==
    CASE step = "starting"         -> {"preparing", "slewing"}
      [] step = "preparing"        -> {"calibrating"}
      [] step = "calibrating"      -> {"slewing"}
      [] step = "slewing"          -> {"starting capture"}
      [] step = "starting capture" -> {"capturing"}

ObserverStep ==
    /\ obs.state = "running"
    /\ \/ /\ Answered(obs.step)
          /\ \E s \in After(obs.step) :
               obs' = [obs EXCEPT !.step = s,
                                  !.state = IF s = "capturing" THEN "done" ELSE @]
       \/ /\ Unanswered(obs.step)
          /\ \E text \in Texts :
               obs' = [obs EXCEPT !.state = "failed", !.error = <<obs.step, text>>]
    /\ UNCHANGED <<skyVars, enabled, pc, seen, planVars, weatherVars, barged>>

-----------------------------------------------------------------------------
(* The user. *)

PutAuto ==
    /\ enabled' = ~enabled
    /\ UNCHANGED <<skyVars, scopeVars, obs, pc, seen, planVars, weatherVars,
                   barged, troubles>>

Observe(t) ==
    /\ StartObserver(t) /\ Trouble
    /\ barged' = (pc # "sleep")
    /\ UNCHANGED <<skyVars, scopeVars, enabled, pc, seen, planVars,
                   weatherVars>>

StopScope ==
    /\ job.running
    /\ Answered("stop")
    /\ UNCHANGED <<skyVars, obs, enabled, pc, seen, planVars, weatherVars, barged>>

-----------------------------------------------------------------------------
(* The tick. *)

ObserverWorks == obs.state = "running"

\* The tick is over, or goes on at p with what it knows.
Sleep == pc' = "sleep" /\ seen' = Nothing /\ barged' = FALSE
Go(p, s) == pc' = p /\ seen' = s /\ UNCHANGED barged

\* Mutant of TickBegin: the tick goes on whatever the observer does.
TickBeginBlind ==
    /\ pc = "sleep" /\ enabled
    /\ Go("status", [Nothing EXCEPT !.night = night])
    /\ UNCHANGED <<skyVars, scopeVars, obs, enabled, planVars, weatherVars, troubles>>

\* tick up to its first call: nothing when the scheduler is off or the
\* observer is on its way to a capture.  The clock is read here.
TickBegin ==
    /\ pc = "sleep"
    /\ enabled /\ ~ObserverWorks
    /\ Go("status", [Nothing EXCEPT !.night = night])
    /\ UNCHANGED <<skyVars, scopeVars, obs, enabled, planVars, weatherVars, troubles>>

\* notify: without a webhook, or when the POST fails, the alert is lost,
\* and the caller does not learn of it.
Notify == told' = "sent" \/ (told # "sent" /\ told' = "lost")

AlertDue == rain /\ open /\ ~alerted

\* Mutant of CheckWeather: a warning met with the barrel closed counts as sent.
CheckWeatherForgets ==
    /\ alerted' = rain
    /\ \/ AlertDue /\ Notify
       \/ ~AlertDue /\ told' = IF rain THEN told ELSE "none"

\* _check_weather, when WEATHER_EVERY_S have passed: alert once per
\* warning while the barrel is open, and count that as done before the
\* alert is sent.  A forecast that cannot be fetched counts as checked.
CheckWeather ==
    /\ alerted' = (rain /\ (alerted \/ open))
    /\ \/ AlertDue /\ Notify
       \/ ~AlertDue /\ told' = IF rain THEN told ELSE "none"

\* Mutant of StatusRead: by day the barrel is closed and a run goes on.
StatusReadParks ==
    /\ pc = "status"
    /\ parked' = (parked /\ ~seen.night)
    /\ \/ seen.night /\ Go("step", [Nothing EXCEPT !.job = job])
       \/ ~seen.night /\ ~parked /\ Go("park", Nothing)
       \/ ~seen.night /\ parked /\ Sleep
    /\ UNCHANGED <<skyVars, scopeVars, obs, enabled, handled, skyWait, skips,
                   progress>>

\* getStatus, the weather, and the night window of the clock read earlier.
StatusRead ==
    /\ pc = "status"
    /\ parked' = (parked /\ ~seen.night)
    /\ \/ seen.night /\ Go("step", [Nothing EXCEPT !.job = job])
       \/ ~seen.night /\ job.running /\ Go("stop", Nothing)
       \/ ~seen.night /\ ~job.running /\ ~parked /\ Go("park", Nothing)
       \/ ~seen.night /\ ~job.running /\ parked /\ Sleep
    /\ UNCHANGED <<skyVars, scopeVars, obs, enabled, handled, skyWait, skips,
                   progress>>

ReadStatus == StatusRead /\ UNCHANGED weatherVars /\ NoTrouble
ReadStatusAndWeather == StatusRead /\ CheckWeather /\ NoTrouble

\* The service cannot be reached, or answers a call with an error: the
\* tick is over.
CallFails ==
    /\ pc \in {"status", "stop", "park", "probe start", "probe", "probe stop"}
    /\ Unanswered(pc) /\ Sleep
    /\ UNCHANGED <<skyVars, obs, enabled, planVars, weatherVars>>

\* stopCapture, by day or because the run of the target is left.
SchedulerStops ==
    /\ pc = "stop"
    /\ Answered("stop") /\ Sleep
    /\ UNCHANGED <<skyVars, obs, enabled, planVars, weatherVars>>

\* _park: close the barrel once per day.  A service without closeBarrel
\* stays as it is and counts as parked.
Park ==
    /\ pc = "park"
    /\ parked' = TRUE
    /\ (Answered("park") \/ (UNCHANGED scopeVars /\ NoTrouble))
    /\ Sleep
    /\ UNCHANGED <<skyVars, obs, enabled, handled, skyWait, skips, progress, weatherVars>>

\* A failure of the observer is handled once per error text: a failed
\* calibration starts a wait for the sky, anything else skips the target.
FreshFailure == obs.state = "failed" /\ handled # obs.error

WaitNow == IF FreshFailure /\ obs.step = "calibrating" THEN "waiting" ELSE skyWait
SkipsNow == IF FreshFailure /\ obs.step # "calibrating"
              THEN skips \union {obs.target} ELSE skips

\* Mutant of GivenUp: a stalled run is not noticed.
GivenUpOnFailure == failing(seen.job)

\* The target is skipped when its run fails or stalls; the run is left
\* then, and when its target is not listed or not usable any more.
GivenUp == Stalled(obs.target, seen.job.captured) \/ failing(seen.job)
BadRun == GivenUp \/ obs.target \notin good

\* _step up to its next call.  The state of the observer is read again.
StepWhileObserving ==
    /\ pc = "step" /\ ObserverWorks
    /\ Sleep
    /\ UNCHANGED <<skyVars, scopeVars, obs, enabled, planVars, weatherVars, troubles>>

StepIdle ==
    /\ ~seen.job.running
    /\ skips' = SkipsNow
    /\ \/ WaitNow = "none" /\ Go("pick", Nothing)
       \/ WaitNow = "waiting" /\ Sleep
       \/ WaitNow = "over" /\ Go("probe start", Nothing)
    /\ UNCHANGED progress

StepCapturing ==
    /\ seen.job.running
    /\ progress' = Note(obs.target, seen.job.captured)
    /\ skips' = SkipsNow \union IF GivenUp THEN {obs.target} \ {None} ELSE {}
    /\ IF BadRun THEN Go("stop", Nothing) ELSE Sleep

Step ==
    /\ pc = "step" /\ ~ObserverWorks
    /\ handled' = IF FreshFailure THEN obs.error ELSE handled
    /\ skyWait' = WaitNow
    /\ (StepIdle \/ StepCapturing)
    /\ UNCHANGED <<skyVars, scopeVars, obs, enabled, parked, weatherVars, troubles>>

\* _probe: a few frames at the current pointing, polled until they are
\* done or a timeout stops them; the verdict is over the last status read.
ProbeStart ==
    /\ pc = "probe start"
    /\ Answered("probe start") /\ Go("probe", Nothing)
    /\ UNCHANGED <<skyVars, obs, enabled, planVars, weatherVars>>

Verdict(j) ==
    IF ProbePasses(j)
      THEN skyWait' = "none" /\ Go("pick", Nothing)
      ELSE skyWait' = "waiting" /\ Sleep

ProbePoll ==
    /\ pc = "probe"
    /\ \/ ~job.running /\ Verdict(job)
       \/ job.running /\ Go("probe stop", [Nothing EXCEPT !.job = job]) /\ UNCHANGED skyWait
    /\ UNCHANGED <<skyVars, scopeVars, obs, enabled, parked, handled, skips,
                   progress, weatherVars, troubles>>

ProbeStop ==
    /\ pc = "probe stop"
    /\ Answered("probe stop") /\ Verdict(seen.job)
    /\ UNCHANGED <<skyVars, obs, enabled, parked, handled, skips, progress, weatherVars>>

\* pick_target and observer.start.  An observer that was started meanwhile
\* raises ObserveBusy, which ends the tick.
Pick ==
    /\ pc = "pick"
    /\ Sleep
    /\ \/ \E t \in good \ skips : StartObserver(t)
       \/ (good \subseteq skips \/ ObserverWorks) /\ UNCHANGED obs
    /\ UNCHANGED <<skyVars, scopeVars, enabled, planVars, weatherVars, troubles>>

-----------------------------------------------------------------------------
(* Time and restarts. *)

SkipExpires(t) ==
    /\ t \in skips
    /\ skips' = skips \ {t}
    /\ UNCHANGED <<skyVars, scopeVars, obs, enabled, pc, seen, parked, handled,
                   skyWait, progress, weatherVars, barged, troubles>>

SkyWaitEnds ==
    /\ skyWait = "waiting"
    /\ skyWait' = "over"
    /\ UNCHANGED <<skyVars, scopeVars, obs, enabled, pc, seen, parked, handled,
                   skips, progress, weatherVars, barged, troubles>>

ProgressAges ==
    /\ ~progress.old /\ progress # NoProgress
    /\ progress' = [progress EXCEPT !.old = TRUE]
    /\ UNCHANGED <<skyVars, scopeVars, obs, enabled, pc, seen, parked, handled,
                   skyWait, skips, weatherVars, barged, troubles>>

\* The server restarts: the observer thread and the memory of the
\* scheduler are gone, the scope goes on, the setting is read again.
Restart ==
    /\ Trouble
    /\ obs' = NotObserving /\ pc' = "sleep" /\ seen' = Nothing /\ barged' = FALSE
    /\ parked' = FALSE /\ handled' = None /\ skyWait' = "none"
    /\ skips' = {} /\ progress' = NoProgress /\ alerted' = FALSE
    /\ UNCHANGED <<skyVars, scopeVars, enabled, told>>

Init ==
    /\ night = FALSE /\ good = {} /\ rain = FALSE
    /\ job = Idle /\ open = FALSE
    /\ obs = NotObserving /\ enabled = FALSE
    /\ pc = "sleep" /\ seen = Nothing /\ barged = FALSE
    /\ parked = FALSE /\ handled = None /\ skyWait = "none"
    /\ skips = {} /\ progress = NoProgress
    /\ alerted = FALSE /\ told = "none"
    /\ troubles = 0

Tick ==
    \/ TickBegin \/ ReadStatus \/ ReadStatusAndWeather \/ CallFails
    \/ SchedulerStops \/ Park \/ StepWhileObserving \/ Step
    \/ ProbeStart \/ ProbePoll \/ ProbeStop \/ Pick

Timers ==
    \/ SkyWaitEnds \/ ProgressAges
    \/ \E t \in Targets : SkipExpires(t)

User == PutAuto \/ StopScope \/ \E t \in Targets : Observe(t)

Next == SkyTurns \/ NewFrame \/ ObserverStep \/ User \/ Tick \/ Timers \/ Restart

\* The two threads run and time passes: among the ticks that read the
\* status again and again there is one that finds the weather due.
\* Nothing is assumed of the user, the sky, or the frames of the scope.
Fairness ==
    /\ WF_vars(Tick) /\ WF_vars(ObserverStep) /\ SF_vars(ReadStatusAndWeather)
    /\ WF_vars(SkyWaitEnds) /\ WF_vars(ProgressAges)
    /\ \A t \in Targets : WF_vars(SkipExpires(t))

Spec == Init /\ [][Next]_vars
FairSpec == Spec /\ Fairness

-----------------------------------------------------------------------------
\* Properties.

\* The barrel is not closed over an observation: between the look at the
\* observer, the status and closeBarrel (server/scope_scheduler.py:100 to
\* :168) nothing the scheduler started can have come to life, so only an
\* observation the user posts in this very tick is ever cut off.
ParkOnlyIdle ==
    [][open /\ ~open' => barged \/ (~job.running /\ ~ObserverWorks)]_vars

\* The scheduler starts no run over another: neither the probe nor the
\* target it picks, up to minutes after the status it decided on
\* (server/scope_scheduler.py:104 to :222), replaces a capture, unless the
\* user posted an observation in this very tick.
RunsAreNotReplaced ==
    [][ \/ pc = "probe start" /\ pc' = "probe"
        \/ pc = "pick" /\ ~ObserverWorks /\ pc' = "sleep" /\ ObserverWorks'
          => barged \/ ~job.running ]_vars

\* Once the night is over for good and the scheduler stays on, the scope
\* comes to rest: no run, no observation under way, parked; whatever was
\* on its way when dawn came, a probe or a start decided with the clock of
\* an earlier moment included (tick, server/scope_scheduler.py:109).
QuietByDay ==
    <>[](~night /\ enabled)
      => <>[](parked /\ ~job.running /\ ~ObserverWorks)

\* The scheduler does not sit on a run for ever: a capture whose frames
\* stop coming, fail, or whose target is gone is left, so the scope is
\* free again and again (_stalled and _step,
\* server/scope_scheduler.py:139 and :199), by night and by day.
RunsAreLeft ==
    <>[]enabled => []<>~job.running

\* A warning that lasts while the barrel is open reaches the user, in the
\* night and by day, although it is sent once only, a failed check waits
\* for the next one and a restart forgets what was sent
\* (_check_weather, server/scope_scheduler.py:123).  Unless the one alert
\* was lost: notify swallows that, and nothing sends it again.
RainIsTold ==
    <>[](rain /\ open /\ enabled) /\ [](told # "lost") => <>[](told = "sent")

=============================================================================
