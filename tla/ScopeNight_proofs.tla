-------------------------- MODULE ScopeNight_proofs --------------------------
(***************************************************************************)
(* Theorems about ScopeNight, for any targets, error texts and bounds: the *)
(* scheduler neither closes the barrel over an observation it knows of nor *)
(* starts a run over another.                                              *)
(***************************************************************************)
EXTENDS ScopeNight, TLAPS

ObserverCalls == {"starting", "preparing", "calibrating", "slewing", "starting capture"}

Observations ==
  [state : {"idle", "running", "done", "failed"},
   step : ObserverCalls \cup {"none", "capturing"},
   target : Targets \cup {None},
   error : {None} \cup (ObserverCalls \X Texts)]

(* What a tick knows.  It looked at the observer first, and from then on   *)
(* only a POST observe can have started it; if the status it read had no   *)
(* run there is still none, since without an observer nobody but the tick  *)
(* itself starts one, and only then it gets as far as the barrel, a probe  *)
(* or a target.  Of the observer's own calls none closes the barrel.       *)
QuietTick ==
  /\ good \subseteq Targets /\ obs \in Observations
  /\ ObserverWorks => obs.step \in ObserverCalls
  /\ pc # "sleep" => barged \/ ~ObserverWorks
  /\ pc = "step" => barged \/ seen.job.running \/ ~job.running
  /\ pc \in {"park", "probe start", "pick"} => barged \/ ~job.running

(* Only one call closes the barrel, and only two start a run.              *)
LEMMA ServeCloses ==
  ASSUME NEW call, Serve(call)
  PROVE  /\ open /\ ~open' => call = "park"
         /\ call = "park" => UNCHANGED job
<1>1. CASE call = "park"
  BY <1>1 DEF Serve
<1>2. CASE call = "preparing"
  <2>1. open' = TRUE
    BY <1>2 DEF Serve
  <2> QED BY <1>2, <2>1
<1>3. CASE call # "park" /\ call # "preparing"
  <2>1. open' = open
    BY <1>3 DEF Serve
  <2> QED BY <1>3, <2>1
<1> QED BY <1>1, <1>2, <1>3

LEMMA QuietStarts == Init => QuietTick
BY DEF Init, QuietTick, NotObserving, Observations, ObserverWorks

LEMMA StartedObserver ==
  ASSUME NEW t \in Targets, StartObserver(t)
  PROVE  ~ObserverWorks /\ obs' \in Observations /\ obs'.step \in ObserverCalls
BY DEF StartObserver, Observations, ObserverCalls, ObserverWorks

LEMMA QuietStep == QuietTick /\ [Next]_vars => QuietTick'
<1> SUFFICES ASSUME QuietTick, [Next]_vars PROVE QuietTick'
  OBVIOUS
<1> USE DEF QuietTick, ObserverWorks
<1>1. CASE UNCHANGED <<obs, pc, seen, job, barged>> /\ good' \subseteq Targets
  BY <1>1
<1>2. CASE NewFrame
  <2>1. job.running /\ UNCHANGED <<good, obs, pc, seen, barged>>
    BY <1>2 DEF NewFrame, skyVars
  <2> QED BY <2>1
<1>3. CASE ObserverStep
  <2>1. obs.state = "running" /\ UNCHANGED <<good, pc, seen, barged>>
    BY <1>3 DEF ObserverStep, skyVars
  <2>2. obs' \in Observations /\ (obs'.state = "running" => obs'.step \in ObserverCalls)
    <3>1. CASE \E s \in After(obs.step) :
                  obs' = [obs EXCEPT !.step = s,
                                     !.state = IF s = "capturing" THEN "done" ELSE @]
      <4>1. PICK s \in After(obs.step) :
                  obs' = [obs EXCEPT !.step = s,
                                     !.state = IF s = "capturing" THEN "done" ELSE @]
        BY <3>1
      <4>2. s \in (ObserverCalls \cup {"capturing"})
        BY <2>1, <4>1 DEF After, ObserverCalls
      <4> QED BY <2>1, <4>1, <4>2 DEF Observations
    <3>2. CASE \E text \in Texts :
                  obs' = [obs EXCEPT !.state = "failed", !.error = <<obs.step, text>>]
      <4>1. PICK text \in Texts :
               obs' = [obs EXCEPT !.state = "failed", !.error = <<obs.step, text>>]
        BY <3>2
      <4>2. <<obs.step, text>> \in ObserverCalls \X Texts
        BY <2>1
      <4> QED BY <2>1, <4>1, <4>2 DEF Observations
    <3> QED BY <1>3, <3>1, <3>2 DEF ObserverStep
  <2> QED BY <2>1, <2>2
<1>4. ASSUME NEW t \in Targets, Observe(t) PROVE QuietTick'
  <2>1. barged' = (pc # "sleep") /\ UNCHANGED <<good, pc, seen, scopeVars>>
    BY <1>4 DEF Observe, skyVars
  <2> QED BY <1>4, <2>1, StartedObserver DEF Observe, scopeVars
<1>5. CASE StopScope
  <2>1. job' = Idle /\ UNCHANGED <<good, obs, pc, seen, barged>>
    BY <1>5 DEF StopScope, Answered, Serve, skyVars
  <2> QED BY <2>1 DEF Idle
<1>6. CASE Sleep /\ UNCHANGED <<obs, good>>
  BY <1>6 DEF Sleep
<1>7. CASE TickBegin
  BY <1>7 DEF TickBegin, Go, skyVars
<1>8. CASE StatusRead
  <2>1. pc = "status" /\ UNCHANGED <<good, obs, job>>
    BY <1>8 DEF StatusRead, scopeVars, skyVars
  <2>2. CASE Go("step", [Nothing EXCEPT !.job = job])
    <3>1. seen'.job = job
      BY <2>2 DEF Go, Nothing
    <3> QED BY <2>1, <2>2, <3>1 DEF Go
  <2>3. CASE Go("stop", Nothing) \/ (~job.running /\ Go("park", Nothing))
    BY <2>1, <2>3 DEF Go
  <2> QED BY <1>6, <1>8, <2>1, <2>2, <2>3 DEF StatusRead
<1>9. CASE Step
  <2>1. pc = "step" /\ UNCHANGED <<good, obs, job>>
    BY <1>9 DEF Step, scopeVars, skyVars
  <2>2. CASE StepIdle
    <3>1. barged \/ ~job.running
      BY <2>1, <2>2 DEF StepIdle
    <3>2. CASE Go("pick", Nothing) \/ Go("probe start", Nothing)
      BY <2>1, <3>1, <3>2 DEF Go
    <3> QED BY <1>6, <2>1, <2>2, <3>2 DEF StepIdle
  <2>3. CASE StepCapturing
    <3>1. CASE Go("stop", Nothing)
      BY <2>1, <3>1 DEF Go
    <3> QED BY <1>6, <2>1, <2>3, <3>1 DEF StepCapturing
  <2> QED BY <1>9, <2>2, <2>3 DEF Step
<1>10. CASE ProbeStart \/ ProbePoll \/ ProbeStop
  <2>1. CASE ProbeStart
    BY <2>1 DEF ProbeStart, Go, skyVars
  <2>2. CASE ProbePoll
    BY <1>6, <2>2 DEF ProbePoll, Verdict, Go, scopeVars, skyVars
  <2>3. CASE ProbeStop
    <3>1. job' = Idle
      BY <2>3 DEF ProbeStop, Answered, Serve
    <3> QED BY <1>6, <2>3, <3>1 DEF ProbeStop, Verdict, Go, Idle, skyVars
  <2> QED BY <1>10, <2>1, <2>2, <2>3
<1>11. CASE Pick
  <2>1. CASE UNCHANGED obs
    BY <1>6, <1>11, <2>1 DEF Pick, skyVars
  <2>2. ASSUME NEW t \in good \ skips, StartObserver(t) PROVE QuietTick'
    <3>1. /\ obs' \in Observations /\ obs'.step \in ObserverCalls /\ pc' = "sleep"
          /\ good' = good
      BY <1>11, <2>2, StartedObserver DEF Pick, Sleep, skyVars
    <3> QED BY <3>1
  <2> QED BY <1>11, <2>1, <2>2 DEF Pick
<1>12. CASE Restart
  BY <1>12 DEF Restart, NotObserving, Observations, skyVars
<1>13. CASE CallFails \/ SchedulerStops \/ Park \/ StepWhileObserving
  BY <1>6, <1>13 DEF CallFails, SchedulerStops, Park, StepWhileObserving, skyVars
<1>14. CASE SkyTurns \/ PutAuto \/ Timers \/ UNCHANGED vars
  BY <1>1, <1>14 DEF SkyTurns, PutAuto, Timers, SkyWaitEnds, ProgressAges, SkipExpires,
                     vars, scopeVars, skyVars
<1> QED
  BY <1>2, <1>3, <1>4, <1>5, <1>7, <1>8, <1>9, <1>10, <1>11, <1>12, <1>13, <1>14
     DEF Next, User, Tick, ReadStatus, ReadStatusAndWeather

LEMMA QuietInvariant == Spec => []QuietTick
BY QuietStarts, QuietStep, PTL DEF Spec

(* The barrel closes over a running capture or a working observer only if  *)
(* the user posted an observation in that very tick, whatever else falls   *)
(* between its calls: for any targets and bounds (tick, _park).            *)
THEOREM BarrelClosesOnlyIdle == Spec => ParkOnlyIdle
<1>1. QuietTick /\ [Next]_vars =>
         [open /\ ~open' => barged \/ (~job.running /\ ~ObserverWorks)]_vars
  <2> SUFFICES ASSUME QuietTick, [Next]_vars, open, ~open'
               PROVE  barged \/ (~job.running /\ ~ObserverWorks)
    OBVIOUS
  <2>1. CASE UNCHANGED open
    BY <2>1
  <2>2. ASSUME NEW call, Serve(call) PROVE call = "park"
    BY <2>2, ServeCloses
  <2>3. CASE pc = "park"
    BY <2>3 DEF QuietTick
  <2>4. CASE ObserverStep
    <3>1. obs.step \in ObserverCalls
      BY <2>4 DEF ObserverStep, QuietTick, ObserverWorks
    <3>2. Serve(obs.step)
      BY <2>1, <2>4 DEF ObserverStep, Answered, Unanswered, scopeVars
    <3> QED BY <2>2, <3>1, <3>2 DEF ObserverCalls
  <2>5. CASE StopScope
    BY <2>2, <2>5 DEF StopScope, Answered
  <2>6. CASE CallFails
    BY <2>1, <2>2, <2>3, <2>6 DEF CallFails, Unanswered, scopeVars
  <2>7. CASE SchedulerStops \/ ProbeStart \/ ProbeStop
    BY <2>2, <2>7 DEF SchedulerStops, ProbeStart, ProbeStop, Answered
  <2>8. CASE Park
    BY <2>3, <2>8 DEF Park
  <2>9. CASE \/ NewFrame \/ TickBegin \/ StatusRead \/ StepWhileObserving \/ Step
             \/ ProbePoll \/ Pick \/ Restart \/ SkyTurns \/ PutAuto \/ Timers
             \/ UNCHANGED vars \/ \E t \in Targets : Observe(t)
    BY <2>1, <2>9
       DEF NewFrame, TickBegin, StatusRead, StepWhileObserving, Step, ProbePoll, Pick,
           Restart, SkyTurns, PutAuto, Timers, SkyWaitEnds, ProgressAges, SkipExpires,
           Observe, scopeVars, vars
  <2> QED
    BY <2>4, <2>5, <2>6, <2>7, <2>8, <2>9
       DEF Next, User, Tick, ReadStatus, ReadStatusAndWeather
<1> QED BY <1>1, QuietInvariant, PTL DEF Spec, ParkOnlyIdle

(* The scheduler starts no probe and no observation while a capture runs,  *)
(* although the status that told it so may be minutes old, unless the user *)
(* posted an observation in that very tick (_step, _probe).                *)
THEOREM RunsAreNeverReplaced == Spec => RunsAreNotReplaced
<1>1. QuietTick /\ [Next]_vars =>
         [ \/ pc = "probe start" /\ pc' = "probe"
           \/ pc = "pick" /\ ~ObserverWorks /\ pc' = "sleep" /\ ObserverWorks'
             => barged \/ ~job.running ]_vars
  BY DEF QuietTick
<1> QED BY <1>1, QuietInvariant, PTL DEF Spec, RunsAreNotReplaced

=============================================================================
