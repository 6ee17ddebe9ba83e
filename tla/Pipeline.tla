------------------------------ MODULE Pipeline ------------------------------
(***************************************************************************)
(* From a bundle of sessions to an image: the job builder picks the lights *)
(* and the darks (server/job_builder.py), and the nodes of the template    *)
(* run one after another (nodes/, under server/runtime.py), each around at *)
(* most one external program at a time, while the user may cancel.         *)
(*                                                                         *)
(* Sequences are of single frames (fitseq is false in both templates).  A  *)
(* frame on its way is a record of the light and the dark it got.          *)
(***************************************************************************)
EXTENDS DarkMatch, ToolRun

CONSTANTS
    Sessions,   \* id -> its lights, exp, gain, bench, camera, filter; a light has a
                \* header, a folder, a number in the order of paths, a file name
    Requests,   \* what may be asked: sessions, mode, dark, template, enabled, palette
    Hosts,      \* what find_siril may find
    MaxLost     \* frames a program silently leaves out, per run

\* The nodes of the templates.
Kinds == {"convert_lights", "calibrate", "seq_resample", "seq_offset",
          "seq_bg_extract", "seq_register", "seq_stack", "narrowband_extract",
          "narrowband_compose", "crop", "graxpert", "color_balance",
          "auto_bp_shift", "stretch", "starnet_extract", "starnet_replace",
          "starnet_recombine", "save_image"}

\* The scanner groups frames by the exposure and the gain of their rows, which
\* need not be what the calibrate node reads in the header.  No light has an
\* exposure of 0 s, which a master without an exposure would match.
ASSUME SessionsAssumption ==
    /\ IsFiniteSet(DOMAIN Sessions)
    /\ \A s \in DOMAIN Sessions :
         /\ IsFiniteSet(Sessions[s].lights) /\ Sessions[s].exp # 0
         /\ \A l \in Sessions[s].lights :
              /\ \A key \in DOMAIN l.header : l.header[key] \in Int
              /\ RowExp(l) = Sessions[s].exp /\ Gain(l) = Sessions[s].gain
              /\ l.id \in Nat
    /\ \A s, t \in DOMAIN Sessions :
         \A l \in Sessions[s].lights, m \in Sessions[t].lights : l.id = m.id => l = m

\* Both built-in templates have a calibrate node, and only that node takes
\* darks.
ASSUME RequestsAssumption ==
    \A r \in Requests :
        /\ IsFiniteSet(r.sessions)
        /\ r.template \in Seq(Kinds)
        /\ r.mode = "auto" => \E n \in DOMAIN r.template : r.template[n] = "calibrate"

MIN_FRAMES_FOR_STACK == 3

VARIABLES
    request,    \* the request being served
    host,
    outcome,    \* waiting, refused, crashed, running, done, failed, cancelled
    pool,       \* calibrate.dark and dark_bins
    plan,       \* nodes still to run, the current one first
    calls,      \* programs the current node has still to run
    inputs,     \* frames that entered the current node
    outputs,    \* frames its programs have written
    says,       \* fractions the node itself will report before it goes on
    frames,     \* frames in the last committed sequence, or in the stack
    lost

jobVars == <<request, host, outcome, pool>>
nodeVars == <<plan, calls, inputs, outputs, says, frames, lost>>
vars == <<toolVars, jobVars, nodeVars>>

-----------------------------------------------------------------------------
(* The job builder. *)

Bundle(r) == UNION {Sessions[s].lights : s \in r.sessions}
FirstOf(r) == Min(r.sessions)     \* session_ids are sorted

Compatible(r) == \A s \in r.sessions :
                    /\ Sessions[s].gain = Sessions[FirstOf(r)].gain
                    /\ Sessions[s].bench = Sessions[FirstOf(r)].bench
                    /\ Sessions[s].camera = Sessions[FirstOf(r)].camera
                    /\ Sessions[s].filter = Sessions[FirstOf(r)].filter

\* _stage_multi_session_lights: a directory of links to the lights of all
\* sessions, named by session and file: of frames of a session with one name,
\* in several folders, the last one by path is linked.
Staging(r) ==
    UNION {LET lights == Sessions[s].lights
           IN  {l \in lights : \A m \in lights : m.name = l.name => m.folder <= l.folder}
           : s \in r.sessions}

\* A single session is its folder, whatever else lies there.
LightsFolder(r) ==
    IF Cardinality(r.sessions) > 1 THEN Staging(r)
    ELSE LET folders == {l.folder : l \in Bundle(r)}
         IN  {l \in UNION {Sessions[s].lights : s \in DOMAIN Sessions} :
                l.folder \in folders}

Refused(r) ==
    \/ ~(r.sessions \subseteq DOMAIN Sessions)                  \* SessionNotFound
    \/ ~Compatible(r)                                           \* IncompatibleSessions
    \/ Cardinality(Bundle(r)) < MIN_FRAMES_FOR_STACK            \* TooFewFrames
    \/ /\ Cardinality(r.sessions) = 1                           \* manual staging
       /\ \E a, b \in Bundle(r) : a.folder # b.folder
    \/ r.mode = "explicit" /\ r.dark \notin Ids                 \* CalibrationMissing

\* "Take the first session's match."
DarkRefsOfFirst(r) ==
    LET s == Sessions[FirstOf(r)]
    IN  CASE r.mode = "none" -> <<>>
          [] r.mode = "explicit" -> <<r.dark>>
          [] OTHER -> BundleDarks(s.lights, s)

DarkRefs(r) ==
    CASE r.mode = "none" -> <<>>
      [] r.mode = "explicit" -> <<r.dark>>
      [] OTHER -> BundleDarks(Bundle(r), Sessions[FirstOf(r)])

Submit(r) ==
    /\ outcome = "waiting"
    /\ request' = r /\ host' \in Hosts
    /\ outcome' = IF Refused(r) THEN "refused"
                  ELSE IF r.mode = "auto" /\ Unsortable(Bundle(r)) THEN "crashed"
                  ELSE "running"
    /\ IF outcome' = "running"
       THEN /\ pool' = DarkRefs(r)
            /\ plan' = r.template
            /\ frames' = {[light |-> l, dark |-> NoDark] : l \in LightsFolder(r)}
       ELSE UNCHANGED <<pool, plan, frames>>
    /\ UNCHANGED <<toolVars, calls, inputs, outputs, says, lost>>

\* find_siril: 1.4 or newer from the first place that has it; the override is
\* taken at its word, and an old or broken system Siril is an error.
SirilFound(h) ==
    IF h.override # "unset" THEN h.override = "exists"
    ELSE \/ \E v \in h.appdirs \union h.appimages : v >= 14
         \/ h.system \in {"recent", "no version"}

-----------------------------------------------------------------------------
(* The nodes: the program they run, whether a parameter switches them off, *)
(* whether they write a sequence, count its frames, look for cancel in a   *)
(* loop of their own, and the part of the bar they give to the program.    *)

Siril == [program |-> "siril", switch |-> FALSE, sequence |-> FALSE,
          counts |-> FALSE, polls |-> FALSE,
          start |-> 2000, low |-> 2000, high |-> 9500, phases |-> 1]
OnSequence == [Siril EXCEPT !.sequence = TRUE]
Python == [Siril EXCEPT !.program = "none"]

convert_lights == [OnSequence EXCEPT !.counts = TRUE]
calibrate == [OnSequence EXCEPT !.counts = TRUE]     \* _run_single
seq_resample == [OnSequence EXCEPT !.switch = TRUE]
seq_offset == [Python EXCEPT !.polls = TRUE]
seq_bg_extract == OnSequence
seq_register == [OnSequence EXCEPT !.phases = 2]
seq_stack == Siril
narrowband_extract == [Siril EXCEPT !.start = 1000, !.phases = 6]
narrowband_compose == [Siril EXCEPT !.start = 1000, !.phases = 2]   \* see Phases
crop == Python
graxpert == [Siril EXCEPT !.program = "stream", !.switch = TRUE,
                          !.start = 1000, !.low = 1500]
color_balance == [Siril EXCEPT !.switch = TRUE]
auto_bp_shift == [Siril EXCEPT !.switch = TRUE, !.start = 3000]
stretch == [Siril EXCEPT !.start = 1000]
starnet_extract == [Siril EXCEPT !.program = "stream", !.switch = TRUE,
                                 !.high = 8500]
starnet_replace == [Siril EXCEPT !.switch = TRUE, !.start = 3000,
                                 !.low = 3000, !.high = 8500]
starnet_recombine == Python
save_image == Siril

Node(k) ==
    CASE k = "convert_lights" -> convert_lights
      [] k = "calibrate" -> calibrate
      [] k = "seq_resample" -> seq_resample
      [] k = "seq_offset" -> seq_offset
      [] k = "seq_bg_extract" -> seq_bg_extract
      [] k = "seq_register" -> seq_register
      [] k = "seq_stack" -> seq_stack
      [] k = "narrowband_extract" -> narrowband_extract
      [] k = "narrowband_compose" -> narrowband_compose
      [] k = "crop" -> crop
      [] k = "graxpert" -> graxpert
      [] k = "color_balance" -> color_balance
      [] k = "auto_bp_shift" -> auto_bp_shift
      [] k = "stretch" -> stretch
      [] k = "starnet_extract" -> starnet_extract
      [] k = "starnet_replace" -> starnet_replace
      [] k = "starnet_recombine" -> starnet_recombine
      [] k = "save_image" -> save_image

\* The two graxpert nodes of a template share a switch here.
UsesProgram(k) ==
    Node(k).program # "none" /\ (Node(k).switch => k \in request.enabled)

\* The hso palette computes a synthetic channel too.
Phases(k) ==
    IF k = "narrowband_compose" /\ request.palette = "hso" THEN 3 ELSE Node(k).phases

Call(k, S) ==
    [stream |-> Node(k).program = "stream", low |-> Node(k).low,
     high |-> Node(k).high, phases |-> Phases(k),
     base |-> 0, width |-> Whole, start |-> Node(k).start,
     sequence |-> Node(k).sequence, counts |-> Node(k).counts, frames |-> S]

-----------------------------------------------------------------------------
(* What a node reports itself, between 0 and the 100 % of its end: before  *)
(* its programs (the last such report is the start of the call), in place  *)
(* of them, and after them.                                                *)

\* A loop over n frames that reports every step-th of them and the last.
Loop(n, step, span) ==
    [j \in 1 .. (n + step - 2) \div step + 1 |->
        500 + (span * Min({step * (j - 1) + 1, n})) \div n]

Before(k, n) ==
    CASE k = "convert_lights" -> {<<500>>}
      [] k = "calibrate" -> {IF Len(pool) <= 1 THEN <<>> ELSE <<200>>}
      [] k = "seq_offset" -> {Loop(n, 10, 9000)}
      [] k = "crop" -> {<<1000, 9000>>, <<1000, 8000>>,
                        <<1000, 3000, 9000>>, <<1000, 3000, 8000>>}
      [] k = "starnet_extract" -> {<<500, 1000>>}
      [] k = "starnet_replace" -> {<<1000>>}
      [] k = "starnet_recombine" -> {<<1000, 9000>>, <<1000, 5000>>}
      [] OTHER -> {<<>>}

SwitchedOff(k, n) ==
    CASE k = "seq_resample" -> Loop(n, 25, 8500)
      [] k = "graxpert" -> <<9000>>
      [] k \in {"color_balance", "auto_bp_shift"} -> <<5000>>
      [] k = "starnet_extract" -> <<500, 7000>>
      [] k = "starnet_replace" -> <<9000>>

After(k) ==
    CASE k = "starnet_extract" -> <<8500, 9500>>
      [] k = "starnet_replace" -> <<9000>>
      [] OTHER -> <<>>

Opening(k, n) ==
    IF Node(k).program = "none" \/ UsesProgram(k) THEN Before(k, n)
    ELSE {SwitchedOff(k, n)}

-----------------------------------------------------------------------------
(* calibrate. *)

Dressed(S, d) == {[f EXCEPT !.dark = d] : f \in S}

\* No dark or one dark: one program for every frame.
SingleCall(S) ==
    <<Call("calibrate", Dressed(S, IF pool = <<>> THEN NoDark ELSE pool[1]))>>

\* Several: a program for each group of frames with the same best dark, each
\* with its share of the bar between 5 % and 95 %; nobody counts its frames.
Routed(S) == {[f EXCEPT !.dark = PickDark(f.light, pool)] : f \in S}

Kept(S) == {f \in Routed(S) : f.dark # NoDark \/ ~request.exclude}

\* The share of a group begins where the frames written so far end.
From(c, done, total) ==
    LET at == 500 + (done * 9000) \div total
    IN  [c EXCEPT !.base = at, !.start = at]

GroupCalls(S) ==
    LET kept == Kept(S)
        total == Cardinality(kept)
        group(d) == {f \in kept : f.dark = d}
        first(d) == Min({f.light.id : f \in group(d)})
        darks == {f.dark : f \in kept}
        order == Ordered(darks, {p \in darks \X darks : first(p[1]) < first(p[2])})
        call(g) == [Call("calibrate", g) EXCEPT
                      !.counts = FALSE, !.width = (Cardinality(g) * 9000) \div total]
    IN  [n \in DOMAIN order |-> From(call(group(order[n])), 0, total)]

CalibrateCalls(S) == IF Len(pool) <= 1 THEN SingleCall(S) ELSE GroupCalls(S)

-----------------------------------------------------------------------------
(* The run of a job. *)

between == outcome = "running" /\ inputs = {} /\ plan # <<>>
inNode == outcome = "running" /\ inputs # {}

Ends(how) == outcome' = how /\ UNCHANGED <<request, host, pool>>

\* The runtime looks for cancel before each node.
Stopped ==
    /\ between /\ cancel
    /\ Ends("cancelled")
    /\ UNCHANGED <<toolVars, nodeVars>>

\* Corrupt lights are left out by convert_lights before Siril sees them.
Staged(k) == IF k = "convert_lights" THEN {f \in frames : f.light.whole} ELSE frames

NodeStarts ==
    /\ between /\ ~cancel
    /\ LET k == Head(plan)
           S == Staged(k)
           todo == IF ~UsesProgram(k) THEN <<>>
                   ELSE IF k = "calibrate" THEN CalibrateCalls(S)
                   ELSE <<Call(k, S)>>
       IN  IF \/ S = {}
              \/ UsesProgram(k) /\ todo = <<>>
              \/ UsesProgram(k) /\ Node(k).program = "siril" /\ ~SirilFound(host)
           THEN Ends("failed") /\ UNCHANGED <<inputs, calls, says, bar>>
           ELSE /\ inputs' = S /\ calls' = todo /\ bar' = 0
                /\ says' \in Opening(k, Cardinality(S))
                /\ UNCHANGED jobVars
    /\ outputs' = {} /\ result' = "none"
    /\ UNCHANGED <<cancel, tool, code, reader, dog, lines, meter>>
    /\ UNCHANGED <<plan, frames, lost>>

\* ctx.progress; the loop over the frames of seq_offset looks for cancel.
Reports ==
    /\ inNode /\ says # <<>>
    /\ IF Node(Head(plan)).polls /\ cancel
       THEN Ends("cancelled") /\ UNCHANGED <<bar, says>>
       ELSE bar' = Head(says) /\ says' = Tail(says) /\ UNCHANGED jobVars
    /\ UNCHANGED <<cancel, tool, code, reader, dog, result, lines, meter>>
    /\ UNCHANGED <<plan, calls, inputs, outputs, frames, lost>>

\* The binary of GraXpert or StarNet is not installed, or cannot be started.
NoBinary ==
    /\ inNode /\ calls # <<>> /\ calls[1].stream /\ reader = "idle" /\ result = "none"
    /\ Ends("failed")
    /\ UNCHANGED <<toolVars, nodeVars>>

ProgramBegins ==
    /\ inNode /\ calls # <<>> /\ says = <<>>
    /\ Begin(calls[1], calls[1].start)
    /\ UNCHANGED <<jobVars, nodeVars>>

ProgramRuns ==
    /\ \/ Spawn \/ EndOfOutput \/ Reaped \/ Terminate \/ Kill
       \/ ClosesOutput \/ Exits
       \/ /\ calls # <<>>
          /\ \/ \E f \in Fractions \union {Heartbeat} : Line(calls[1], f)
             \/ LineRaises(calls[1]) \/ TimesOut(calls[1]) \/ Floods(calls[1])
    /\ UNCHANGED <<jobVars, nodeVars>>

\* The exit status and the output are looked at: none is an error, fewer
\* frames only where they are counted.
NoOutput ==
    /\ inNode /\ result = "ok"
    /\ Ends("failed")
    /\ UNCHANGED <<toolVars, nodeVars>>

Leaves(c, gone) ==
    /\ Cardinality(gone) + lost <= MaxLost /\ gone # c.frames
    /\ gone # {} => c.sequence /\ ~c.counts

Output ==
    /\ inNode /\ result = "ok"
    /\ \E gone \in SUBSET calls[1].frames :
        /\ Leaves(calls[1], gone)
        /\ outputs' = outputs \union (calls[1].frames \ gone)
        /\ lost' = lost + Cardinality(gone)
    /\ calls' = [n \in DOMAIN Tail(calls) |->
                   From(Tail(calls)[n], Cardinality(outputs'), Cardinality(Kept(inputs)))]
    /\ says' = IF calls' = <<>> THEN After(Head(plan)) ELSE <<>>
    /\ result' = "none"
    /\ UNCHANGED <<cancel, tool, code, reader, dog, lines, bar, meter>>
    /\ UNCHANGED <<jobVars, plan, inputs, frames>>

ProgramFailed ==
    /\ inNode /\ result \in {"bad", "raised", "cancelled"}
    /\ Ends(IF result = "cancelled" THEN "cancelled" ELSE "failed")
    /\ UNCHANGED <<toolVars, nodeVars>>

\* The node writes its outputs itself, all of them or none.
WritesAll ==
    \/ outputs' = inputs /\ UNCHANGED jobVars
    \/ Ends("failed") /\ UNCHANGED outputs

WorksInPython ==
    /\ inNode /\ Node(Head(plan)).program = "none" /\ outputs = {} /\ says = <<>>
    /\ WritesAll
    /\ UNCHANGED <<toolVars, plan, calls, inputs, says, frames, lost>>

\* A node that is switched off links or copies its input, and never looks for
\* cancel.
PassesThrough ==
    /\ inNode /\ Node(Head(plan)).program # "none" /\ ~UsesProgram(Head(plan))
    /\ outputs = {} /\ says = <<>>
    /\ WritesAll
    /\ UNCHANGED <<toolVars, plan, calls, inputs, says, frames, lost>>

NodeCommits ==
    /\ inNode /\ calls = <<>> /\ outputs # {} /\ says = <<>>
    /\ frames' = outputs /\ plan' = Tail(plan) /\ bar' = Whole
    /\ outcome' = IF Len(plan) = 1 THEN "done" ELSE outcome
    /\ inputs' = {} /\ outputs' = {}
    /\ UNCHANGED <<cancel, tool, code, reader, dog, result, lines, meter>>
    /\ UNCHANGED <<request, host, pool, calls, says, lost>>

Cancel ==
    /\ outcome = "running" /\ ~cancel
    /\ cancel' = TRUE
    /\ UNCHANGED <<tool, code, reader, dog, result, lines, bar, meter>>
    /\ UNCHANGED <<jobVars, nodeVars>>

Next ==
    \/ \E r \in Requests : Submit(r)
    \/ Stopped \/ NodeStarts \/ Reports \/ NoBinary \/ ProgramBegins \/ ProgramRuns
    \/ NoOutput \/ Output \/ ProgramFailed \/ WorksInPython \/ PassesThrough
    \/ NodeCommits \/ Cancel

Init ==
    /\ ToolInit
    /\ request \in {CHOOSE r \in Requests : TRUE} /\ host \in {CHOOSE h \in Hosts : TRUE}
    /\ outcome = "waiting" /\ pool = <<>>
    /\ plan = <<>> /\ calls = <<>> /\ inputs = {} /\ outputs = {}
    /\ says = <<>> /\ frames = {} /\ lost = 0

\* The threads run; nothing obliges a program to.
Fairness ==
    /\ WF_vars(Stopped) /\ WF_vars(NodeStarts) /\ WF_vars(Reports)
    /\ WF_vars(ProgramBegins)
    /\ WF_vars(NoOutput \/ Output) /\ WF_vars(ProgramFailed)
    /\ WF_vars(WorksInPython) /\ WF_vars(PassesThrough) /\ WF_vars(NodeCommits)
    /\ WF_vars((Spawn \/ EndOfOutput \/ Reaped) /\ UNCHANGED <<jobVars, nodeVars>>)
    /\ WF_vars((Terminate \/ Kill) /\ UNCHANGED <<jobVars, nodeVars>>)

Spec == Init /\ [][Next]_vars
FairSpec == Spec /\ Fairness

-----------------------------------------------------------------------------
(***************************************************************************)
(* A light that was matched with a dark keeps it: in a finished stack each *)
(* frame was calibrated with a dark of its exposure if the card of its     *)
(* session shows one, or if the match of the bundle found one for the      *)
(* frame's bin, however far its temperature (a fallback), whatever else    *)
(* the bundle holds.  Three matchers must agree for that: the session's,   *)
(* the bundle's, whose choices are all the node sees, and the node's.  The *)
(* node goes by the header of each frame and knows its EXPTIME only: of a  *)
(* frame whose row has another exposure, taken from EXPOSURE, nothing is   *)
(* said, and such a frame can stay without its dark.                       *)
(***************************************************************************)
Matched(l, s) ==
    MatchDark(s) # NoDark \/ BestDarkForBin(Bin(l), s) # NoDark

PromisedDarkIsApplied ==
    outcome = "done" /\ request.mode = "auto" =>
        \A s \in request.sessions : \A f \in frames :
            /\ f.light \in Sessions[s].lights /\ Matched(f.light, Sessions[s])
            /\ HeaderExp(f.light) = RowExp(f.light)
            => f.dark # NoDark /\ Darks[f.dark].exp = RowExp(f.light)

(***************************************************************************)
(* What the calibrate node says of frames whose exposure no dark has: they *)
(* pass through debayered only, so a dark never meets a frame of another   *)
(* exposure unless the user asked for that very dark.                      *)
(***************************************************************************)
OnlyMatchingDarks ==
    outcome = "done" /\ request.mode = "auto" =>
        \A f \in frames : f.dark # NoDark => Darks[f.dark].exp = RowExp(f.light)

(***************************************************************************)
(* A run that is over has no program of its own at work any more, which    *)
(* could still write into the entry, or into the next run's: however       *)
(* cancel, the watchdog, the end of the output and the exit of the program *)
(* fall.  One kind of run does leave its program: one that failed because  *)
(* the call raised, when the event of a line could not be written or the   *)
(* wait for a program with closed output timed out.                        *)
(***************************************************************************)
OutcomeWaitsForTool ==
    outcome \in {"done", "cancelled", "failed"} /\ tool # "none" =>
        outcome = "failed" /\ result = "raised"

(***************************************************************************)
(* The bar of a node never goes back, over the phases of a script, the     *)
(* groups of a calibration and lines with no fraction (the tests ask it of *)
(* every node).  Two nodes do not keep it: auto_bp_shift reports 30 %      *)
(* before it hands the bar to Siril from 20 %, and a group of a            *)
(* calibration that comes out short lets the next one begin too low.       *)
(***************************************************************************)
BarNeverRewinds ==
    [][inNode /\ inputs' # {} /\ Head(plan) # "auto_bp_shift" /\
       (Head(plan) = "calibrate" => lost' = 0) => bar' >= bar]_vars

(***************************************************************************)
(* A cancelled run ends, though the program hangs, ignores SIGTERM, has    *)
(* closed its output or is blocked on a full stderr that nobody reads.     *)
(***************************************************************************)
CancelEnds == cancel ~> outcome # "running"
=============================================================================
