------------------------------ MODULE ToolRun ------------------------------
(***************************************************************************)
(* One external program under the eyes of a node: Siril running a script   *)
(* (server/siril.py) or GraXpert and StarNet++ (server/subproc.py).  The   *)
(* node's thread reads standard output until it closes and then waits for  *)
(* the process; a watchdog thread polls the cancel event, asks the program *)
(* to terminate and kills it five seconds later; each line moves the bar.  *)
(*                                                                         *)
(* A call is a record: stream (run_streamed, with stderr merged and a      *)
(* timeout) or not (SirilRuntime.run, with stderr in a pipe nobody reads   *)
(* until the program is gone), the band low..high of the bar it may use,   *)
(* its number of phases, and the window base, width of a calibration       *)
(* group.  Fractions are in units of 1/Whole.  A program is one process.   *)
(***************************************************************************)
EXTENDS Integers, FiniteSetsExt

CONSTANTS
    MaxLines    \* lines that move the bar, per call

Whole == 10000
Fractions == {0, Whole \div 2, Whole}
Heartbeat == -1         \* a line with no fraction in it

VARIABLES
    cancel,     \* ctx.cancel
    tool,       \* none, running, blocked (stderr full), mute (stdout closed), gone
    code,       \* its exit status: ok or bad
    reader,     \* the node's thread: idle, spawn, read, wait
    dog,        \* the watchdog: off, watch, asked (terminate sent)
    result,     \* none, ok, bad, cancelled, raised
    lines,
    bar,        \* the fraction of the last ctx.progress
    meter       \* the handler's state: last fraction, phase, highest shown

toolVars == <<cancel, tool, code, reader, dog, result, lines, bar, meter>>

Alive == {"running", "blocked", "mute"}

-----------------------------------------------------------------------------
(* Progress. *)

Clamp(x, lo, hi) == Max({lo, Min({x, hi})})

\* The handler as it was before the monotonic clamp.
SirilMeterUnclamped(c, f) ==
    LET phase == IF f + Whole \div 2 < meter.last
                 THEN Min({meter.phase + 1, c.phases - 1}) ELSE meter.phase
        size == (c.high - c.low) \div c.phases
    IN  [last |-> f, phase |-> phase,
         shown |-> Min({c.low + phase * size + (f * size) \div Whole, c.high})]

\* make_progress_handler: a fall of more than a half opens the next phase.
SirilMeter(c, f) ==
    LET phase == IF f + Whole \div 2 < meter.last
                 THEN Min({meter.phase + 1, c.phases - 1}) ELSE meter.phase
        size == (c.high - c.low) \div c.phases
        scaled == Min({c.low + phase * size + (f * size) \div Whole, c.high})
    IN  [last |-> f, phase |-> phase, shown |-> Max({scaled, meter.shown})]

\* make_line_progress_handler: report, and heartbeat up to 80 % of the band.
StreamMeter(c, f) ==
    LET band == c.high - c.low
        capped == Min({meter.shown + band \div 60, c.low + (band * 8) \div 10})
        scaled == Clamp(c.low + (f * band) \div Whole, c.low, c.high)
    IN  [meter EXCEPT !.shown =
            Max({@, IF f = Heartbeat THEN capped ELSE scaled})]

NextMeter(c, f) ==
    IF c.stream THEN StreamMeter(c, f)
    ELSE IF f = Heartbeat THEN meter ELSE SirilMeter(c, f)

\* _scoped_progress_ctx; the window of a call outside a group is the whole bar.
Scoped(c, x) == c.base + (Clamp(x, 0, Whole) * c.width) \div Whole

Line(c, f) ==
    /\ reader = "read" /\ lines < MaxLines
    /\ lines' = lines + 1
    /\ meter' = NextMeter(c, f)
    /\ bar' = IF ~c.stream /\ f = Heartbeat THEN bar ELSE Scoped(c, meter'.shown)
    /\ UNCHANGED <<cancel, tool, code, reader, dog, result>>

\* The watchdog is told to stop; one that has asked already sees it through.
Leaving == IF dog = "asked" THEN "asked" ELSE "off"

\* The event of a progress line cannot be written: run_streamed logs it and
\* goes on, SirilRuntime.run lets it out and leaves the program behind.
LineRaises(c) ==
    /\ reader = "read" /\ ~c.stream
    /\ reader' = "idle" /\ dog' = Leaving /\ result' = "raised"
    /\ UNCHANGED <<cancel, tool, code, lines, bar, meter>>

-----------------------------------------------------------------------------
(* The node's thread. *)

NoMeter(c) == [last |-> 0, phase |-> 0, shown |-> c.low]

Begin(c, start) ==
    /\ reader = "idle" /\ result = "none"
    /\ IF cancel THEN result' = "cancelled" /\ UNCHANGED reader
                 ELSE reader' = "spawn" /\ UNCHANGED result
    /\ bar' = start /\ meter' = NoMeter(c) /\ lines' = 0
    /\ UNCHANGED <<cancel, tool, code, dog>>

Spawn ==
    /\ reader = "spawn"
    /\ reader' = "read" /\ tool' = "running" /\ dog' = "watch"
    /\ UNCHANGED <<cancel, code, result, lines, bar, meter>>

EndOfOutput ==
    /\ reader = "read" /\ tool \in {"mute", "gone"}
    /\ reader' = "wait"
    /\ UNCHANGED <<cancel, tool, code, dog, result, lines, bar, meter>>

\* A thread that takes the end of the output for the end of the program.
ReapedAtEndOfOutput ==
    /\ reader = "wait"
    /\ result' = IF cancel THEN "cancelled" ELSE code
    /\ reader' = "idle" /\ dog' = "off"
    /\ tool' = IF tool = "gone" THEN "none" ELSE tool
    /\ UNCHANGED <<cancel, code, lines, bar, meter>>

\* The cancel event outranks the exit status.
Reaped ==
    /\ reader = "wait" /\ tool = "gone"
    /\ result' = IF cancel THEN "cancelled" ELSE code
    /\ reader' = "idle" /\ tool' = "none" /\ dog' = "off"
    /\ UNCHANGED <<cancel, code, lines, bar, meter>>

\* proc.wait(timeout=3600): reached only after the output has closed, and the
\* program is not killed.
TimesOut(c) ==
    /\ reader = "wait" /\ tool = "mute" /\ c.stream
    /\ reader' = "idle" /\ dog' = Leaving /\ result' = "raised"
    /\ UNCHANGED <<cancel, tool, code, lines, bar, meter>>

-----------------------------------------------------------------------------
(* The watchdog and the program. *)

\* SIGTERM: the program dies of it, or has a handler and goes on.
Terminate ==
    /\ dog = "watch" /\ cancel /\ tool # "none"
    /\ dog' = "asked"
    /\ \/ UNCHANGED <<tool, code>>
       \/ tool \in Alive /\ tool' = "gone" /\ code' = "bad"
    /\ UNCHANGED <<cancel, reader, result, lines, bar, meter>>

\* A watchdog that is sent home when the output ends.
KillWhileReading ==
    /\ dog = "asked" /\ tool \in Alive /\ reader = "read"
    /\ tool' = "gone" /\ code' = "bad"
    /\ UNCHANGED <<cancel, reader, dog, result, lines, bar, meter>>

Kill ==
    /\ dog = "asked" /\ tool \in Alive
    /\ tool' = "gone" /\ code' = "bad"
    /\ UNCHANGED <<cancel, reader, dog, result, lines, bar, meter>>

\* More on stderr than the pipe holds, while the node reads stdout only.
Floods(c) ==
    /\ tool = "running" /\ ~c.stream /\ reader = "read"
    /\ tool' = "blocked"
    /\ UNCHANGED <<cancel, code, reader, dog, result, lines, bar, meter>>

ClosesOutput ==
    /\ tool = "running"
    /\ tool' = "mute"
    /\ UNCHANGED <<cancel, code, reader, dog, result, lines, bar, meter>>

Exits ==
    /\ tool \in {"running", "mute"}
    /\ \E c \in {"ok", "bad"} : tool' = "gone" /\ code' = c
    /\ UNCHANGED <<cancel, reader, dog, result, lines, bar, meter>>

ToolInit ==
    /\ cancel = FALSE /\ tool = "none" /\ code = "ok"
    /\ reader = "idle" /\ dog = "off" /\ result = "none"
    /\ lines = 0 /\ bar = 0 /\ meter = [last |-> 0, phase |-> 0, shown |-> 0]
=============================================================================
