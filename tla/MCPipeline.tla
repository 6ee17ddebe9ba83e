----------------------------- MODULE MCPipeline -----------------------------
(***************************************************************************)
(* A small library: nights of 30 s and 60 s, with and without a dark, with *)
(* and without temperatures, a session of two folders with a file name in  *)
(* common, and one without a camera whose lights have the cards of three   *)
(* capture programs: EXPTIME, EXPOSURE only, and a sensor at 0 degrees.    *)
(***************************************************************************)
EXTENDS Pipeline, TLC

Light(i, e, t, f) ==
    [id |-> i, name |-> i, folder |-> f, whole |-> TRUE,
     header |-> "EXPTIME" :> e @@ "GAIN" :> 60 @@ "DET-TEMP" :> t]
Session(e, u, S) == [exp |-> e, gain |-> 60, bench |-> "d3", camera |-> "tele",
                     filter |-> u, lights |-> S]
Dark(e, t, d, c) == [exp |-> e, gain |-> 60, temp |-> t, depth |-> d,
                     bench |-> "d3", camera |-> c]

MCDarks == <<Dark(30, 20, 10, "tele"), Dark(30, 24, 40, NoCamera),
             Dark(60, 21, 10, "tele"), Dark(30, 24, 10, "wide")>>

MCSessions == <<
    Session(30, "uhc", {Light(1, 30, 20, 1), Light(2, 30, 22, 1),
                        [Light(3, 30, 21, 1) EXCEPT !.whole = FALSE]}),
    Session(60, "uhc", {Light(4, 60, 23, 2), Light(10, 60, 22, 2),
                        [Light(11, 60, 22, 6) EXCEPT !.name = 10]}),
    Session(15, "uhc", {Light(5, 15, 20, 1)}),
    Session(30, "uhc", {Light(6, 30, 0, 3)}),
    Session(30, "vis", {Light(7, 30, 20, 4)}),
    Session(30, "uhc", {Light(8, 30, 26, 5), Light(9, 30, 30, 5)}),
    [Session(30, "vis",
        {Light(12, 30, 20, 7),
         [Light(13, 30, 20, 7) EXCEPT
            !.header = "EXPOSURE" :> 30 @@ "GAIN" :> 60 @@ "CCD-TEMP" :> 20],
         [Light(14, 30, 0, 7) EXCEPT !.header = @ @@ "SET-TEMP" :> 25]})
     EXCEPT !.camera = NoCamera]>>

Osc == <<"convert_lights", "calibrate", "seq_resample", "seq_offset",
         "seq_bg_extract", "seq_register", "seq_stack", "crop", "graxpert",
         "color_balance", "auto_bp_shift", "stretch", "starnet_extract",
         "starnet_replace", "starnet_recombine", "save_image">>
Narrowband == <<"convert_lights", "calibrate", "seq_resample",
         "narrowband_extract", "narrowband_compose", "crop", "stretch",
         "save_image">>

Ask(S, m, t) == [sessions |-> S, mode |-> m, dark |-> 3, template |-> t,
                 enabled |-> {"auto_bp_shift"}, exclude |-> FALSE, palette |-> "hoo"]

MCRequests == {
    [Ask({1}, "auto", Osc) EXCEPT !.enabled =
        {"seq_resample", "graxpert", "color_balance", "auto_bp_shift",
         "starnet_extract", "starnet_replace"}],
    [Ask({1}, "none", Narrowband) EXCEPT !.palette = "hso"],
    Ask({1, 2}, "auto", Osc),
    [Ask({1, 2, 3}, "auto", Osc) EXCEPT !.exclude = TRUE],
    Ask({1, 6}, "auto", Osc),
    Ask({1, 2}, "explicit", Osc),
    Ask({2, 3}, "auto", Osc),
    Ask({1, 4}, "auto", Osc),
    Ask({1, 5}, "auto", Osc),
    Ask({7}, "auto", Narrowband),
    Ask({4}, "auto", Osc), Ask({8}, "auto", Osc)}

MCHosts == {
    [override |-> "unset", appdirs |-> {12}, appimages |-> {14}, system |-> "none"],
    [override |-> "unset", appdirs |-> {}, appimages |-> {}, system |-> "old"]}
=============================================================================
