---------------------------- MODULE MCFimcControl ----------------------------
(* FimcControl for TLC: one set of clients for each question. *)
EXTENDS FimcControl, TLC

Client(driver, answers, co, pr, out_formats, in_formats, fields, max_offset) ==
    [driver |-> driver, answers |-> answers, calls |-> (0 :> co @@ 1 :> pr),
     out_formats |-> out_formats, in_formats |-> in_formats, fields |-> fields,
     max_offset |-> max_offset]

Basic == {"open", "format", "start"}
Prog  == {"NONE"}
Vga   == {<<"YUYV", 640, 480>>}
Lines == {<<p, w, 120>> : p \in {"YUYV", "NV21", "RGB565", "RGB24"},
                          w \in {8, 24, 100, 320, 336}}

Clients ==
    { \* one controller zooms as far as it is let, or both zoom the one camera
      Client("ov965x", TRUE, Basic \cup {"zoom"}, {"open", "start"}, Vga, {}, Prog, 256),
      Client("s5k3ba", TRUE, Basic \cup {"zoom", "close"}, Basic \cup {"zoom"},
             {<<"YUV420", 320, 240>>}, {}, Prog, 96),
      \* zooming while one of them goes to the test pattern and back
      Client("s5k6aa", TRUE, Basic \cup {"close", "zoom", "pattern", "active"},
             {"open", "zoom", "active"}, {<<"YUYV", 320, 240>>}, {}, Prog, 64),
      \* frames from memory, inputs and outputs changed while stopped
      Client("ov965x", TRUE, {"open", "start"},
             Basic \cup {"input", "output", "address"},
             {<<"RGB24", 240, 320>>},
             {<<p, 320, 240>> : p \in {"YUV420", "YUYV"}}, Prog, 0),
      Client("ov965x", TRUE, Basic \cup {"input", "address", "close"}, {"open", "start"},
             {<<"NV12", 320, 240>>}, {<<"YUV422P", 320, 240>>}, Prog, 0),
      \* ... and while they run, and clients that die
      Client("ov3640", FALSE, {"open", "start", "zoom", "input", "switch"},
             Basic \cup {"output", "switch", "close", "die"}, Vga, {}, {"INTERLACED"}, 32),
      \* orientation, effects, reset and the bypassed scaler
      Client("ov965x", TRUE, {"open", "start", "rotate"},
             Basic \cup {"rotate", "output", "reset"},
             {<<"RGB565", 400, 240>>}, {}, Prog, 0),
      Client("ov965x", TRUE, {"open", "start", "effect", "bypass"},
             {"open", "start", "effect", "bypass", "reset", "output"}, {}, {}, Prog, 0),
      \* sizes and formats, sources of 2, 4 and over 64 times the target
      Client("ov965x", TRUE, Basic \cup {"fbuf"}, {"open"}, Lines, {}, Prog, 0),
      Client("ov965x", TRUE, {"open"}, Basic, Lines, {}, Prog, 0),
      \* what the sensor is told
      Client("s5k4ba", TRUE, Basic \cup {"parm", "wb"}, {"open", "start", "parm"},
             {<<"YUYV", 800, 600>>}, {}, Prog, 0),
      Client("ov3640", FALSE, Basic \cup {"parm", "wb"}, Basic, Vga, {}, Prog, 0) }
=============================================================================
