------------------------------ MODULE FimcControl ------------------------------
(***************************************************************************)
(* The configuration of the FIMC of the S3C6410 (s3c_fimc_v4l2.c,          *)
(* s3c_fimc_cfg.c, s3c_fimc3x_regs.c, s3c_fimc_core.c): what the ioctls    *)
(* make of the two controllers, of the camera they share, of its sensor    *)
(* and of the registers.  Controller 0 has the codec path, controller 1    *)
(* the preview path; both are in one register block.                       *)
(*                                                                         *)
(* A behaviour is that of the clients of one env, chosen at the start: the *)
(* sensor driver built in, the calls each controller's client makes and    *)
(* the formats it asks for.  The ioctls of a node run one at a time, and   *)
(* one that stops the engine to start it again waits in                    *)
(* s3c_fimc_wait_frame_end in between, where calls on the other node run.  *)
(***************************************************************************)
EXTENDS FimcFormat, FimcScaler, FimcSensor

CONSTANTS
    LineLength,   \* pdata->line_length
    Envs          \* the clients considered

Ctrls   == {0, 1}
PR      == 1                 \* ctrl->id of the preview path
Cameras == {"cam", "tp"}     \* s3c_fimc.camera[0] and the test pattern

Calls == {"open", "close", "format", "fbuf", "start", "input", "output", "address",
          "zoom", "parm", "wb", "active", "pattern", "effect", "rotate",
          "bypass", "reset",
          "switch",   \* S_INPUT and S_OUTPUT come while the path runs
          "die"}      \* the client is gone while the path runs

ASSUME SizeAssumption == LineLength \in Nat
ASSUME EnvAssumption ==
    \A e \in Envs :
        /\ e.driver \in Drivers /\ e.answers \in BOOLEAN
        /\ e.max_offset \in Nat   \* bound: they zoom within this window offset
        /\ attach(e.driver, e.answers) # "unbound"
        /\ e.calls \in [Ctrls -> SUBSET Calls]
        /\ e.in_formats \subseteq (PixelFormats \ Jpegs) \X Nat \X Nat
        /\ e.out_formats \subseteq STRING \X Nat \X Nat

VARIABLES
    env,      \* the clients of this behaviour
    ctrl,     \* s3c_fimc.ctrl[]
    camera,   \* the s3c_fimc_camera of the sensor and test_pattern
    sensor,   \* what the sensor is set to
    block,    \* registers the controllers share
    path,     \* registers of each path
    local,    \* windows of the LCD controller fed by the FIMC, not by memory
    waiting,  \* controllers inside s3c_fimc_restart_dma
    hist      \* history: on, started and not stopped since; placed, INPUT_ADDR
              \* has come since the last input format

vars == <<env, ctrl, camera, sensor, block, path, local, waiting, hist>>

-----------------------------------------------------------------------------
(* State after boot: what is static in the driver is zero. *)

InFrame0 ==
    [width |-> 0, height |-> 0, format |-> "RGB565", planes |-> 0,
     order_1p |-> "CRYCBY", order_2p |-> "LSB_CBCR", buf_size |-> 0,
     phys_y |-> 0, phys_cb |-> 0, phys_cr |-> 0]

OutFrame0 ==
    [width |-> 0, height |-> 0, format |-> "RGB565", planes |-> 0,
     order_1p |-> "YCBYCR", order_2p |-> "LSB_CBCR", scan |-> "PROGRESSIVE",
     flip |-> "ORIGINAL", effect |-> "ORIGINAL"]

Scaler0 ==
    [bypass |-> FALSE, hfactor |-> 0, vfactor |-> 0, pre_hratio |-> 0,
     pre_vratio |-> 0, pre_dst_width |-> 0, pre_dst_height |-> 0,
     scaleup_h |-> FALSE, scaleup_v |-> FALSE, main_hratio |-> 0,
     main_vratio |-> 0, real_width |-> 0, real_height |-> 0,
     line_length |-> LineLength, zoom_depth |-> 0]

Ctrl0 ==
    [in_use |-> FALSE, in_type |-> "CAMERA", out_type |-> "DMA",
     in_cam |-> "none", rot90 |-> FALSE, in_frame |-> InFrame0,
     out_frame |-> OutFrame0, sc |-> Scaler0]

\* The registers of a path after s3c_fimc_reset_cfg.
Path0 ==
    [input |-> "CAMERA", envid |-> FALSE, infmt |-> <<"RGB565", 0, "none">>,
     addr |-> [y |-> 0, cb |-> 0, cr |-> 0], ends |-> [y |-> 0, cb |-> 0, cr |-> 0],
     target |-> [format |-> "YCBCR420", planes |-> 0, width |-> 0, height |-> 0],
     flip |-> "ORIGINAL", rot90 |-> FALSE,
     order |-> "YCBYCR", yburst |-> <<0, 0>>, cburst |-> <<0, 0>>,
     pre |-> [shfactor |-> 0, hratio |-> 0, vratio |-> 0, width |-> 0, height |-> 0],
     main |-> [bypass |-> FALSE, up_h |-> FALSE, up_v |-> FALSE,
               interlace |-> FALSE, hratio |-> 0, vratio |-> 0],
     start |-> FALSE, lcd |-> FALSE, cpt |-> FALSE]

Block0 ==
    [source |-> [order422 |-> "YCBYCR", width |-> 0, height |-> 0], window |-> 0,
     vsync |-> FALSE, pattern |-> 0, imgcpten |-> FALSE,
     effect |-> "ORIGINAL", effect_on |-> {}]

test_pattern == NewCamera("ITU_601", "YCBYCR", 640, 480, FALSE)

Init ==
    /\ env \in Envs
    /\ ctrl = [c \in Ctrls |-> Ctrl0]
    /\ camera = [cam |-> Registered(env.driver), tp |-> test_pattern]
    /\ sensor = Unset
    /\ block = Block0
    /\ path = [c \in Ctrls |-> Path0]
    /\ local = {}
    /\ waiting = {}
    /\ hist = [c \in Ctrls |-> [on |-> FALSE, placed |-> FALSE]]

-----------------------------------------------------------------------------
(* The register functions of a start.  ct is a controller, cam its camera, *)
(* p the registers of its path, b those of the block.                      *)

\* The input select bit.
set_input_path(ct, p) ==
    [p EXCEPT !.input = IF ct.in_type = "DMA" THEN "DMA" ELSE "CAMERA"]

set_input_address(f, p) ==
    LET g == InputAddress(f)
    IN  [p EXCEPT !.addr = [y |-> g.phys_y, cb |-> g.phys_cb, cr |-> g.phys_cr],
                  !.ends = InputEnds(g)]

\* The codec path has no register for the order of a one-plane frame.  ENVID is
\* in the register that is written whole.
set_input_dma(c, f, p) ==
    [p EXCEPT !.input = "DMA", !.envid = FALSE,
              !.infmt = <<f.format, IF f.planes = 1 THEN 1 ELSE 2,
                          IF c = PR /\ f.format = "YCBCR422" /\ f.planes = 1
                          THEN f.order_1p ELSE "none">>]

BadCameraSource(cam, b) ==   \* without s3c_fimc_set_window_offset
    [b EXCEPT !.source = [order422 |-> cam.order422, width |-> cam.width,
                          height |-> cam.height]]

set_camera_source(cam, b) ==
    [b EXCEPT !.source = [order422 |-> cam.order422, width |-> cam.width,
                          height |-> cam.height],
              !.window = cam.offset]

set_polarity(cam, b) == [b EXCEPT !.vsync = cam.vsync]

set_prescaler(sc, p) ==
    [p EXCEPT !.pre = [shfactor |-> 10 - (sc.hfactor + sc.vfactor),
                       hratio |-> sc.pre_hratio, vratio |-> sc.pre_vratio,
                       width |-> sc.pre_dst_width, height |-> sc.pre_dst_height]]

\* The start bit and the output path are in the register too and are cleared.
set_scaler(ct, sc, p) ==
    [p EXCEPT !.main = [bypass |-> sc.bypass, up_h |-> sc.scaleup_h,
                        up_v |-> sc.scaleup_v,
                        interlace |-> /\ ct.out_type = "LCDFIFO"
                                      /\ ct.out_frame.scan = "INTERLACE",
                        hratio |-> sc.main_hratio, vratio |-> sc.main_vratio],
              !.start = FALSE, !.lcd = FALSE]

\* Only the preview path has a rotator.
set_rot90(c, p) ==
    IF c = PR THEN [p EXCEPT !.yburst = <<4, 4>>, !.rot90 = TRUE] ELSE p

set_target_format(c, ct, p) ==
    LET f == ct.out_frame
        q == [p EXCEPT !.target = [format |-> f.format, planes |-> f.planes,
                                   width |-> f.width, height |-> f.height],
                       !.flip = f.flip, !.rot90 = FALSE]
    IN  IF ct.rot90 THEN set_rot90(c, q) ELSE q

set_output_dma_pr(ct, p) ==
    LET f == ct.out_frame
    IN  [p EXCEPT !.order = f.order_1p,
                  !.yburst = CASE ct.rot90 -> <<4, 4>>
                               [] ~ct.rot90 /\ f.format = "RGB888" -> get_burst(f.width * 4)
                               [] ~ct.rot90 /\ f.format # "RGB888" -> get_burst(f.width * 2)]

set_output_dma_co(ct, p) ==
    LET f == ct.out_frame
        packed == f.format = "YCBCR422" /\ f.planes = 1
        y == IF packed THEN get_burst_422i(f.width) ELSE get_burst(f.width)
        c == IF packed THEN <<y[1] \div 2, y[2] \div 2>> ELSE get_burst(f.width \div 2)
    IN  [p EXCEPT !.order = f.order_1p, !.yburst = y, !.cburst = c]

set_output_dma(c, ct, p) ==
    IF c = PR THEN set_output_dma_pr(ct, p) ELSE set_output_dma_co(ct, p)

set_output_path(ct, p) == [p EXCEPT !.lcd = (ct.out_type = "LCDFIFO")]

start_scaler(p) == [p EXCEPT !.start = TRUE]

\* The bit of the path; a bypassed scaler captures with the common one alone.
enable_capture(sc, p) == [p EXCEPT !.cpt = @ \/ ~sc.bypass]

start_input_dma(p) == [p EXCEPT !.envid = TRUE]

stop_input_dma(p) == [p EXCEPT !.envid = FALSE]

\* Without the rotator of the LCD path the source is the frame as it lies.
SourceSize(ct, cam) ==
    IF ct.in_type = "CAMERA"
    THEN <<cam.width - 2 * cam.offset, cam.height - 2 * cam.offset>>
    ELSE IF ct.rot90 /\ ct.out_type = "LCDFIFO"
         THEN <<ct.in_frame.height, ct.in_frame.width>>
         ELSE <<ct.in_frame.width, ct.in_frame.height>>

Rescaled(ct, cam) ==
    LET s == SourceSize(ct, cam)
    IN  set_scaler_info(ct.sc, s[1], s[2], ct.out_frame.width, ct.out_frame.height)

CanRescale(ct, cam) ==
    LET s == SourceSize(ct, cam)
    IN  ScalerAccepts(s[1], s[2], ct.out_frame.width, ct.out_frame.height)

\* s3c_fimc_start_dma, for each part of the state.  It takes the controller as it
\* is, whether or not a frame size was ever set.
StartedCtrl(ct, cam) ==
    [ct EXCEPT !.in_frame = IF ct.in_type = "DMA" THEN InputAddress(@) ELSE @,
               !.sc = Rescaled(ct, cam)]

StartedPath(c, ct, cam, p) ==
    LET sc == Rescaled(ct, cam)
        p0 == set_input_path(ct, p)
        p1 == IF ct.in_type = "DMA"
              THEN set_input_dma(c, ct.in_frame, set_input_address(ct.in_frame, p0))
              ELSE p0
        p2 == IF CanRescale(ct, cam) THEN set_scaler(ct, sc, set_prescaler(sc, p1))
              ELSE p1
        p3 == set_output_path(ct, set_target_format(c, ct, p2))
        p4 == IF ct.out_type = "DMA" THEN set_output_dma(c, ct, p3) ELSE p3
        p5 == enable_capture(sc, IF sc.bypass THEN p4 ELSE start_scaler(p4))
    IN  IF ct.in_type = "DMA" THEN start_input_dma(p5) ELSE p5

StartedBlock(ct, cam, b) ==
    [(IF ct.in_type = "CAMERA" THEN set_polarity(cam, set_camera_source(cam, b))
      ELSE b)
        EXCEPT !.imgcpten = TRUE]

Window(c) == IF c = PR THEN 1 ELSE 2   \* argument of open_lcdfifo

StartedLocal(c, ct, l) ==
    IF ct.out_type = "LCDFIFO" /\ ~ct.sc.bypass THEN l \cup {Window(c)} ELSE l

\* s3c_fimc_stop_scaler
StoppedLocal(c, ct, l) == IF ct.out_type = "LCDFIFO" THEN l \ {c} ELSE l

\* s3c_fimc_stop_dma, as far as s3c_fimc_wait_frame_end.
BadStoppedPath(ct, p) ==   \* without s3c_fimc_stop_input_dma
    [p EXCEPT !.start = FALSE, !.cpt = FALSE]

StoppedPath(ct, p) ==
    [(IF ct.in_type = "DMA" THEN stop_input_dma(p) ELSE p)
        EXCEPT !.start = FALSE, !.cpt = FALSE]

BadDisableCapture(c, b) ==   \* without looking at the other path
    [b EXCEPT !.imgcpten = FALSE]

disable_capture(c, b) ==
    [b EXCEPT !.imgcpten = @ /\ \E d \in Ctrls \ {c} : path[d].cpt]

-----------------------------------------------------------------------------
(* The calls *)

Call(c, name) == /\ ctrl[c].in_use /\ c \notin waiting
                 /\ name \in env.calls[c]

\* S_INPUT, S_OUTPUT and close come when the path is stopped, from most clients.
OffOr(c, name) == hist[c].on => name \in env.calls[c]

Cam(c) == camera[ctrl[c].in_cam]

\* s3c_fimc_i2c_command through a controller: the pattern has no client.
I2c(in_cam, s, cmd, arg) ==
    IF in_cam = "cam" /\ attach(env.driver, env.answers) = "bound"
    THEN SensorCommand(env.driver, s, cmd, arg) ELSE s

select_camera(b) == [b EXCEPT !.pattern = 0]

\* s3c_fimc_reset: the table goes from 0x018 on, the source format, the window
\* and the general control register lie before it or are kept.
ResetBlock(b) == [b EXCEPT !.imgcpten = FALSE, !.effect = "ORIGINAL", !.effect_on = {}]
ResetPaths == [c \in Ctrls |-> Path0]

Open(c) ==
    /\ ~ctrl[c].in_use /\ "open" \in env.calls[c]
    /\ ctrl' = [ctrl EXCEPT ![c].in_use = TRUE, ![c].in_cam = "cam"]
    /\ path' = ResetPaths
    /\ block' = select_camera(ResetBlock(block))
    /\ hist' = [hist EXCEPT ![c].on = FALSE]
    /\ UNCHANGED <<env, camera, sensor, local, waiting>>

Release(c) ==
    /\ Call(c, "close") /\ OffOr(c, "die")
    /\ ctrl' = [ctrl EXCEPT ![c].in_use = FALSE]
    /\ UNCHANGED <<env, camera, sensor, block, path, local, waiting, hist>>

\* VIDIOC_S_FMT: a camera's frame is always the output.
SetOutFormat(c, fmt, field) ==
    /\ Call(c, "format")
    /\ ctrl' = [ctrl EXCEPT ![c].out_frame =
                   set_output_format(@, fmt[1], fmt[2], fmt[3], field)]
    /\ UNCHANGED <<env, camera, sensor, block, path, local, waiting, hist>>

SetInFormat(c, fmt) ==
    /\ Call(c, "format") /\ ctrl[c].in_type = "DMA"
    /\ ctrl' = [ctrl EXCEPT ![c].in_frame = set_input_format(@, fmt[1], fmt[2], fmt[3])]
    /\ hist' = [hist EXCEPT ![c].placed = FALSE]
    /\ UNCHANGED <<env, camera, sensor, block, path, local, waiting>>

\* VIDIOC_S_FBUF: only the formats of the overlay.
SetFbuf(c, fmt, field) ==
    /\ Call(c, "fbuf") /\ fmt[1] \in {"RGB565", "RGB24"}
    /\ ctrl' = [ctrl EXCEPT ![c].out_frame =
                   set_output_format(@, fmt[1], fmt[2], fmt[3], field)]
    /\ UNCHANGED <<env, camera, sensor, block, path, local, waiting, hist>>

SetInput(c, type) ==
    /\ Call(c, "input") /\ OffOr(c, "switch")
    /\ ctrl' = [ctrl EXCEPT ![c].in_type = type]
    /\ UNCHANGED <<env, camera, sensor, block, path, local, waiting, hist>>

SetOutput(c, type) ==
    /\ Call(c, "output") /\ OffOr(c, "switch")
    /\ ctrl' = [ctrl EXCEPT ![c].out_type = type]
    /\ UNCHANGED <<env, camera, sensor, block, path, local, waiting, hist>>

\* V4L2_CID_INPUT_ADDR, and the controls that place one plane.
Place(c, frame) ==
    /\ ctrl' = [ctrl EXCEPT ![c].in_frame = InputAddress(frame)]
    /\ path' = [path EXCEPT ![c] = set_input_address(frame, @)]
    /\ UNCHANGED <<env, camera, sensor, block, local, waiting>>

InputAddr(c, addr) ==
    /\ Call(c, "address")
    /\ Place(c, alloc_input_memory(ctrl[c].in_frame, addr))
    /\ hist' = [hist EXCEPT ![c].placed = TRUE]

InputPlane(c, plane, addr) ==
    /\ Call(c, "address")
    /\ Place(c, alloc_plane_memory(ctrl[c].in_frame, plane, addr))
    /\ hist' = [hist EXCEPT ![c].placed = FALSE]

StartDma(c, p, l) ==
    /\ ctrl' = [ctrl EXCEPT ![c] = StartedCtrl(@, Cam(c))]
    /\ path' = [path EXCEPT ![c] = StartedPath(c, ctrl[c], Cam(c), p)]
    /\ block' = StartedBlock(ctrl[c], Cam(c), block)
    /\ local' = StartedLocal(c, ctrl[c], l)
    /\ hist' = [hist EXCEPT ![c].on = TRUE]

\* VIDIOC_STREAMON and overlay(1).  The first start with the camera brings the
\* sensor up, if there is one, and stops the scaler meanwhile.
NeedsInit(c) == /\ ctrl[c].in_type # "DMA" /\ ctrl[c].in_cam = "cam"
                /\ ~camera["cam"].initialized

Start(c) ==
    /\ Call(c, "start")
    /\ IF NeedsInit(c)
       THEN /\ sensor' = I2c("cam", I2c("cam", sensor, "INIT", 0), "RESOLUTION", "DEFAULT")
            /\ camera' = [camera EXCEPT !["cam"].initialized = TRUE]
            /\ StartDma(c, [path[c] EXCEPT !.start = FALSE],
                        StoppedLocal(c, ctrl[c], local))
       ELSE /\ UNCHANGED <<sensor, camera>>
            /\ StartDma(c, path[c], local)
    /\ UNCHANGED <<env, waiting>>

StopDma(c) ==
    /\ path' = [path EXCEPT ![c] = StoppedPath(ctrl[c], @)]
    /\ block' = disable_capture(c, block)
    /\ local' = StoppedLocal(c, ctrl[c], local)
    /\ hist' = [hist EXCEPT ![c].on = FALSE]

\* VIDIOC_STREAMOFF and overlay(0); the frames they free are in FimcMemory.
Stop(c) ==
    /\ Call(c, "start")
    /\ StopDma(c)
    /\ UNCHANGED <<env, ctrl, camera, sensor, waiting>>

\* s3c_fimc_restart_dma, up to the wait and after it.
Restart(c) == StopDma(c) /\ waiting' = waiting \cup {c}

RestartDone(c) ==
    /\ c \in waiting
    /\ StartDma(c, path[c], local)
    /\ waiting' = waiting \ {c}
    /\ UNCHANGED <<env, camera, sensor>>

BadZoomDepth(sc, step) ==   \* the depth is not counted down
    IF step > 0 THEN sc.zoom_depth + step ELSE sc.zoom_depth

ZoomDepth(sc, step) == sc.zoom_depth + step

\* V4L2_CID_ZOOM_IN and _OUT: the depth is the controller's, the offset that of
\* the camera the controller has now.
Zoom(c, step) ==
    LET offset == Cam(c).offset + step * ZOOM_PIXELS
    IN  /\ offset \in (-env.max_offset)..env.max_offset
        /\ ctrl' = [ctrl EXCEPT ![c].sc.zoom_depth = ZoomDepth(ctrl[c].sc, step)]
        /\ camera' = [camera EXCEPT ![ctrl[c].in_cam].offset = offset]
        /\ Restart(c)
        /\ UNCHANGED <<env, sensor>>

ZoomIn(c) ==
    /\ Call(c, "zoom")
    /\ MayZoomIn(ctrl[c].sc, Cam(c).offset)
    /\ Zoom(c, 1)

ZoomOut(c) ==
    /\ Call(c, "zoom")
    /\ MayZoomOut(ctrl[c].sc)
    /\ Zoom(c, -1)

\* VIDIOC_S_PARM: s3c_fimc_change_resolution leaves the sizes of DEFAULT and MAX
\* to the registered camera.
SetParm(c, res) ==
    /\ Call(c, "parm")
    /\ sensor' = I2c(ctrl[c].in_cam, sensor, "RESOLUTION", res)
    /\ Restart(c)
    /\ UNCHANGED <<env, ctrl, camera>>

WhiteBalance(c, type) ==
    /\ Call(c, "wb")
    /\ sensor' = I2c(ctrl[c].in_cam, sensor, "WB", type)
    /\ UNCHANGED <<env, ctrl, camera, block, path, local, waiting, hist>>

ActiveCamera(c, cam) ==
    /\ Call(c, "active")
    /\ ctrl' = [ctrl EXCEPT ![c].in_cam = cam]
    /\ block' = IF cam = "tp" THEN block ELSE select_camera(block)
    /\ sensor' = I2c(cam, sensor, "WB", "AUTO")
    /\ UNCHANGED <<env, camera, path, local, waiting, hist>>

TestPattern(c, type) ==
    /\ Call(c, "pattern")
    /\ ctrl' = [ctrl EXCEPT ![c].in_cam = "tp"]
    /\ block' = [block EXCEPT !.pattern = type]
    /\ UNCHANGED <<env, camera, sensor, path, local, waiting, hist>>

\* The effect is one for both paths, and on for each on its own.
change_effect(c, type, b) ==
    [b EXCEPT !.effect = type, !.effect_on = @ \cup {c}]

Effect(c, type) ==
    /\ Call(c, "effect")
    /\ ctrl' = [ctrl EXCEPT ![c].out_frame.effect = type]
    /\ block' = change_effect(c, type, block)
    /\ UNCHANGED <<env, camera, sensor, path, local, waiting, hist>>

\* Writes the flip of the preview path whichever controller it is for, and clears
\* no rotation.
change_rotate(c, ct, paths) ==
    LET p == IF ct.rot90 THEN [paths EXCEPT ![c] = set_rot90(c, @)] ELSE paths
    IN  IF ct.out_type = "DMA" THEN [p EXCEPT ![PR].flip = ct.out_frame.flip] ELSE p

\* V4L2_CID_ROTATE_* and *FLIP.
Rotate(c, flip, rot90) ==
    /\ Call(c, "rotate")
    /\ ctrl' = [ctrl EXCEPT ![c].out_frame.flip = flip, ![c].rot90 = rot90]
    /\ path' = change_rotate(c, ctrl'[c], path)
    /\ UNCHANGED <<env, camera, sensor, block, local, waiting, hist>>

Bypass(c) ==
    /\ Call(c, "bypass")
    /\ ctrl' = [ctrl EXCEPT ![c].sc.bypass = TRUE]
    /\ UNCHANGED <<env, camera, sensor, block, path, local, waiting, hist>>

\* V4L2_CID_RESET
Reset(c) ==
    /\ Call(c, "reset")
    /\ ctrl' = [ctrl EXCEPT ![c] =
           [@ EXCEPT !.rot90 = FALSE, !.sc = [ctrl[c].sc EXCEPT !.bypass = FALSE],
                     !.out_frame = [ctrl[c].out_frame EXCEPT !.flip = "ORIGINAL",
                                                             !.effect = "ORIGINAL"]]]
    /\ path' = ResetPaths
    /\ block' = ResetBlock(block)
    /\ UNCHANGED <<env, camera, sensor, local, waiting, hist>>

FrameAddr == 16384   \* where a client puts an input frame

CtrlNext(c) ==
    \/ Open(c) \/ Release(c)
    \/ \E f \in env.out_formats, field \in env.fields :
           SetOutFormat(c, f, field) \/ SetFbuf(c, f, field)
    \/ \E f \in env.in_formats : SetInFormat(c, f)
    \/ \E t \in {"CAMERA", "DMA"} : SetInput(c, t)
    \/ \E t \in {"DMA", "LCDFIFO"} : SetOutput(c, t)
    \/ InputAddr(c, FrameAddr)
    \/ \E plane \in {"y", "cb", "cr"} : InputPlane(c, plane, FrameAddr)
    \/ Start(c) \/ Stop(c) \/ RestartDone(c)
    \/ ZoomIn(c) \/ ZoomOut(c)
    \/ \E res \in {"DEFAULT", "MAX"} : SetParm(c, res)
    \/ \E type \in {"AUTO", "SUNNY"} : WhiteBalance(c, type)
    \/ \E cam \in Cameras : ActiveCamera(c, cam)
    \/ TestPattern(c, 1)
    \/ \E type \in {"ORIGINAL", "NEGATIVE"} : Effect(c, type)
    \/ \E flip \in {"ORIGINAL", "XY"}, rot90 \in BOOLEAN : Rotate(c, flip, rot90)
    \/ Bypass(c) \/ Reset(c)

Next == \E c \in Ctrls : CtrlNext(c)

Spec == Init /\ [][Next]_vars
-----------------------------------------------------------------------------
InFrames ==
    [width : Nat, height : Nat, format : Formats, planes : 0..3,
     order_1p : Orders, order_2p : Orders, buf_size : Nat,
     phys_y : Nat, phys_cb : Nat, phys_cr : Nat]

OutFrames ==
    [width : Nat, height : Nat, format : Formats, planes : 0..3,
     order_1p : Orders, order_2p : Orders, scan : {"PROGRESSIVE", "INTERLACE"},
     flip : {"ORIGINAL", "XY"}, effect : {"ORIGINAL", "NEGATIVE"}]

Ratios == {0, 1, 2, 4, 8, 16, 32}

Scalers ==
    [bypass : BOOLEAN, hfactor : 0..5, vfactor : 0..5, pre_hratio : Ratios,
     pre_vratio : Ratios, pre_dst_width : Nat, pre_dst_height : Nat,
     scaleup_h : BOOLEAN, scaleup_v : BOOLEAN, main_hratio : Nat,
     main_vratio : Nat, real_width : Int, real_height : Int,
     line_length : {LineLength}, zoom_depth : Nat]

Controllers ==
    [in_use : BOOLEAN, in_type : {"CAMERA", "DMA"}, out_type : {"DMA", "LCDFIFO"},
     in_cam : Cameras \cup {"none"}, rot90 : BOOLEAN, in_frame : InFrames,
     out_frame : OutFrames, sc : Scalers]

InputFormats == Formats \X (0..2) \X (Orders \cup {"none"})
Addresses    == [y : Nat, cb : Nat, cr : Nat]
Targets      == [format : Formats, planes : 0..3, width : Nat, height : Nat]
Bursts       == (0..16) \X (0..16)
Prescalers   == [shfactor : 0..10, hratio : Ratios, vratio : Ratios, width : Nat,
                 height : Nat]
MainScalers  == [bypass : BOOLEAN, up_h : BOOLEAN, up_v : BOOLEAN,
                 interlace : BOOLEAN, hratio : Nat, vratio : Nat]

Paths ==
    [input : {"CAMERA", "DMA"}, envid : BOOLEAN, infmt : InputFormats,
     addr : Addresses, ends : Addresses, target : Targets, flip : {"ORIGINAL", "XY"},
     rot90 : BOOLEAN, order : Orders, yburst : Bursts, cburst : Bursts,
     pre : Prescalers, main : MainScalers, start : BOOLEAN, lcd : BOOLEAN,
     cpt : BOOLEAN]

CameraStates ==
    [mode : {"ITU_601", "MIPI"}, order422 : Orders, width : Nat, height : Nat,
     vsync : BOOLEAN, offset : Int, initialized : BOOLEAN]

Sensors == [width : Nat, height : Nat, wb : WhiteBalances \cup {"none"}]
Sources == [order422 : Orders, width : Nat, height : Nat]
Blocks  == [source : Sources, window : Int, vsync : BOOLEAN, pattern : Nat,
            imgcpten : BOOLEAN, effect : {"ORIGINAL", "NEGATIVE"},
            effect_on : SUBSET Ctrls]

\* The types; zoom_depth is unsigned and is never counted below 0.
TypeOK ==
    /\ env \in Envs
    /\ ctrl \in [Ctrls -> Controllers]
    /\ \A c \in Ctrls : ctrl[c].in_use => ctrl[c].in_cam # "none"
    /\ camera \in [Cameras -> CameraStates]
    /\ \A id \in Cameras : camera[id].offset \in (-env.max_offset)..env.max_offset
    /\ sensor \in Sensors /\ block \in Blocks /\ path \in [Ctrls -> Paths]
    /\ waiting \subseteq {c \in Ctrls : ctrl[c].in_use} /\ local \subseteq 0..2
    /\ hist \in [Ctrls -> [on : BOOLEAN, placed : BOOLEAN]]

\* Every zoom step in force was counted once, by one of the controllers: the
\* depths and the offsets add up to the same, whichever controller zoomed in,
\* whichever zoomed out again and whichever camera it had by then.
ZoomConserved ==
    ZOOM_PIXELS * (ctrl[0].sc.zoom_depth + ctrl[1].sc.zoom_depth)
        = camera["cam"].offset + camera["tp"].offset

Fresh(c) ==
    /\ ctrl[c].sc.pre_hratio # 0
    /\ ctrl[c].sc.real_width = Cam(c).width - 2 * Cam(c).offset

\* A zoom step s3c_fimc_check_zoom lets pass leaves a picture of some width and
\* height, although it tests the width alone and takes the offsets off twice, as
\* long as the scaler was last set up for the camera and its offset of now.
ZoomKeepsPicture ==
    [][\A c \in Ctrls :
          ctrl'[c].sc.zoom_depth > ctrl[c].sc.zoom_depth /\ Fresh(c) =>
              LET s == SourceSize([ctrl[c] EXCEPT !.in_type = "CAMERA"],
                                  camera'[ctrl[c].in_cam])
              IN  s[1] > 0 /\ s[2] > 0]_vars

InRange(real, target) == 0 < real /\ 0 < target /\ real < 64 * target

\* What the scaler of a running path was given fits its registers and together
\* makes the target size: the pre-scaler is a power of two, its shift is the
\* sum of both, and what is left for the main scaler is less than half.
ScalerInRange ==
    \A c \in Ctrls :
        LET sc == ctrl[c].sc
            p  == path[c]
        IN  /\ p.start
            /\ InRange(sc.real_width, p.target.width)
            /\ InRange(sc.real_height, p.target.height)
            => /\ p.pre.shfactor \in 0..10
               /\ p.pre.hratio * p.pre.vratio * Pow2[p.pre.shfactor] = 1024
               /\ p.main.hratio < 512 /\ p.main.vratio < 512
               /\ p.pre.hratio > 1 => p.main.hratio >= 256
               /\ p.pre.vratio > 1 => p.main.vratio >= 256

Well(calls) == \A c \in Ctrls : env.calls[c] \cap calls = {}

\* IMGCPTEN is one bit for both paths, set by each start and cleared by the stop
\* of the last: a path captures only while it is set, and it is not left set
\* behind (a bypassed scaler captures with no path bit).
CaptureFollowsPaths ==
    LET capturing == \E c \in Ctrls : path[c].cpt
    IN  /\ capturing => block.imgcpten
        /\ Well({"bypass"}) /\ block.imgcpten => capturing

\* After a stop nothing of the path runs, however often it was started before
\* and whatever the other path did: no read of the input frame, no scaler, no
\* capture, and the preview's window of the LCD is fed from memory again.
QuietAfterStop ==
    \A c \in Ctrls :
        env.calls[c] \cap {"switch", "die"} = {} /\ ~hist[c].on =>
            /\ ~path[c].envid /\ ~path[c].start /\ ~path[c].cpt
            /\ c = PR => Window(PR) \notin local

\* The interface cuts the offset the driver counts with out of a source of the
\* camera's size, whichever controller zoomed last.
CropFollowsCamera ==
    Well({"active", "pattern", "input"}) /\ waiting = {} =>
        \A c \in Ctrls : path[c].cpt =>
            /\ block.window = camera["cam"].offset
            /\ block.source.width = camera["cam"].width
            /\ block.source.height = camera["cam"].height

\* The picture is the same in all the places that describe it, whichever
\* controller changed one of them: the interface is set for the camera and its
\* offset, the sensor, once brought up, sends the size the camera is registered
\* with, and the interface makes the test pattern only while some controller has
\* the pattern as its camera.
SourceAgrees ==
    /\ CropFollowsCamera
    /\ camera["cam"].initialized /\ env.answers =>
           sensor.width = camera["cam"].width /\ sensor.height = camera["cam"].height
    /\ block.pattern # 0 => \E c \in Ctrls : ctrl[c].in_cam = "tp"

\* What is written of a line, as <<bytes, bursts>>.  The preview path writes it as a
\* whole; the codec path writes luma and each chroma with bursts of their own, one
\* after the other in turns when the line is packed.
WrittenLines(c, p) ==
    LET w == p.target.width
    IN  IF c = PR
        THEN {<<IF p.target.format = "RGB888" THEN w * 4 ELSE w * 2, p.yburst>>}
        ELSE {<<w, p.yburst>>, <<w \div 2, p.cburst>>}

\* Some main bursts and one last burst, in words of four bytes.
WholeBursts(words, burst) ==
    /\ burst[2] <= words
    /\ (words - burst[2]) % burst[1] = 0

\* A running path writes each line in whole bursts, its luma and its chroma in
\* those set for each, when both are whole words.  The driver does not ask for
\* that: a packed line of 100 pixels by the codec path has 25 words of luma and
\* bursts of two.  RGB by the codec path and planes by the preview path, whose
\* bursts are computed for another line, are not in it either.
BurstsTile ==
    \A c \in Ctrls :
        LET p == path[c]
            written == IF c = PR THEN p.target.format \in {"RGB565", "RGB888"}
                                        \/ p.target.planes = 1
                       ELSE p.target.format \notin Rgb
        IN  /\ p.start /\ ~p.lcd /\ ~p.rot90 /\ written /\ p.target.width > 0
            /\ \A line \in WrittenLines(c, p) : line[1] % 4 = 0
            => \A line \in WrittenLines(c, p) : WholeBursts(line[1] \div 4, line[2])

\* An input frame placed as a whole is read plane after plane, without a gap
\* and within the size the driver counts for it.
InputPlanesFit ==
    \A c \in Ctrls :
        LET a == path[c].addr
            e == path[c].ends
            f == ctrl[c].in_frame
        IN  hist[c].placed /\ f.planes > 0 /\ a.y # 0 =>
                IF f.planes = 1 THEN e.y <= a.y + f.buf_size
                ELSE e.y = a.cb /\ e.cb = a.cr /\ e.cr <= a.y + f.buf_size
=============================================================================
