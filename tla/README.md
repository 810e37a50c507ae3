# Specifications of the mini6410 Android port

TLA+ models, TLC runs and TLAPS proofs for the code of this repository: the port
of Android 2.3 to the FriendlyARM mini6410 board (Samsung S3C6410). The code that
carries logic of its own is the camera stack, from the kernel driver of the
camera interface (FIMC) up to the camera service, the `init` process and the
touch screen driver; `external/` holds third-party programs.

## 1. The system

| Part | Source | State it keeps | Operations | What is hard |
| --- | --- | --- | --- | --- |
| FIMC stream | `kernel/.../fimc/s3c_fimc_core.c`, `s3c_fimc_v4l2.c`, `s3c_fimc_cfg.c`, `s3c_fimc.h` | `ctrl->flag` (status, usage, interrupt phase), `in_use`, `lock`, `waitq`, `skip_frames`, the engine | open, release, poll, read, STREAMON/OFF, overlay, restart, the frame interrupt | the interrupt rewrites the flag word under the file operations, which hold no lock; two interrupts of which one wakes; time-outs |
| FIMC memory | `s3c_fimc_cfg.c`, `s3c_fimc_v4l2.c`, `s3c_fimc3x_regs.c` | `dma_current` of the pool, `out_frame.addr/nr_frames/buf_size`, the engine's address registers | S_FMT, S_FBUF, REQBUFS, QUERYBUF, mmap, NR_FRAMES, S_OUTPUT, start, stop | a bump pointer shared by the controllers; failures reported as success; frames freed while the engine may still write |
| FIMC configuration | `s3c_fimc_v4l2.c`, `s3c_fimc_cfg.c`, `s3c_fimc3x_regs.c` | `scaler`, formats, `in_type`, `out_type`, `in_cam`, `rot90` of each controller; the offsets of each camera; the registers of each path and the shared ones | S_FMT, S_FBUF, S_INPUT, S_OUTPUT, S_PARM, zoom, white balance, camera, pattern, effect, orientation, reset, input addresses, start, stop, restart | state split between camera, controller and shared registers; unsigned arithmetic at the borders; errors ignored |
| Sensors | `ov965x.c`, `s5k4ba.c`, `s5k3ba.c`, `s5k6aa.c`, `ov3640.c` and their tables | what the sensor is set to, `initialized` | INIT, RESOLUTION, WB; probing | the size registered and the size sent are in two places |
| Ov965x camera | `vendor/.../libcamera/Ov965xCamera.cpp` | descriptor, mappings, sizes | startPreview, stopPreview, next frame | its process dies anywhere |
| Camera HAL | `S3C6410CameraHardware.cpp` | preview thread, heaps, parameters, fake camera | startPreview, stopPreview, takePicture, autoFocus, setParameters | threads joined outside the lock that guards them |
| Camera service | `frameworks/.../CameraService.cpp` | one client slot per camera, the client's lock and pid, message mask | connect, disconnect, lock, unlock, preview, picture; callbacks | callbacks that need a lock the caller holds while it waits for them |
| init | `system/core/init/init.c` | service flags, pid, crash counts; action queue | start, stop, restart, reap, property triggers | a child that dies between two commands |
| Touch screen | `kernel/drivers/input/touchscreen/ts-if.c` | calibration, last sample | timer, `/proc` read and write | calibration used while it is replaced |
| Others | `USBCamera.cpp`, `JpegEncoder.cpp`, `light.c`, `external/boa`, `external/tslib` | | | I/O wrappers or third-party code |

The camera object opens `/dev/video0` (controller 0), configures and maps frames
through the memory ioctls and streams; the driver's interrupt and the engine run
beside it; a second controller shares the register block, the memory pool and the sensor.
The HAL runs the camera object in a preview thread; the camera service calls the
HAL on behalf of one client and receives its callbacks.

The hazards of this code, each at its line, are the `hazards` of `PROJECT.json`;
the properties below are aimed at them.

## 2. Modules

| Module | Models |
| --- | --- |
| `CaptureNode` | abstract: one process has the node, and only its start and stop calls change whether the interrupt serves the stream |
| `FimcStream` | the flag word, the interrupt and the file operations of one controller; implements `CaptureNode` |
| `FimcMemory` | the memory pool, the frame tables and the address registers |
| `FimcFormat` | pixel formats, frame sizes, planes of an input frame, burst lengths (operators) |
| `FimcScaler` | scaler factors and the test of a zoom step (operators) |
| `FimcSensor` | the five sensor drivers: the cameras they register and their commands (operators) |
| `FimcControl` | composes these three: both controllers, the camera they share, the sensor and the registers, under every configuring ioctl |
| `OvCapture` | `FimcMemory` driven by the Ov965x camera object |
| `PreviewContract` | abstract: a preview is off, on or stopping; frames are shown only while it is on, and it has stopped only when none is in flight |
| `CameraClient` | one client of the camera service with its HAL object: the calls, the preview, picture and focus threads, the callbacks; implements `PreviewContract` |
| `CameraSlot` | the camera service between several applications: the slot, the busy flag, the life of client objects, the two locks |
| `InitServices` | `init`: services, the action queue and the main loop |
| `MCInitServices` | a boot script and a property trigger for `InitServices` |
| `MCCameraSlot` | the symmetry set of `CameraSlot`: applications are alike, and so are client objects |
| `MCFimcControl` | the twelve sets of clients of `FimcControl` |
| `FimcStreamProofs`, `FimcMemoryProofs`, `OvCaptureProofs`, `FimcControlProofs`, `CameraClientProofs`, `CameraSlotProofs`, `InitServicesProofs` | TLAPS proofs about the module named, see section 4 |
| `FimcArithmetic` | lemmas about the operators of `FimcFormat` and `FimcScaler`: buffer sizes, bursts, scaler factors |

### FimcStream

`flag` is the set of bits of `ctrl->flag`. The S3C6410 has one core, so a handler
runs to its end between two instructions of a process. Every `FCLR_x` and the
second half of every `FSET_x` is a row of the table `Rmw`: a process at such a
label first loads the word into `tmp[p]` (`Load`), then stores it back with the
group cleared or the bit set (`Store`), and `Irq` may come between. The labels
`on*`, `off*`, `ov*`, `poll*`, `hit*`, `read*` are the statements of the functions
named in the map; `open1` and `open2` are the two halves of `s3c_fimc_open` under
`ctrl->lock`. `dma` is the engine: `StopEngine` leaves it draining, and
`FrameEnd` ends that frame at any time, before or after
`s3c_fimc_wait_frame_end` has given up. `PeerOpen` is the reset of the shared
registers by another controller. `s3c_fimc_poll` and the kernel's `poll` loop
around it are `Poll*`; on a time-out the kernel calls the driver a last time.
`mode` and `stale` are history: what the last call to return has asked for, and
whether the status has been cleared since.

Not in it: `init_camera` and the register writes of `start_dma` (they change no
state the properties see), the data `read` copies, more than one thread on one
descriptor. `IRQ_NORMAL`, `RUNNING` and `IRQ_Y` exist in the word but nothing
sets them; the interrupt's `IRQ_NORMAL` case is modelled and never taken.

### FimcMemory and OvCapture

Memory is counted in pages because `s3c_fimc_get_buffer_size` rounds up to one. A
call is one step, as the V4L2 core runs the ioctls of a node one at a time, except
that those which stop the engine wait in `s3c_fimc_wait_frame_end`: `Stop` and
its `...Done` are two steps with `FrameEnd` and the other controller between.
`FreeOutput` and `AllocOutput` are functions from (table, pool pointer) to the
same, so that each ioctl is written as the calls it makes. `regs` and `target`
are what the engine was last told; the properties compare them with the table.
`OvCapture` composes this with the camera object: one action per call it makes,
`Destroy` between any two of them.

### FimcControl, FimcFormat, FimcScaler, FimcSensor

`ctrl[c]` is `s3c_fimc.ctrl[c]` without its memory and flag word (those are
`FimcMemory` and `FimcStream`), `camera` the two `struct s3c_fimc_camera` a
controller can have, `path[c]` the registers of the codec (0) and preview (1) paths,
`block` those both use, `local` the LCD windows the driver has taken from the
display. An action is an ioctl and calls the register functions the code calls, in
its order: each is an operator with the name of the C function, from the registers of
a path to the same (`StartedPath` is `s3c_fimc_start_dma`). Numbers are the code's:
widths are pixels, ratios and bursts are what is written. The driver tests neither
whether a path is running nor whether it was ever configured, so neither do the
actions; a restart (zoom, S_PARM) is two steps with `s3c_fimc_wait_frame_end`
between them, where calls on the other node run.

A behaviour belongs to one *set of clients* (`env`): the sensor driver and whether the
sensor answers, the calls each controller's client makes, the formats it asks for and
the window offset up to which it zooms (`max_offset`). `switch` and `die` are clients
that change input or output, or close, while their path runs. The four equal offsets
of a window are one number, since every zoom changes all four.

What the model keeps because the code does it, although it is surprising:

- the orders of `NV16`, `NV61`, `NV16X` and `NV61X` are stored in `order_1p`
  (`s3c_fimc_cfg.c:576`), so these formats use the order of an earlier one;
- `s3c_fimc_change_rotate` writes the flip of the preview path for the codec too, and
  nothing but a start clears the rotation bit (`s3c_fimc3x_regs.c:1191`);
- for the codec `open_lcdfifo` is given window 2 and `close_lcdfifo` window 0, its own
  number: a window the codec has taken is never given back (`s3c_fimc3x_regs.c:736`);
- `s3c_fimc_stop_dma` asks the present `in_type` and `out_type`: after S_INPUT or
  S_OUTPUT on a running path the old input or window stays on;
- `ov965x_probe` keeps the client of a sensor that did not answer, while the I2C core
  leaves it without a driver, and the next command would go through a null pointer. The
  assumption `EnvAssumption` keeps that case out; the other drivers have no client then;
- `initialized` is set whether or not the sensor could be reached.

Not in it: the colours of the arbitrary effect, DMA offsets (no ioctl sets them), the
JPEG controls, and the sizes other than DEFAULT and MAX that `s3c_fimc_change_resolution`
knows and no caller passes.

### CameraClient

Every call of `CameraService::Client` holds `mLock` from its first test to its
return, so the calls of all binder threads are one sequence: `call` is the one that
runs, `step` where it is, `runner` who runs it. `stopPreview`, `takePicture` and
`disconnect` share the HAL's `stopPreview`: `HalExit` (request, under the HAL's
lock), `HalJoin` (wait, outside it), `HalClear` (forget the thread, under it
again). The HAL's own `mLock` is never held over a wait, so each section under it
is one step. The client's and the HAL's message masks are changed one after the
other under `mLock` and every reader tests both, hence one `mMsgEnabled`.

`at[t]` is where a HAL thread is: in its loop, in the camera, between the steps of
`lockIfMessageWanted` (`want` tests the mask, `try` is tryLock), in a handler with
the lock, in the application's callback without it. A callback holds a strong
reference, so `EndCallback` may run `~Client`, and with it the teardown, in the
HAL's own thread (`TearDown`, with the thread at "destroy"). Where the code uses a null or
freed object (`Broken`), the process may go on with whatever it reads or die;
`Crash` is the latter, after which `init` has started it again. `NextClient`
is the next `connect()`, once no thread of this client is left.

Not in it: preview callback flags, POSTVIEW, overlays (`useOverlay` of this HAL is
false), recording (`startRecording` of the HAL fails after the preview has been
started as by `startPreview`), a `createThread` that fails, `dump`, and `unlock`,
which is `CameraSlot`'s. `Shots` names picture and focus threads: the code starts one
per call, the model as many as there are names. `hasty` is history: whether the
application has started a preview or a picture before the last picture came back.

### CameraSlot

One action per statement that touches shared state in `connect`, `disconnect`,
`removeClient`, `lock`, `unlock`, `Client::connect` and `~Client`. `refs[o]` is the set of
strong references to a client object by kind and holder; `Drop` gives one up and,
if it was the last, sends the thread into `~Client`: it makes itself the owner and
goes through `disconnect()` from `lock` on. `life` distinguishes a client the weak
reference of the slot can still promote from one in its destructor. `Callback` is
`getClientFromCookie` in a thread of the HAL, which takes no lock. Each application
has one binder thread in the service at a time. `Remove` compares binders, as the code
does, and two null ones are equal: after `unlock()` the owner's binder is null, and
so is that of the client in the slot, which is the same one.

### InitServices

`main()` is one process; its loop is `loop`: a command, `restart_processes` (one
step per service visited, as `gettime` is read for each), `poll`, then the
descriptors it reports, property messages before signals as they were added. Beside it
children die and time passes at any step. Times are what is left of them:
`restart_in[s]` until `time_started + 5`, `uptime` until the clock, which starts with the
kernel, is at 5, so that `time_started = 0` is "long ago" and no earlier than it is.
A `Fork` takes a free process number; `ForkFails` and `StartRefused` (no console, no
executable, arguments for a service that is not one-shot) may happen at any start.
`notify_service_state` sets a property and so may queue a triggered action.
`Reap`, `Died`, the queue's `Add` and `AllTriggers` stand for files outside the repository and
follow what `init.c` expects of them: an action is queued at most once, a service
that died restarts unless it is one-shot or disabled. Actions triggered together are
a set, and are queued in any order, since the order is that of the parser's list.

Not in it: the child between fork and exec, keychords, critical services and
`onrestart` (in `signal_handler.c`), an interrupted `poll` (it only repeats the loop).

## 3. Runs

| Run | Instance | Shows |
| --- | --- | --- |
| `stream` | 2 processes, shared registers | `TypeOK`, `ExclusiveOpen`, `StreamArmed`, `QuietWhenOff`, `StaleFrameOnce`, `ServesOneOwner` (refinement of `CaptureNode`), `WaiterServed` |
| `control` | 2 controllers, 12 sets of clients, the 5 sensors, line buffer of 640 | `TypeOK`, `ZoomConserved`, `ZoomKeepsPicture`, `ScalerInRange`, `CaptureFollowsPaths`, `QuietAfterStop`, `SourceAgrees`, `BurstsTile`, `InputPlanesFit` |
| `memory` | 2 controllers, one of which may feed the LCD, frames of 1 or 2 pages, 11 pages, REQBUFS of 5 frames | `TypeOK`, `PoolExact`, `AllFramesApart` |
| `memory_nr` | 1 controller, frames of 1 or 2 pages, with `V4L2_CID_NR_FRAMES` 3 | violates `NrFramesUsed` |
| `ov_capture` | frames of 1 to 3 pages, 12 pages | `EngineInOwnFrames`, `GrabReadsFrame` |
| `client` | 1 picture or focus thread, 2 frame sizes | `TypeOK`, `PostsToOwnHeap`, `PreviewEndedAtTeardown`, `KeepsContract` (refinement of `PreviewContract`), `StopReturns`, `HardwareReleased` |
| `client_idle` | the same | violates `IdleAtTeardown` |
| `client_picture` | the same | violates `TakePictureReturns` |
| `camera_slot` | 2 applications, 2 client objects, a callback thread | `TypeOK`, `OneHardware`, `SlotFollowsHardware`, `LocksOrdered`, `SoundsCounted`, `OwnerTearsDown` |
| `camera_slot_live` | 2 applications, 1 client object | `CameraFreed` |
| `init` | a daemon and a second one or a one-shot service, 2 process numbers, 2 seconds between starts | `TypeOK`, `OwnProcess`, `PublishedState`, `NoMissedWork`, `StoppedStaysStopped`, `RestartHappens` |
| `init_two` | the same | violates `OneProcess` |

Bounds. Two processes are enough to contend for the node, since `open` lets one
in. Eleven pages hold the small frames of both controllers, or the large frames of one
and not the small ones of the other beside them: allocations succeed, fail at the
first frame and fail after some, on either side of the other's. A REQBUFS of 5 is
more than there are frames and is cut to 4. With 12 pages every size
fits, which is `PoolHoldsFrames`, the assumption under which the camera object is
right: it does not look at what REQBUFS allocated. One picture thread can already meet the preview thread, a
call and the destructor; with two names `client` passes as well (851 504 states),
and takes minutes. Two client objects are one that is being destroyed beside the one
that replaces it, the case `mBusy` is for; `OpenFails` is also what happens when no
name is left. With one object `camera_slot_live` has every path of one life and of
a rejected `connect`. Two process numbers are a process and the one
that replaces it, or both services; when none is left a fork fails (the safety
properties also hold with three). Two seconds instead of five keep one
service due before, with and after the other. The clients of `control`
zoom up to 256 pixels on each side, beyond the half of the smaller dimension of the
640 by 480 sensor, so that the test of the driver and not the bound ends the zoom; the
others stay at one to three steps, which is what two controllers need to take back each
other's. The widths 8, 24, 100, 320 and 336 have every remainder modulo 16 words that
`get_burst` and `get_burst_422i` distinguish, 100 is a line the codec path cannot divide
(below), and with a height of 120 give sources of exactly 2 and 4 and of more than 64
times the target. The skip count stops at
`SkipLimit`; the code's counter goes on and is only compared with it.
`CHECK_DEADLOCK` stays on everywhere: a system in which every process is stuck
would be found.

Fairness (`stream`). Weak fairness of the engine (a frame ends again and
again while it is on), of the interrupt (it is taken while the line is raised) and
of a process inside the driver, which the scheduler runs. No fairness on calls,
time-outs or signals: a process need not call, and must be served without a
time-out to rescue it. The property allows for the engine stopping, as another
controller's open does.

Fairness (`client`). Weak fairness of the call that runs and of every HAL thread:
both are scheduled. Nothing says that `tryLock` succeeds, and the application need
not call again. `camera_slot_live` adds strong fairness of taking a mutex, since a
mutex that is released again and again is in the end got by the thread that waits
for it; without it a thread of `~Client` could lose `mServiceLock` for ever to
applications that call `connect()`.

Fairness (`init`). `init` runs when it can, and time passes. No message need come and
no process need die, so `RestartHappens` rests on the time-out of `poll` alone.

What the runs say about the code:

- `StreamArmed`: losing an interrupt's update to a stale store costs a frame and
  never the stream, because a lost update restores the phase before it and each
  phase leads to the other.
- `StaleFrameOnce`: STREAMON leaves `HANDLE_IRQ`. The first poll of a stream may
  report a frame of the previous one; the second may not.
- `ZoomConserved`: `zoom_depth` is commented "current zoom depth (0 = original)"
  (`s3c_fimc.h:359`), but it is counted for the controller while the pixels are taken off the
  camera the controller has at that moment. Zooming in on the camera and out on the test
  pattern leaves depth 0, the pattern with an offset of -32 and the camera with 32. A
  second controller on the same camera sees the same. What holds is that no step is
  lost: the depths and the offsets add up to the same. Who took a step back the
  property does not tell, so it does not guard against this; the hazard stands as it is.
- `ZoomKeepsPicture` says of the zoom test that it is on the safe side although it takes the
  offsets off twice and looks at the width alone: the unsigned division fails for what is
  negative, long before the height is used up. It needs a start before the zoom and no
  change of camera or offset since (`Fresh`): before the first start the division is by
  0, which `__div0` makes 0, and any step passes.
- `QuietAfterStop` holds of clients that stop before they switch or close.
- `SourceAgrees`: the ov965x driver registers 640 by 480 in its QVGA build too, where its table
  makes the sensor send another size; `FimcSensor` has the VGA build. Selecting the camera on
  one controller ends the test pattern for the other, which goes on with the pattern as its
  camera.
- `CaptureFollowsPaths` holds with both
  controllers, clients that die and restarts that overlap. With a bypassed scaler
  IMGCPTEN alone is set, and nothing but the stop of some path clears it.
- `BurstsTile` compares each part of a line with the bursts set for it: a preview line with
  `YBURST`, the luma of a codec line with `YBURST` and each chroma with `CBURST`, which for a
  packed line are half and a quarter of what `s3c_fimc_get_burst_422i` wants. It is about
  lines whose luma and chroma are whole words. The driver does not ask for that: a packed
  line of 100 pixels has 50 words, 25 of luma, and bursts of two for them. It
  leaves out RGB frames by the codec and planar frames by the preview path: the codec
  computes the bursts of a luma line for RGB, and the preview those of two bytes a pixel
  for planes.
- `InputPlanesFit` holds because `alloc_input_memory` and `set_input_address` divide alike; a
  client that places the planes one by one is not covered by it, nor one that sets another
  format after it has placed the frame: the registers keep the old planes until a start.
- `PoolExact` and `AllFramesApart` need a client that never changes the number of
  frames while some are allocated. `memory_nr` is the counterexample without that:
  `s3c_fimc_set_nr_frames` and REQBUFS change `nr_frames` first and free by it
  later, against the header's "how many output frames used". S_FMT takes four frames, the
  control stores two for 3, and the next free gives back only two of the four.
- `StopReturns` holds because `stopPreview` and `disconnect` disable the message before
  they wait. `takePicture` does not: `client_picture` is the preview thread between
  the test of the mask and `tryLock` while `takePicture` waits for it with the lock
  held. It polls for ever.
- `client_idle`: `cancelPicture()` and `release()` do nothing in this HAL, so `disconnect()`
  destroys the HAL object under a picture or focus thread, although its comment
  says that the hardware must be idle. `PreviewEndedAtTeardown` is what does hold.
- `setParameters` with another size deletes the camera and makes none (the comment at
  `S3C6410CameraHardware.cpp:193` says "Recreate"); a second one makes it again. The
  model does the same; no property is claimed of it, and the liveness properties
  allow for the process dying of it.
- `PostsToOwnHeap` needs an application that waits for its picture: the shutter
  handler registers the picture's buffer in a second critical section, after an
  application that did not wait may have started a preview.
- `LocksOrdered`: `connect` and `removeClient` declare their reference before the lock, so
  that the last reference is dropped after it; and `SoundsCounted` counts a client
  until its destructor has ended, not until `disconnect()`.
- `init_two`: `service_stop` clears `SVC_RUNNING` while the process is still exiting, so
  stop and start before it is reaped give a second process; the comment in
  `service_start` says a service in the process of exiting restarts on exit.
  `OwnProcess` and `PublishedState` hold all the same: the first process, when it
  dies, is nobody's.
- `EngineInOwnFrames` needs a frame to end within the 20 jiffies of
  `s3c_fimc_wait_frame_end` (`FrameInTime`): it shows that the wait is needed and comes in
  the right place, not that it is long enough.

## 4. Proofs

TLAPS proves every safety invariant and every action property that a passing run
checks, and both refinements, for every value of the constants that satisfies the
named assumptions of the modules (disjoint names, controllers numbered below
`S3C_FIMC_MAX_CTRLS`, sizes that are natural numbers, ...). Two modules need more;
the hypothesis is then part of the theorem and named where it is used: `FixedFrames`
and `Platform` below.

| Module | Theorems |
| --- | --- |
| `FimcStreamProofs` | `TypeCorrect`, `OneUser`, `ServiceFollowsCalls`, `QuietAfterStreamOff`, `StaleOnce`; `ImplementsCaptureNode` (refinement) |
| `FimcMemoryProofs` | `TypeCorrect`, `PoolIsExact`, `FramesAreApart` |
| `OvCaptureProofs` | `EngineConfined`, `GrabsWholeFrames` |
| `FimcControlProofs` | `TypeCorrect`, `ZoomIsConserved`, `CaptureIsShared`, `StopIsQuiet`, `OnePicture`, `ScalerIsInRange`, `InputPlanesAreRight`, `BurstsMakeLines`; `ZoomLeavesPicture` (action property) |
| `CameraClientProofs` | `TypeCorrect`, `PreviewEnded`, `PostsRight`; `ImplementsContract` (refinement) |
| `CameraSlotProofs` | `TypeCorrect`, `HardwareExclusive`, `SlotCorrect`, `LocksAcyclic`, `SoundsCorrect`; `TeardownByOwner` (action property) |
| `InitServicesProofs` | `TypeCorrect`, `KillsItsOwn`, `PublishesState`, `MissesNoWork`; `StopIsFinal` (action property) |

Each of these modules but `FimcControlProofs` has an inductive invariant, a theorem
`Inductive` (`OvInductive`) that it holds always, and takes the rest from it.

**`FimcStream`**, for every set of processes and whether registers are shared or not.
`IInv` has four layers, each proved from those before it. `TypeOK` is not
inductive alone: `Release` decrements `in_use` without a test, so it needs
`LockInv`, which says who holds the lock, that `open2` has seen `in_use = 0`, and
that `in_use` counts the one process inside. `ServiceInv` says why the unlocked
updates are harmless: a word loaded before an interrupt differs from the word
after it neither in usage nor in whether a phase is set (`SameService`, lemma
`FrameFlagsService`), so storing it back changes neither (`StoreService`); the
rest is what each label of streamon and streamoff has established (`CallInv`).
`StaleInv` follows `HANDLE_IRQ` through the copies. The refinement maps every
interrupt, poll and read step to a stutter and every store inside a start or stop
call to `Change`.

**`FimcMemory`**, for every pool, frame sizes and set of controllers. `IInv` adds to
`PoolExact` the shape of a table: after an allocation slot `i` is the first address plus
`i % nr_frames` frames (`Filled`), after a free the slots below `nr_frames` are NULL and
those above may be stale (`Empty`), for an allocation that fails half-way gives back what
it took. The hypothesis `FixedFrames` says that REQBUFS and `V4L2_CID_NR_FRAMES` leave the
number of frames at the platform's. Without it the theorems are false: that is the run
`memory_nr`, and `memory` has clients that keep to it (a REQBUFS of 5 is cut to 4).

**`OvCapture`**, for every pool that holds the frames of every size. `OvInv` says what each
point of the camera object's calls knows: what the driver has (`NodeInv`), that the frames
start where the pool does (`AloneInv`, by which an allocation cannot fail), that table,
registers and mappings are those of one S_FMT (`SizeInv`, `MappedInv`, `EngineInv`). Its
hypothesis `Platform` is that the platform data give four frames, the number the object
asks for, and that a frame ends before `s3c_fimc_wait_frame_end` gives up. With fewer
frames REQBUFS would free those of S_FMT as if they were four, and `FrameInTime` is what
`EngineInOwnFrames` rests on.

**`FimcControl`**, for every set of clients, whatever they call and whatever sizes they ask
for, and every line length. What a call does is said once, in four relations between the
states before and after it: `Configured` (it touches no running path), `Cleared` (open and
reset), `Halted` (a stop, alone or before a restart) and `Started`. Lemma `CallStep` puts
every call in one of them and proves the types on the way (`Base`: `TypeOK`, and frames
whose planes are those of their format); each invariant is then proved over four cases
and not over the twenty-four actions. The invariants and what they need:

- `ZoomConserved` is inductive over `Base`; `CaptureInv` says which bit of the common
  register follows from which path, `QuietInv` what `hist` knows of a path whose client stops
  before it switches or closes; `SourceInv` adds to `SourceAgrees` that the camera keeps the
  registered size, which is the one a sensor that answered was told;
- `ScalersRight`, `PlacedInv` and `BurstsInv` say of the registers what `Started` or
  `Configured` establishes; the arithmetic under them is in `FimcArithmetic`: for every
  ratio below 64 the factor is at most 5 and leaves the main scaler a source of the target or
  more and less than twice it (`FactorRange`, `MainRatio`), the planes fit in `s3c_fimc_get_buffer_size`
  (`BufferHolds`), and two bursts make a line (`BurstTiles`) or the luma and each chroma of
  a packed line of a multiple of eight pixels (`PackedTiles`), which is what a line of
  whole words is;
- `ZoomLeavesPicture` uses that every sensor driver registers 640x480 or 800x600
  (`PicturesInv`): the test of a zoom step looks at the width, and it is the ratio of the two
  that leaves a height.

**`CameraClient`**, for any number of picture and focus threads and any sizes. `IInv` is
`TypeOK` and five layers: where a message can be (`ThreadsInv`), who holds `mLock` and what
the call that runs has done (`CallInv`), the preview thread against the HAL's pointer to it
and the request to exit (`PreviewInv`), what is registered at the surface (`SurfaceInv`), and,
for an application that waits for its pictures, that at most one is pending and its
shutter has taken the preview's buffer away before anything is posted (`PictureInv`). The
refinement of `PreviewContract` follows from `PreviewInv`: a preview that has stopped has
no thread, and a frame is taken up only before the request to exit.

**`CameraSlot`**, for any applications and client objects. `LockInv` and `RefInv` say who holds
which lock and which references at each label; that an object with a reference is alive
is what makes the weak reference of the slot safe. `HardwareInv` then allows for the two
moments in which hardware, busy flag and slot differ, in `connect` after the hardware is opened
and in `disconnect` after it is destroyed, and `SoundInv` counts the clients whose
constructor has ended. `LocksAcyclic` is `LockInv` read at the labels that wait.

**`InitServices`**, for any services, process numbers, actions, boot script and delay.
`ServicesInv` is about the services between two calls, with `RestartingIdle`: a service to be
restarted was not stopped and has no process, from which `StopIsFinal` follows. `LoopInv` is
about the main loop: the services already visited are in the time-out (`Visiting`), and
outside the reaping a dead child is announced on the descriptor (`Announced`).

Only model-checked: the liveness properties `WaiterServed`, `StopReturns`,
`HardwareReleased`, `CameraFreed` and `RestartHappens`, which are out of the prover's reach,
and the counterexamples of the four runs that expect a violation.

## 5. Plan

1. Done: `CaptureNode`, `FimcStream`, `FimcMemory`, `OvCapture`.
2. Done: `PreviewContract`, `CameraClient`, `CameraSlot`.
3. Done: `FimcFormat`, `FimcScaler`, `FimcSensor`, `FimcControl`.
4. Done: `InitServices`.
5. Done: proofs of the safety properties of all of them.
6. Next: abstract specifications for `CameraSlot` (a camera that is free, given or being
   taken back) and for one service of `init` (stopped, running, waiting to restart), with
   their refinements proved; more lemmas on what the four relations of
   `FimcControlProofs` leave alone, towards two controllers that do not disturb each other
   except through the camera and the registers they share; the converse of `StaleOnce`,
   that a frame is skipped for a reason.

## 6. Not modelled

- The registers of the S5PC100 and its MIPI receiver, which this build does not compile.
- `ts-if.c`: seven calibration numbers written one by one through `/proc` and read by a
  timer, without a lock. Any mixture of old and new values can be used for a sample, and
  nothing in the repository says which is acceptable.
- `light.c` (one write under a mutex), `USBCamera.cpp` and `JpegEncoder.cpp` (wrappers of
  drivers outside the repository), the colour conversions of `Ov965xCamera.cpp`.
- `s3c_fimc_encode_jpeg`: it calls an encoder that is not in the repository. For a picture
  smaller than the thumbnail it returns without giving back the memory it took from the pool
  (`s3c_fimc_cfg.c:980`).
- boa and tslib, third-party programs.
