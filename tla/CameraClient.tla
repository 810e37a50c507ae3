----------------------------- MODULE CameraClient -----------------------------
(***************************************************************************)
(* One client of the camera service and its camera HAL                     *)
(* (CameraService.cpp, S3C6410CameraHardware.cpp): the calls of the        *)
(* application, the preview thread, and the threads that take a picture or *)
(* focus and call back.                                                    *)
(*                                                                         *)
(* Every call holds Client::mLock from its first test to its return, so    *)
(* the calls of all binder threads are one sequence: "call" is the one     *)
(* that runs.  The HAL's own mLock is held for a few statements that never *)
(* wait: each such section is one step.  Client and HAL keep a message     *)
(* mask each and change them one after the other under Client::mLock;      *)
(* every reader tests both in turn, so one set stands for the two.         *)
(***************************************************************************)
EXTENDS Naturals, FiniteSets

CONSTANTS Shots,    \* names for the picture and focus threads (a bound: the
                    \* code starts one per call)
          Sizes,    \* preview frame sizes the application sets
          Size0     \* the default size

ASSUME ShotsAssumption == Shots \cap {"preview", "app", "free"} = {}
ASSUME SizesAssumption == Size0 \in Sizes

VARIABLES
    mLock,           \* Client::mLock: "free", "app" (a call) or a thread
    call,            \* the call that runs, "idle" if none
    step,            \* where that call is
    runner,          \* who runs it: "app", or the thread in ~Client
    mMsgEnabled,     \* the enabled messages
    mHardware,       \* "open", or "gone" once the HAL object is destroyed
    mPreviewThread,  \* "none" or "set"
    exitPending,     \* whether requestExit was called on the preview thread
    mOv965xCamera,   \* "present" or "absent" (a null pointer)
    mPreviewFrameSize,
    at,              \* where each HAL thread is
    msg,             \* the message each HAL thread works on
    mSurface,        \* "unset" or "set"
    shown,           \* the heap registered with the surface
    appRef,          \* the application's reference to the client
    hasty            \* history: "yes" once the application has started a
                     \* preview or a picture before the last picture came back

vars == <<mLock, call, step, runner, mMsgEnabled, mHardware, mPreviewThread,
          exitPending, mOv965xCamera, mPreviewFrameSize, at, msg, mSurface,
          shown, appRef, hasty>>

callVars    == <<mLock, call, step, runner>>
halVars     == <<mHardware, mPreviewThread, exitPending, mOv965xCamera,
                 mPreviewFrameSize>>
surfaceVars == <<mSurface, shown>>
refVars     == <<appRef, hasty>>

Threads     == {"preview"} \cup Shots
PictureMsgs == {"SHUTTER", "RAW_IMAGE", "COMPRESSED_IMAGE"}
Msgs        == PictureMsgs \cup {"PREVIEW_FRAME", "FOCUS"}

\* Inside a callback a thread holds a strong reference to the client.
Holding == {"want", "try", "locked", "notify", "rewant", "retry", "relocked",
            "deliver"}
Places  == Holding \cup {"none", "loop", "grab", "grabnull", "grabfreed",
                         "check", "cookie", "destroy"}

Init ==
    /\ mLock = "free" /\ call = "idle" /\ step = "none" /\ runner = "app"
    /\ mMsgEnabled = {"FOCUS"}
    /\ mHardware = "open"
    /\ mPreviewThread = "none" /\ exitPending = "no"
    /\ mOv965xCamera = "present" /\ mPreviewFrameSize = Size0
    /\ at = [t \in Threads |-> "none"]
    /\ msg = [t \in Threads |-> "PREVIEW_FRAME"]
    /\ mSurface = "unset" /\ shown = "none"
    /\ appRef = "held" /\ hasty = "no"

\* A new client with a new HAL object, as after connect().
Anew ==
    /\ mLock' = "free" /\ call' = "idle" /\ step' = "none" /\ runner' = "app"
    /\ mMsgEnabled' = {"FOCUS"}
    /\ mHardware' = "open"
    /\ mPreviewThread' = "none" /\ exitPending' = "no"
    /\ mOv965xCamera' = "present" /\ mPreviewFrameSize' = Size0
    /\ at' = [t \in Threads |-> "none"]
    /\ msg' = [t \in Threads |-> "PREVIEW_FRAME"]
    /\ mSurface' = "unset" /\ shown' = "none"
    /\ appRef' = "held" /\ hasty' = "no"

-----------------------------------------------------------------------------
(* Calls of the application.  Accepted: checkPidAndHardware. *)

Accepted ==
    call = "idle" /\ mLock = "free" /\ mHardware = "open" /\ appRef = "held"

Begin(name, first) ==
    /\ mLock' = "app" /\ runner' = "app" /\ call' = name /\ step' = first

Advance(names, from, to) ==
    /\ call \in names /\ step = from /\ step' = to
    /\ UNCHANGED <<mLock, call, runner>>

Return ==
    /\ mLock' = "free" /\ call' = "idle" /\ step' = "none"
    /\ UNCHANGED runner

Register(heap) == IF mSurface = "set" THEN heap ELSE shown

PictureBack ==
    \A s \in Shots : \/ at[s] = "none" \/ msg[s] = "FOCUS"
                     \/ msg[s] = "COMPRESSED_IMAGE" /\ at[s] = "deliver"

Hurry == hasty' = IF PictureBack THEN hasty ELSE "yes"

\* startPreview does nothing when the preview is enabled.
StartPreview ==
    /\ Accepted /\ Hurry
    /\ mPreviewThread = "none"
    /\ Begin("start", "hal")
    /\ mMsgEnabled' = mMsgEnabled \cup {"PREVIEW_FRAME"}
    /\ UNCHANGED <<halVars, at, msg, surfaceVars, appRef>>

StartHal ==
    /\ Advance({"start"}, "hal", "surface")
    /\ mOv965xCamera = "present"
    /\ mPreviewThread' = "set"
    /\ exitPending' = "no"
    /\ at' = [at EXCEPT !["preview"] = "loop"]
    /\ UNCHANGED <<mMsgEnabled, mHardware, mOv965xCamera, mPreviewFrameSize,
                   msg, surfaceVars, refVars>>

BadStartSurface ==   \* returns before the buffers are registered again
    /\ call = "start" /\ step = "surface"
    /\ Return
    /\ UNCHANGED <<mMsgEnabled, halVars, at, msg, surfaceVars, refVars>>

StartSurface ==
    /\ call = "start" /\ step = "surface"
    /\ Return
    /\ shown' = Register("preview")
    /\ UNCHANGED <<mMsgEnabled, halVars, at, msg, mSurface, refVars>>

BadStopPreview ==   \* without disableMsgType
    /\ Accepted
    /\ Begin("stop", "exit")
    /\ UNCHANGED <<mMsgEnabled, halVars, at, msg, surfaceVars, refVars>>

StopPreview ==
    /\ Accepted
    /\ Begin("stop", "exit")
    /\ mMsgEnabled' = mMsgEnabled \ {"PREVIEW_FRAME"}
    /\ UNCHANGED <<halVars, at, msg, surfaceVars, refVars>>

\* takePicture leaves the preview message enabled.
TakePicture ==
    /\ Accepted /\ Hurry
    /\ \E s \in Shots : at[s] = "none"
    /\ Begin("picture", "exit")
    /\ mMsgEnabled' = mMsgEnabled \cup PictureMsgs
    /\ UNCHANGED <<halVars, at, msg, surfaceVars, appRef>>

BadDisconnect ==   \* destroys the hardware without stopping the preview
    /\ Accepted
    /\ Begin("teardown", "clear")
    /\ mMsgEnabled' = {}
    /\ UNCHANGED <<halVars, at, msg, surfaceVars, refVars>>

Disconnect ==
    /\ Accepted
    /\ Begin("teardown", "exit")
    /\ mMsgEnabled' = {}
    /\ UNCHANGED <<halVars, at, msg, surfaceVars, refVars>>

-----------------------------------------------------------------------------
(* CameraHardware::stopPreview, called by the last three and by ~Client *)

Stopping == {"stop", "picture", "teardown"}

HalExit ==
    /\ Advance(Stopping, "exit", "join")
    /\ exitPending' = IF mPreviewThread = "set" THEN "yes" ELSE exitPending
    /\ UNCHANGED <<mMsgEnabled, mHardware, mPreviewThread, mOv965xCamera,
                   mPreviewFrameSize, at, msg, surfaceVars, refVars>>

BadHalJoin ==   \* requestExit instead of requestExitAndWait
    /\ Advance(Stopping, "join", "clear")
    /\ UNCHANGED <<mMsgEnabled, halVars, at, msg, surfaceVars, refVars>>

\* requestExitAndWait returns at once in the thread it is to wait for.
HalJoin ==
    /\ Advance(Stopping, "join", "clear")
    /\ at["preview"] = "none" \/ runner = "preview"
    /\ UNCHANGED <<mMsgEnabled, halVars, at, msg, surfaceVars, refVars>>

HalClear ==
    /\ Advance(Stopping, "clear", "end")
    /\ mOv965xCamera = "present"
    /\ mPreviewThread' = "none"
    /\ UNCHANGED <<mMsgEnabled, mHardware, exitPending, mOv965xCamera,
                   mPreviewFrameSize, at, msg, surfaceVars, refVars>>

StopEnd ==
    /\ call = "stop" /\ step = "end"
    /\ Return
    /\ shown' = Register("none")
    /\ UNCHANGED <<mMsgEnabled, halVars, at, msg, mSurface, refVars>>

PictureEnd ==
    /\ call = "picture" /\ step = "end"
    /\ Return
    /\ \E s \in Shots :
           /\ at[s] = "none"
           /\ at' = [at EXCEPT ![s] = "check"]
           /\ msg' = [msg EXCEPT ![s] = "SHUTTER"]
    /\ UNCHANGED <<mMsgEnabled, halVars, surfaceVars, refVars>>

\* Where a thread goes on in the HAL after a callback or without one.
After(t) == IF t = "preview" THEN "loop"
            ELSE IF msg[t] \in {"SHUTTER", "RAW_IMAGE"} THEN "check"
            ELSE "none"

NextMsg(t) == IF msg[t] = "SHUTTER" THEN "RAW_IMAGE"
              ELSE IF msg[t] = "RAW_IMAGE" THEN "COMPRESSED_IMAGE"
              ELSE msg[t]

Leave(t) ==
    /\ at' = [at EXCEPT ![t] = After(t)]
    /\ msg' = [msg EXCEPT ![t] = NextMsg(t)]

\* mHardware.clear() was the last reference: the HAL object is destroyed.  A
\* thread in ~Client goes back to the HAL code it was called from.
TearDownEnd ==
    /\ call = "teardown" /\ step = "end"
    /\ Return
    /\ mHardware' = "gone"
    /\ IF runner = "app" THEN UNCHANGED <<at, msg>> ELSE Leave(runner)
    /\ UNCHANGED <<mMsgEnabled, mPreviewThread, exitPending, mOv965xCamera,
                   mPreviewFrameSize, surfaceVars, refVars>>

-----------------------------------------------------------------------------
(* Calls of one step *)

AutoFocus ==
    /\ Accepted
    /\ \E s \in Shots :
           /\ at[s] = "none"
           /\ at' = [at EXCEPT ![s] = "check"]
           /\ msg' = [msg EXCEPT ![s] = "FOCUS"]
    /\ UNCHANGED <<callVars, mMsgEnabled, halVars, surfaceVars, refVars>>

BadSetParameters(size) ==   \* deletes the camera and keeps the pointer
    /\ Accepted
    /\ size # mPreviewFrameSize
    /\ mPreviewFrameSize' = size
    /\ mOv965xCamera' = "dangling"
    /\ UNCHANGED <<callVars, mMsgEnabled, mHardware, mPreviewThread,
                   exitPending, at, msg, surfaceVars, refVars>>

\* initHeapLocked deletes a camera it finds and makes one when it finds none;
\* the preview thread may be using the camera.
SetParameters(size) ==
    /\ Accepted
    /\ size # mPreviewFrameSize
    /\ mPreviewFrameSize' = size
    /\ mOv965xCamera' =
           IF mOv965xCamera = "present" THEN "absent" ELSE "present"
    /\ at' = [at EXCEPT !["preview"] = IF @ = "grab" THEN "grabfreed" ELSE @]
    /\ UNCHANGED <<callVars, mMsgEnabled, mHardware, mPreviewThread,
                   exitPending, msg, surfaceVars, refVars>>

\* Another surface, or none.
SetPreviewDisplay ==
    /\ Accepted
    /\ mSurface' \in {"set", "unset"}
    /\ mSurface = "unset" => mSurface' = "set"
    /\ shown' = IF mPreviewThread = "set" /\ mSurface' = "set" THEN "preview"
                ELSE "none"
    /\ UNCHANGED <<callVars, mMsgEnabled, halVars, at, msg, refVars>>

-----------------------------------------------------------------------------
(* The end of a client *)

BadTearDown(r) ==   \* ~Client with mClientPid left as it was: disconnect()
                    \* returns at checkPid
    UNCHANGED <<callVars, mMsgEnabled, shown>>

\* ~Client in thread r: the surface is unregistered, then disconnect().
TearDown(r) ==
    /\ call = "idle" /\ mLock = "free"
    /\ mLock' = r /\ runner' = r /\ call' = "teardown" /\ step' = "exit"
    /\ mMsgEnabled' = {}
    /\ shown' = Register("none")

Holders == {t \in Threads : at[t] \in Holding}

\* The application drops its reference or dies.  No call of it is running: a
\* call holds a reference until it returns.
DropReference ==
    /\ call = "idle" /\ appRef = "held"
    /\ appRef' = "gone"
    /\ IF mHardware = "open" /\ Holders = {} THEN TearDown("app")
       ELSE UNCHANGED <<callVars, mMsgEnabled, shown>>
    /\ UNCHANGED <<halVars, at, msg, mSurface, hasty>>

\* The callback of thread t returns and drops its reference; with the last one
\* ~Client runs in this thread.
EndCallback(t) ==
    /\ IF appRef = "gone" /\ mHardware = "open" /\ Holders = {t}
       THEN /\ TearDown(t)
            /\ at' = [at EXCEPT ![t] = "destroy"]
            /\ UNCHANGED msg
       ELSE /\ Leave(t)
            /\ UNCHANGED <<callVars, mMsgEnabled, shown>>
    /\ UNCHANGED <<halVars, mSurface, refVars>>

\* The next client of the camera, once no thread of this one is left.
NextClient ==
    /\ mHardware = "gone" /\ call = "idle"
    /\ \A t \in Threads : at[t] = "none"
    /\ Anew

-----------------------------------------------------------------------------
(* The threads of the HAL *)

Move(t, from, to) == at[t] = from /\ at' = [at EXCEPT ![t] = to]

\* threadLoop until requestExit, and the copies made under the HAL's mLock.
Loop ==
    /\ at["preview"] = "loop"
    /\ at' = [at EXCEPT !["preview"] =
                  IF exitPending = "yes" THEN "none"
                  ELSE IF mOv965xCamera = "present" THEN "grab"
                  ELSE "grabnull"]
    /\ UNCHANGED <<callVars, mMsgEnabled, halVars, msg, surfaceVars, refVars>>

\* getNextFrameAsRgb565 returns with a frame or after its timeout.
Grab ==
    /\ at["preview"] \in {"grab", "grabfreed"}
    /\ at' = [at EXCEPT !["preview"] = "check"]
    /\ UNCHANGED <<callVars, mMsgEnabled, halVars, msg, surfaceVars, refVars>>

Check(t) ==
    /\ at[t] = "check"
    /\ \/ /\ msg[t] \in mMsgEnabled \/ mHardware = "gone"
          /\ Move(t, "check", "cookie") /\ UNCHANGED msg
       \/ msg[t] \notin mMsgEnabled /\ Leave(t)
    /\ UNCHANGED <<callVars, mMsgEnabled, halVars, surfaceVars, refVars>>

\* getClientFromCookie: no client while ~Client runs or without hardware.
Cookie(t) ==
    /\ at[t] = "cookie"
    /\ IF mHardware = "gone" \/ (call = "teardown" /\ appRef = "gone")
       THEN Leave(t)
       ELSE Move(t, "cookie", "want") /\ UNCHANGED msg
    /\ UNCHANGED <<callVars, mMsgEnabled, halVars, surfaceVars, refVars>>

\* lockIfMessageWanted: the test of the mask and tryLock are two steps.
Want(t) ==
    /\ Move(t, "want", "try") \/ Move(t, "rewant", "retry")
    /\ msg[t] \in mMsgEnabled
    /\ UNCHANGED <<callVars, mMsgEnabled, halVars, msg, surfaceVars, refVars>>

Unwanted(t) ==
    /\ at[t] \in {"want", "rewant"}
    /\ msg[t] \notin mMsgEnabled
    /\ EndCallback(t)

TryLock(t) ==
    /\ mLock = "free"
    /\ Move(t, "try", "locked") \/ Move(t, "retry", "relocked")
    /\ mLock' = t
    /\ UNCHANGED <<call, step, runner, mMsgEnabled, halVars, msg, surfaceVars,
                   refVars>>

TryAgain(t) ==
    /\ mLock # "free"
    /\ Move(t, "try", "want") \/ Move(t, "retry", "rewant")
    /\ UNCHANGED <<callVars, mMsgEnabled, halVars, msg, surfaceVars, refVars>>

\* handlePreviewData and handleGenericNotify
Handle(t) ==
    /\ Move(t, "locked", "deliver")
    /\ msg[t] \in {"PREVIEW_FRAME", "FOCUS"}
    /\ mLock' = "free"
    /\ UNCHANGED <<call, step, runner, mMsgEnabled, halVars, msg, surfaceVars,
                   refVars>>

\* handleShutter up to the call of the application
HandleShutter(t) ==
    /\ Move(t, "locked", "notify")
    /\ msg[t] = "SHUTTER"
    /\ mLock' = "free"
    /\ shown' = Register("none")
    /\ UNCHANGED <<call, step, runner, mMsgEnabled, halVars, msg, mSurface,
                   refVars>>

Notify(t) ==
    /\ Move(t, "notify", "rewant")
    /\ UNCHANGED <<callVars, mMsgEnabled, halVars, msg, surfaceVars, refVars>>

\* ... and after it: the buffer of the raw image is registered.
ShutterAgain(t) ==
    /\ Move(t, "relocked", "deliver")
    /\ mHardware = "open"
    /\ mLock' = "free"
    /\ mMsgEnabled' = mMsgEnabled \ {"SHUTTER"}
    /\ shown' = Register("raw")
    /\ UNCHANGED <<call, step, runner, halVars, msg, mSurface, refVars>>

\* handleRawPicture and handleCompressedPicture
HandlePicture(t) ==
    /\ Move(t, "locked", "deliver")
    /\ msg[t] \in {"RAW_IMAGE", "COMPRESSED_IMAGE"}
    /\ mHardware = "open"
    /\ mLock' = "free"
    /\ mMsgEnabled' = mMsgEnabled \ {msg[t]}
    /\ UNCHANGED <<call, step, runner, halVars, msg, surfaceVars, refVars>>

\* The lock is released: the application is called, then the callback returns.
Deliver(t) == at[t] = "deliver" /\ EndCallback(t)

\* A null or freed object is used; the process may die, and is started again.
Broken ==
    \/ call = "start" /\ step = "hal" /\ mOv965xCamera # "present"
    \/ call \in Stopping /\ step = "clear" /\ mOv965xCamera # "present"
    \/ at["preview"] \in {"grabnull", "grabfreed"}
    \/ mHardware = "gone" /\ \E t \in Threads :
           \/ at[t] \in {"loop", "check", "relocked"}
           \/ at[t] = "locked" /\ msg[t] \in {"RAW_IMAGE", "COMPRESSED_IMAGE"}

Crash == Broken /\ Anew

-----------------------------------------------------------------------------
CallStep ==
    \/ StartHal \/ StartSurface
    \/ HalExit \/ HalJoin \/ HalClear \/ StopEnd \/ PictureEnd \/ TearDownEnd

Callback(t) ==
    \/ Check(t) \/ Cookie(t) \/ Want(t) \/ Unwanted(t) \/ TryLock(t)
    \/ TryAgain(t) \/ Handle(t) \/ HandleShutter(t) \/ Notify(t)
    \/ ShutterAgain(t) \/ HandlePicture(t) \/ Deliver(t)

Application ==
    \/ StartPreview \/ StopPreview \/ TakePicture \/ Disconnect \/ AutoFocus
    \/ \E size \in Sizes : SetParameters(size)
    \/ SetPreviewDisplay \/ DropReference \/ NextClient

Next ==
    \/ Application \/ CallStep \/ Loop \/ Grab \/ Crash
    \/ \E t \in Threads : Callback(t)

Spec == Init /\ [][Next]_vars

\* A call that runs goes on, and so does a thread of the HAL.  tryLock is
\* polled: no fairness says that it ever succeeds.
Fairness ==
    /\ WF_vars(CallStep)
    /\ WF_vars(Loop \/ Grab)
    /\ \A t \in Threads : WF_vars(Callback(t))

FairSpec == Spec /\ Fairness

-----------------------------------------------------------------------------
TypeOK ==
    /\ mLock \in Threads \cup {"free", "app"}
    /\ call \in {"idle", "start"} \cup Stopping
    /\ step \in {"none", "hal", "surface", "exit", "join", "clear", "end"}
    /\ runner \in Threads \cup {"app"}
    /\ mMsgEnabled \in SUBSET Msgs
    /\ mHardware \in {"open", "gone"}
    /\ mPreviewThread \in {"none", "set"}
    /\ exitPending \in {"no", "yes"}
    /\ mOv965xCamera \in {"present", "absent"}
    /\ mPreviewFrameSize \in Sizes
    /\ at \in [Threads -> Places]
    /\ msg \in [Threads -> Msgs]
    /\ mSurface \in {"unset", "set"}
    /\ shown \in {"none", "preview", "raw"}
    /\ appRef \in {"held", "gone"}
    /\ hasty \in {"no", "yes"}

Contract == INSTANCE PreviewContract
    WITH preview <- IF mPreviewThread = "none" THEN "off"
                    ELSE IF exitPending = "yes" THEN "stopping" ELSE "on",
         frame <- IF at["preview"] \in {"locked", "deliver"} THEN "shown"
                  ELSE "none"

\* Client and HAL keep the promise of PreviewContract: no preview frame is
\* handled or delivered when stopPreview, takePicture or disconnect has
\* returned, and none is taken up once one of them has asked the thread to
\* exit, although the thread may have tested the message mask before.
KeepsContract == Contract!Spec

\* When disconnect() has destroyed the HAL object, the preview thread, which
\* uses it through a plain pointer, has ended.
PreviewEndedAtTeardown ==
    mHardware = "gone" /\ runner = "app" => at["preview"] = "none"

\* A preview frame is never posted to a surface on which the buffer of a
\* picture is registered, nor a picture where the preview's is: the offset
\* posted is one into the other heap.  (As long as the application waits for
\* its pictures.)
PostsToOwnHeap ==
    hasty = "no" /\ mSurface = "set" => \A t \in Threads : at[t] = "locked" =>
        /\ msg[t] = "PREVIEW_FRAME" => shown # "raw"
        /\ msg[t] = "RAW_IMAGE" => shown # "preview"

\* stopPreview and the teardown of a client return: the preview thread they
\* wait for, which polls for the lock they hold, gives up because its message
\* has been disabled first.  (A camera that setParameters has deleted ends the
\* thread or the process.)
StopReturns == call \in {"stop", "teardown"} ~> call = "idle" \/ Broken

\* A client whose application is gone gives the hardware back, whichever
\* thread drops the last reference.  (A picture or focus thread may keep the
\* reference while it polls for the lock.)
HardwareReleased ==
    appRef = "gone" ~>
        \/ mHardware = "gone" \/ appRef = "held" \/ Broken
        \/ \E s \in Shots : at[s] # "none"

\* disconnect(): "Before destroying mHardware, we must make sure it's in the
\* idle state."  Violated: cancelPicture() and release() of the HAL do nothing,
\* and a picture or focus thread is still in the object.
IdleAtTeardown ==
    mHardware = "gone" => \A t \in Threads : at[t] = "none"

\* takePicture(): "take a picture - image is returned in callback"; the thread
\* that calls back is started at the end of the call.  Violated: the call waits
\* for a preview thread that polls for the lock the call holds, because the
\* preview message is still enabled.
TakePictureReturns == call = "picture" ~> call = "idle"
=============================================================================
