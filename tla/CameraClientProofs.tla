-------------------------- MODULE CameraClientProofs --------------------------
(***************************************************************************)
(* Proofs about CameraClient, for any number of pictures and focus calls   *)
(* and any preview sizes: the inductive invariant IInv in layers (types,   *)
(* where threads can be, the call that runs, the preview thread, what is   *)
(* registered at the surface, the pictures), the safety properties that    *)
(* follow from it and the refinement of PreviewContract.                   *)
(***************************************************************************)
EXTENDS CameraClient, TLAPS

\* A message names the callback a thread is in: the preview thread works on
\* preview frames only, a shot never does, and only a shutter is sent twice.
MsgAt(t) ==
    /\ t = "preview" => msg[t] = "PREVIEW_FRAME"
    /\ t # "preview" /\ at[t] # "none" => msg[t] # "PREVIEW_FRAME"
    /\ at[t] \in {"notify", "rewant", "retry", "relocked"} => msg[t] = "SHUTTER"
    /\ t # "preview" => at[t] \notin {"loop", "grab", "grabnull", "grabfreed"}

\* Client::mLock belongs to the call that runs or, when none does, to a thread in
\* a callback; ~Client runs in a thread that has left its callback.
LockAt(t) ==
    /\ at[t] \in {"locked", "relocked"} => mLock = t /\ call = "idle"
    /\ at[t] = "destroy" <=> call = "teardown" /\ runner = t

ThreadsInv == \A t \in Threads : MsgAt(t) /\ LockAt(t)

CallInv ==
    /\ call = "idle" => step = "none"
    /\ call = "start" => step \in {"hal", "surface"}
    /\ call \in Stopping => step \in {"exit", "join", "clear", "end"}
    /\ call # "idle" => mLock = runner /\ mHardware = "open"
    /\ call \in {"start", "stop", "picture"} => runner = "app" /\ appRef = "held"
    /\ call = "teardown" \/ mHardware = "gone" => mMsgEnabled = {}
    /\ call = "picture" => PictureMsgs \subseteq mMsgEnabled

\* The preview thread and what the HAL object knows of it.
PreviewInv ==
    /\ mPreviewThread = "set" /\ exitPending = "yes" =>
           call \in Stopping /\ step \in {"join", "clear"}
    /\ mPreviewThread = "set" /\ call \in Stopping /\ step \in {"join", "clear"} =>
           exitPending = "yes"
    /\ mPreviewThread = "none" /\ at["preview"] # "none" =>
           /\ runner = "preview" /\ exitPending = "yes"
           /\ \/ call = "teardown" /\ step = "end"
              \/ mHardware = "gone" /\ at["preview"] = "loop"
    /\ call \in Stopping /\ step \in {"clear", "end"} /\ runner # "preview" =>
           at["preview"] = "none"
    /\ mPreviewThread = "set" =>
           /\ mHardware = "open"
           /\ ~(call = "start" /\ step = "hal")
           /\ ~(call \in Stopping /\ step = "end")

\* A picture whose last callback the application does not have yet.
Pending(s) ==
    /\ at[s] # "none" /\ msg[s] \in PictureMsgs
    /\ ~(msg[s] = "COMPRESSED_IMAGE" /\ at[s] \in {"deliver", "destroy"})

\* When the application waits for its pictures, the buffer of the preview is
\* registered no more when a picture is posted: the shutter comes first.
PictureAt(s) ==
    Pending(s) =>
        /\ mPreviewThread = "none"
        /\ call \notin {"start", "picture"}
        /\ \A r \in Shots : Pending(r) => r = s
        /\ msg[s] = "SHUTTER" =>
               IF at[s] \in {"check", "cookie", "want", "try", "locked"}
               THEN "SHUTTER" \in mMsgEnabled \/ "RAW_IMAGE" \notin mMsgEnabled
               ELSE shown # "preview" \/ "RAW_IMAGE" \notin mMsgEnabled
        /\ msg[s] = "RAW_IMAGE" =>
               \/ shown # "preview"
               \/ at[s] = "check" /\ "RAW_IMAGE" \notin mMsgEnabled
               \/ at[s] = "cookie" /\ mHardware = "gone"

\* The buffer that is registered: none without a surface, and while the preview
\* is on never that of a picture.
SurfaceInv ==
    /\ mSurface = "unset" => shown = "none"
    /\ hasty = "no" /\ mPreviewThread = "set" =>
           \/ call = "start" /\ step = "surface"
           \/ shown # "raw"

PictureInv == hasty = "no" => \A s \in Shots : PictureAt(s)

IInv == TypeOK /\ ThreadsInv /\ CallInv /\ PreviewInv /\ SurfaceInv /\ PictureInv

-----------------------------------------------------------------------------
(* The initial states, which a crash and the next client return to *)

LEMMA FreshInv == (Init => IInv) /\ (Anew => IInv')
<1> USE ShotsAssumption, SizesAssumption
<1>1. "preview" \in Threads /\ "app" \notin Threads
  BY DEF Threads
<1>2. ASSUME Init PROVE IInv
  <2>1. TypeOK
    BY <1>2 DEF Init, TypeOK, Msgs, Threads, Places
  <2>2. ThreadsInv
    BY <1>2 DEF Init, ThreadsInv, MsgAt, LockAt
  <2>3. CallInv /\ PreviewInv
    BY <1>1, <1>2 DEF Init, CallInv, PreviewInv, Stopping
  <2>4. SurfaceInv /\ PictureInv
    BY <1>2 DEF Init, SurfaceInv, PictureInv, PictureAt, Pending, Threads
  <2> QED BY <2>1, <2>2, <2>3, <2>4 DEF IInv
<1>3. ASSUME Anew PROVE IInv'
  <2>1. TypeOK'
    BY <1>3 DEF Anew, TypeOK, Msgs, Threads, Places
  <2>2. ThreadsInv'
    BY <1>3 DEF Anew, ThreadsInv, MsgAt, LockAt
  <2>3. CallInv' /\ PreviewInv'
    BY <1>1, <1>3 DEF Anew, CallInv, PreviewInv, Stopping
  <2>4. SurfaceInv' /\ PictureInv'
    BY <1>3 DEF Anew, SurfaceInv, PictureInv, PictureAt, Pending, Threads
  <2> QED BY <2>1, <2>2, <2>3, <2>4 DEF IInv
<1> QED BY <1>2, <1>3

-----------------------------------------------------------------------------
(* Layer 1: types *)

LEMMA AfterType ==
    ASSUME TypeOK, NEW t \in Threads
    PROVE  /\ After(t) \in {"loop", "check", "none"}
           /\ NextMsg(t) \in Msgs
           /\ t = "preview" <=> After(t) = "loop"
  BY DEF TypeOK, After, NextMsg, Msgs, PictureMsgs

\* What a thread that leaves its callback does to the types.
LEMMA LeaveType ==
    ASSUME TypeOK, NEW t \in Threads, Leave(t)
    PROVE  at' \in [Threads -> Places] /\ msg' \in [Threads -> Msgs]
  BY AfterType DEF TypeOK, Leave, Places

LEMMA TearDownType ==
    ASSUME TypeOK, NEW r \in Threads \cup {"app"}, TearDown(r)
    PROVE  /\ mLock' \in Threads \cup {"free", "app"}
           /\ call' \in {"idle", "start"} \cup Stopping
           /\ step' \in {"none", "hal", "surface", "exit", "join", "clear", "end"}
           /\ runner' \in Threads \cup {"app"}
           /\ mMsgEnabled' \in SUBSET Msgs
           /\ shown' \in {"none", "preview", "raw"}
  BY DEF TypeOK, TearDown, Stopping, Register

LEMMA EndCallbackType ==
    ASSUME TypeOK, NEW t \in Threads, EndCallback(t) PROVE TypeOK'
<1>1. UNCHANGED <<halVars, mSurface, refVars>>
  BY DEF EndCallback
<1>2. CASE /\ TearDown(t)
           /\ at' = [at EXCEPT ![t] = "destroy"]
           /\ UNCHANGED msg
  BY <1>1, <1>2, TearDownType DEF TypeOK, Places, halVars, refVars
<1>3. CASE Leave(t) /\ UNCHANGED <<callVars, mMsgEnabled, shown>>
  BY <1>1, <1>3, LeaveType DEF TypeOK, callVars, halVars, refVars
<1> QED BY <1>2, <1>3 DEF EndCallback

LEMMA StepType == IInv /\ [Next]_vars => TypeOK'
<1> SUFFICES ASSUME IInv, [Next]_vars PROVE TypeOK'
  OBVIOUS
<1>0. TypeOK
  BY DEF IInv
<1> USE DEF callVars, halVars, surfaceVars, refVars, Accepted, Begin, Advance,
            Return, Hurry, Register, Move, Stopping
<1>1. CASE UNCHANGED vars
  BY <1>0, <1>1 DEF TypeOK, vars
<1>2. CASE Application
  <2>1. CASE StartPreview
    BY <1>0, <2>1 DEF TypeOK, StartPreview, Msgs
  <2>2. CASE StopPreview
    BY <1>0, <2>2 DEF TypeOK, StopPreview
  <2>3. CASE TakePicture
    BY <1>0, <2>3 DEF TypeOK, TakePicture, Msgs
  <2>4. CASE Disconnect
    BY <1>0, <2>4 DEF TypeOK, Disconnect
  <2>5. CASE AutoFocus
    <3>1. at' \in [Threads -> Places] /\ msg' \in [Threads -> Msgs]
      BY <1>0, <2>5 DEF TypeOK, AutoFocus, Msgs, Places
    <3> QED BY <1>0, <2>5, <3>1 DEF TypeOK, AutoFocus
  <2>6. ASSUME NEW size \in Sizes, SetParameters(size) PROVE TypeOK'
    <3>1. at' \in [Threads -> Places]
      BY <1>0, <2>6 DEF TypeOK, SetParameters, Places
    <3> QED BY <1>0, <2>6, <3>1 DEF TypeOK, SetParameters
  <2>7. CASE SetPreviewDisplay
    BY <1>0, <2>7 DEF TypeOK, SetPreviewDisplay
  <2>8. CASE DropReference
    <3>1. CASE TearDown("app")
      BY <1>0, <2>8, <3>1, TearDownType DEF TypeOK, DropReference
    <3>2. CASE UNCHANGED <<callVars, mMsgEnabled, shown>>
      BY <1>0, <2>8, <3>2 DEF TypeOK, DropReference
    <3> QED BY <2>8, <3>1, <3>2 DEF DropReference
  <2>9. CASE NextClient
    BY <2>9, FreshInv DEF NextClient, IInv
  <2> QED BY <1>2, <2>1, <2>2, <2>3, <2>4, <2>5, <2>6, <2>7, <2>8, <2>9
          DEF Application
<1>3. CASE CallStep
  <2>1. CASE StartHal \/ StartSurface
    BY <1>0, <2>1 DEF TypeOK, StartHal, StartSurface, Places, Threads
  <2>2. CASE HalExit \/ HalJoin \/ HalClear
    BY <1>0, <2>2 DEF TypeOK, HalExit, HalJoin, HalClear
  <2>3. CASE StopEnd
    BY <1>0, <2>3 DEF TypeOK, StopEnd
  <2>4. CASE PictureEnd
    BY <1>0, <2>4 DEF TypeOK, PictureEnd, Places, Msgs, PictureMsgs
  <2>5. CASE TearDownEnd
    <3>1. CASE runner = "app"
      BY <1>0, <2>5, <3>1 DEF TypeOK, TearDownEnd
    <3>2. CASE runner # "app"
      <4>1. runner \in Threads
        BY <1>0, <3>2 DEF TypeOK
      <4>2. Leave(runner)
        BY <2>5, <3>2 DEF TearDownEnd
      <4> QED BY <1>0, <2>5, <4>1, <4>2, LeaveType DEF TypeOK, TearDownEnd
    <3> QED BY <3>1, <3>2
  <2> QED BY <1>3, <2>1, <2>2, <2>3, <2>4, <2>5 DEF CallStep
<1>4. CASE Loop \/ Grab
  BY <1>0, <1>4 DEF TypeOK, Loop, Grab, Places, Threads
<1>5. CASE Crash
  BY <1>5, FreshInv DEF Crash, IInv
<1>6. ASSUME NEW t \in Threads, Callback(t) PROVE TypeOK'
  <2>1. CASE Check(t)
    <3>1. at' \in [Threads -> Places] /\ msg' \in [Threads -> Msgs]
      BY <1>0, <2>1, LeaveType DEF TypeOK, Check, Places, Holding
    <3> QED BY <1>0, <2>1, <3>1 DEF TypeOK, Check
  <2>2. CASE Cookie(t)
    <3>1. at' \in [Threads -> Places] /\ msg' \in [Threads -> Msgs]
      BY <1>0, <2>2, LeaveType DEF TypeOK, Cookie, Places, Holding
    <3> QED BY <1>0, <2>2, <3>1 DEF TypeOK, Cookie
  <2>3. CASE Want(t) \/ TryLock(t) \/ TryAgain(t)
    BY <1>0, <2>3 DEF TypeOK, Want, TryLock, TryAgain, Places, Holding
  <2>4. CASE Handle(t) \/ HandleShutter(t) \/ Notify(t)
    BY <1>0, <2>4 DEF TypeOK, Handle, HandleShutter, Notify, Places, Holding
  <2>5. CASE ShutterAgain(t) \/ HandlePicture(t)
    BY <1>0, <2>5 DEF TypeOK, ShutterAgain, HandlePicture, Places, Holding
  <2>6. CASE Unwanted(t) \/ Deliver(t)
    BY <1>0, <2>6, EndCallbackType DEF Unwanted, Deliver
  <2> QED BY <1>6, <2>1, <2>2, <2>3, <2>4, <2>5, <2>6 DEF Callback
<1> QED BY <1>1, <1>2, <1>3, <1>4, <1>5, <1>6 DEF Next

-----------------------------------------------------------------------------
(* Layer 2: the lock, the calls and the messages *)

LEMMA LeaveThread ==
    ASSUME TypeOK, NEW u \in Threads, NEW t \in Threads, MsgAt(t), LockAt(t),
           MsgAt(u), at[u] # "none", Leave(u),
           \/ at[u] # "destroy" /\ UNCHANGED <<mLock, call, runner>>
           \/ call' = "idle" /\ mLock' = "free" /\ call = "teardown" /\ runner = u
    PROVE  MsgAt(t)' /\ LockAt(t)'
<1>1. /\ at'[u] = After(u) /\ msg'[u] = NextMsg(u)
      /\ t # u => at'[t] = at[t] /\ msg'[t] = msg[t]
  BY DEF TypeOK, Leave
<1>2. CASE t = u
  BY <1>1, <1>2 DEF MsgAt, LockAt, After, NextMsg
<1>3. CASE t # u
  BY <1>1, <1>3 DEF MsgAt, LockAt
<1> QED BY <1>2, <1>3

LEMMA EndCallbackThread ==
    ASSUME TypeOK, NEW u \in Threads, NEW t \in Threads, MsgAt(t), LockAt(t),
           MsgAt(u), at[u] \in Holding, EndCallback(u)
    PROVE  MsgAt(t)' /\ LockAt(t)'
<1>1. CASE /\ TearDown(u)
           /\ at' = [at EXCEPT ![u] = "destroy"]
           /\ UNCHANGED msg
  <2>1. t # "free"
    BY ShotsAssumption DEF Threads
  <2>2. /\ at'[u] = "destroy" /\ msg' = msg /\ at[u] # "none"
        /\ t # u => at'[t] = at[t]
    BY <1>1 DEF TypeOK, Holding
  <2>3. /\ call = "idle" /\ mLock = "free"
        /\ call' = "teardown" /\ runner' = u
    BY <1>1 DEF TearDown
  <2>4. CASE t = u
    BY <2>2, <2>3, <2>4 DEF MsgAt, LockAt
  <2>5. CASE t # u
    BY <2>1, <2>2, <2>3, <2>5 DEF MsgAt, LockAt
  <2> QED BY <2>4, <2>5
<1>2. CASE Leave(u) /\ UNCHANGED <<callVars, mMsgEnabled, shown>>
  BY <1>2, LeaveThread DEF callVars, Holding
<1> QED BY <1>1, <1>2 DEF EndCallback

LEMMA StepThreads == IInv /\ [Next]_vars => ThreadsInv'
<1> SUFFICES ASSUME IInv, [Next]_vars, NEW t \in Threads
             PROVE  MsgAt(t)' /\ LockAt(t)'
  BY DEF ThreadsInv
<1>0. TypeOK /\ MsgAt(t) /\ LockAt(t) /\ CallInv
      /\ "app" \notin Threads /\ "free" \notin Threads
      /\ \A s \in Shots : s # "preview" /\ s \in Threads
  BY ShotsAssumption DEF IInv, ThreadsInv, Threads
<1> USE DEF callVars, Accepted, Begin, Advance, Return, Move
<1>1. CASE UNCHANGED vars
  BY <1>0, <1>1 DEF vars, MsgAt, LockAt
<1>2. CASE Application
  <2>1. CASE StartPreview \/ StopPreview \/ TakePicture \/ Disconnect
    BY <1>0, <2>1 DEF StartPreview, StopPreview, TakePicture, Disconnect,
                      MsgAt, LockAt
  <2>2. CASE AutoFocus
    BY <1>0, <2>2 DEF AutoFocus, MsgAt, LockAt, TypeOK
  <2>3. ASSUME NEW size \in Sizes, SetParameters(size)
        PROVE  MsgAt(t)' /\ LockAt(t)'
    BY <1>0, <2>3 DEF SetParameters, MsgAt, LockAt, TypeOK
  <2>4. CASE SetPreviewDisplay
    BY <1>0, <2>4 DEF SetPreviewDisplay, MsgAt, LockAt
  <2>5. CASE DropReference
    BY <1>0, <2>5 DEF DropReference, TearDown, MsgAt, LockAt
  <2>6. CASE NextClient
    BY <2>6, FreshInv DEF NextClient, IInv, ThreadsInv
  <2> QED BY <1>2, <2>1, <2>2, <2>3, <2>4, <2>5, <2>6 DEF Application
<1>3. CASE CallStep
  <2>1. CASE StartHal
    BY <1>0, <2>1 DEF StartHal, MsgAt, LockAt, TypeOK
  <2>2. CASE HalExit \/ HalJoin \/ HalClear
    BY <1>0, <2>2 DEF HalExit, HalJoin, HalClear, MsgAt, LockAt
  <2>3. CASE StartSurface \/ StopEnd
    BY <1>0, <2>3 DEF StartSurface, StopEnd, MsgAt, LockAt
  <2>4. CASE PictureEnd
    BY <1>0, <2>4 DEF PictureEnd, MsgAt, LockAt, TypeOK, PictureMsgs
  <2>5. CASE TearDownEnd
    <3>1. CASE runner = "app"
      BY <1>0, <2>5, <3>1 DEF TearDownEnd, MsgAt, LockAt
    <3>2. CASE runner # "app"
      <4>1. runner \in Threads /\ Leave(runner)
        BY <1>0, <2>5, <3>2 DEF TypeOK, TearDownEnd
      <4>2. MsgAt(runner) /\ at[runner] # "none"
        BY <2>5, <4>1 DEF IInv, ThreadsInv, LockAt, TearDownEnd
      <4> QED BY <1>0, <2>5, <4>1, <4>2, LeaveThread DEF TearDownEnd
    <3> QED BY <3>1, <3>2
  <2> QED BY <1>3, <2>1, <2>2, <2>3, <2>4, <2>5 DEF CallStep
<1>4. CASE Loop \/ Grab
  BY <1>0, <1>4 DEF Loop, Grab, MsgAt, LockAt, TypeOK
<1>5. CASE Crash
  BY <1>5, FreshInv DEF Crash, IInv, ThreadsInv
<1>6. ASSUME NEW u \in Threads, Callback(u) PROVE MsgAt(t)' /\ LockAt(t)'
  <2>0. MsgAt(u) /\ LockAt(u)
    BY DEF IInv, ThreadsInv
  <2>1. CASE Check(u)
    <3>1. CASE Leave(u)
      BY <1>0, <2>0, <2>1, <3>1, LeaveThread DEF Check
    <3>2. CASE Move(u, "check", "cookie") /\ UNCHANGED msg
      BY <1>0, <2>1, <3>2 DEF Check, MsgAt, LockAt, TypeOK
    <3> QED BY <2>1, <3>1, <3>2 DEF Check
  <2>2. CASE Cookie(u)
    <3>1. CASE Leave(u)
      BY <1>0, <2>0, <2>2, <3>1, LeaveThread DEF Cookie
    <3>2. CASE Move(u, "cookie", "want") /\ UNCHANGED msg
      BY <1>0, <2>2, <3>2 DEF Cookie, MsgAt, LockAt, TypeOK
    <3> QED BY <2>2, <3>1, <3>2 DEF Cookie
  <2>3. CASE Want(u) \/ TryAgain(u)
    BY <1>0, <2>0, <2>3 DEF Want, TryAgain, MsgAt, LockAt, TypeOK
  <2>4. CASE TryLock(u)
    BY <1>0, <2>0, <2>4 DEF TryLock, MsgAt, LockAt, TypeOK, CallInv
  <2>5. CASE Handle(u) \/ HandleShutter(u) \/ HandlePicture(u)
    BY <1>0, <2>0, <2>5 DEF Handle, HandleShutter, HandlePicture, MsgAt, LockAt,
                            TypeOK
  <2>6. CASE Notify(u) \/ ShutterAgain(u)
    BY <1>0, <2>0, <2>6 DEF Notify, ShutterAgain, MsgAt, LockAt, TypeOK
  <2>7. CASE Unwanted(u) \/ Deliver(u)
    BY <1>0, <2>0, <2>7, EndCallbackThread DEF Unwanted, Deliver, Holding
  <2> QED BY <1>6, <2>1, <2>2, <2>3, <2>4, <2>5, <2>6, <2>7 DEF Callback
<1> QED BY <1>1, <1>2, <1>3, <1>4, <1>5, <1>6 DEF Next

\* A thread that leaves a callback, or runs ~Client at its end.
LEMMA EndCallbackCall ==
    ASSUME TypeOK, CallInv, NEW u \in Threads, EndCallback(u) PROVE CallInv'
<1> USE DEF CallInv, Stopping
<1>1. UNCHANGED <<halVars, refVars>>
  BY DEF EndCallback
<1>2. CASE TearDown(u)
  <2>1. mHardware = "open"
    BY <1>2 DEF EndCallback, callVars, TearDown
  <2> QED BY <1>1, <1>2, <2>1 DEF TearDown, halVars, refVars
<1>3. CASE UNCHANGED <<callVars, mMsgEnabled>>
  BY <1>1, <1>3 DEF callVars, halVars, refVars
<1> QED BY <1>2, <1>3 DEF EndCallback

LEMMA StepCall == IInv /\ [Next]_vars => CallInv'
<1> SUFFICES ASSUME IInv, [Next]_vars PROVE CallInv'
  OBVIOUS
<1>0. TypeOK /\ CallInv /\ ThreadsInv
  BY DEF IInv
<1> USE DEF callVars, halVars, surfaceVars, refVars, Accepted, Begin, Advance,
            Return, Move, Stopping
<1>1. CASE UNCHANGED vars
  BY <1>0, <1>1 DEF vars, CallInv
<1>2. CASE Application
  <2>1. CASE StartPreview \/ StopPreview \/ TakePicture \/ Disconnect
    BY <1>0, <2>1 DEF StartPreview, StopPreview, TakePicture, Disconnect, CallInv
  <2>2. CASE AutoFocus \/ SetPreviewDisplay
    BY <1>0, <2>2 DEF AutoFocus, SetPreviewDisplay, CallInv
  <2>3. ASSUME NEW size \in Sizes, SetParameters(size) PROVE CallInv'
    BY <1>0, <2>3 DEF SetParameters, CallInv
  <2>4. CASE DropReference
    <3>1. CASE TearDown("app") /\ mHardware = "open"
      BY <1>0, <2>4, <3>1 DEF DropReference, TearDown, CallInv
    <3>2. CASE UNCHANGED <<callVars, mMsgEnabled, shown>>
      BY <1>0, <2>4, <3>2 DEF DropReference, CallInv
    <3> QED BY <2>4, <3>1, <3>2 DEF DropReference
  <2>5. CASE NextClient
    BY <2>5, FreshInv DEF NextClient, IInv
  <2> QED BY <1>2, <2>1, <2>2, <2>3, <2>4, <2>5 DEF Application
<1>3. CASE CallStep
  <2>1. CASE StartHal
    BY <1>0, <2>1 DEF StartHal, CallInv
  <2>2. CASE HalExit \/ HalJoin \/ HalClear
    BY <1>0, <2>2 DEF HalExit, HalJoin, HalClear, CallInv
  <2>3. CASE StartSurface \/ StopEnd \/ PictureEnd
    BY <1>0, <2>3 DEF StartSurface, StopEnd, PictureEnd, CallInv
  <2>4. CASE TearDownEnd
    BY <1>0, <2>4 DEF TearDownEnd, CallInv
  <2> QED BY <1>3, <2>1, <2>2, <2>3, <2>4 DEF CallStep
<1>4. CASE Loop \/ Grab
  BY <1>0, <1>4 DEF Loop, Grab, CallInv
<1>5. CASE Crash
  BY <1>5, FreshInv DEF Crash, IInv
<1>6. ASSUME NEW u \in Threads, Callback(u) PROVE CallInv'
  <2>0. LockAt(u)
    BY <1>0 DEF ThreadsInv
  <2>1. CASE Check(u) \/ Cookie(u) \/ Want(u) \/ TryAgain(u) \/ Notify(u)
    BY <1>0, <2>1 DEF Check, Cookie, Want, TryAgain, Notify, CallInv
  <2>2. CASE TryLock(u)
    BY <1>0, <2>2, ShotsAssumption DEF TryLock, CallInv, TypeOK, Threads
  <2>3. CASE Handle(u) \/ HandleShutter(u)
    BY <1>0, <2>0, <2>3 DEF Handle, HandleShutter, CallInv, LockAt
  <2>4. CASE ShutterAgain(u) \/ HandlePicture(u)
    BY <1>0, <2>0, <2>4 DEF ShutterAgain, HandlePicture, CallInv, LockAt
  <2>5. CASE Unwanted(u) \/ Deliver(u)
    BY <1>0, <2>5, EndCallbackCall DEF Unwanted, Deliver
  <2> QED BY <1>6, <2>1, <2>2, <2>3, <2>4, <2>5 DEF Callback
<1> QED BY <1>1, <1>2, <1>3, <1>4, <1>5, <1>6 DEF Next

-----------------------------------------------------------------------------
(* Layer 3: the preview thread *)

\* What PreviewInv reads, left alone.
PreviewKept ==
    /\ UNCHANGED <<call, step, runner, mHardware, mPreviewThread, exitPending>>
    /\ at'["preview"] # at["preview"] =>
           at["preview"] # "none" /\ at'["preview"] \notin {"none", "destroy"}
           /\ mPreviewThread = "set"

LEMMA KeptPreview == ASSUME PreviewInv, PreviewKept PROVE PreviewInv'
  BY DEF PreviewInv, PreviewKept, Stopping

\* A thread other than the preview's moves, or the preview's does inside its loop.
LEMMA MovePreview ==
    ASSUME TypeOK, PreviewInv, ThreadsInv, NEW u \in Threads,
           at[u] \notin {"none", "loop", "destroy"},
           UNCHANGED <<call, step, runner, mHardware, mPreviewThread, exitPending>>,
           NEW place, place # "destroy", u = "preview" => place # "none",
           at' = [at EXCEPT ![u] = place]
    PROVE  PreviewInv'
<1>1. "preview" \in Threads
  BY DEF Threads
<1>2. CASE u = "preview"
  <2>1. at'["preview"] = place
    BY <1>1, <1>2 DEF TypeOK
  <2>2. mPreviewThread = "set"
    <3>1. LockAt("preview")
      BY <1>1 DEF ThreadsInv
    <3>2. mPreviewThread = "none" => call = "teardown" /\ runner = "preview"
      BY <1>2 DEF PreviewInv
    <3> QED BY <1>2, <3>1, <3>2 DEF LockAt, TypeOK
  <2>3. PreviewKept
    BY <1>2, <2>1, <2>2 DEF PreviewKept
  <2> QED BY <2>3, KeptPreview
<1>3. CASE u # "preview"
  <2>1. at'["preview"] = at["preview"]
    BY <1>1, <1>3 DEF TypeOK
  <2> QED BY <2>1, KeptPreview DEF PreviewKept
<1> QED BY <1>2, <1>3

LEMMA LeavePreview ==
    ASSUME TypeOK, PreviewInv, ThreadsInv, NEW u \in Threads,
           at[u] \notin {"none", "loop", "destroy"},
           UNCHANGED <<call, step, runner, mHardware, mPreviewThread, exitPending>>,
           Leave(u)
    PROVE  PreviewInv'
<1>1. /\ After(u) # "destroy"
      /\ u = "preview" => After(u) # "none"
  BY AfterType
<1> QED BY <1>1, MovePreview DEF Leave

LEMMA EndCallbackPreview ==
    ASSUME TypeOK, PreviewInv, ThreadsInv, NEW u \in Threads, at[u] \in Holding,
           EndCallback(u)
    PROVE  PreviewInv'
<1>1. UNCHANGED <<mHardware, mPreviewThread, exitPending>>
  BY DEF EndCallback, halVars
<1>2. CASE TearDown(u) /\ at' = [at EXCEPT ![u] = "destroy"]
  <2>1. /\ call = "idle" /\ call' = "teardown" /\ step' = "exit" /\ runner' = u
        /\ mHardware = "open"
    BY <1>2 DEF TearDown, EndCallback, callVars
  <2>2. mPreviewThread = "set" => exitPending # "yes"
    BY <2>1 DEF PreviewInv, Stopping
  <2>3. at'["preview"] # "none" => mPreviewThread = "set"
    <3>1. "preview" \in Threads
      BY DEF Threads
    <3>2. at["preview"] # "none" => mPreviewThread # "none"
      BY <2>1 DEF PreviewInv
    <3>3. at'["preview"] # "none" => at["preview"] # "none"
      BY <1>2, <3>1 DEF TypeOK, Holding
    <3> QED BY <3>2, <3>3 DEF TypeOK
  <2> QED BY <1>1, <2>1, <2>2, <2>3 DEF PreviewInv, Stopping
<1>3. CASE Leave(u) /\ UNCHANGED <<callVars, mMsgEnabled, shown>>
  BY <1>1, <1>3, LeavePreview DEF callVars, Holding
<1> QED BY <1>2, <1>3 DEF EndCallback

LEMMA StepPreview == IInv /\ [Next]_vars => PreviewInv'
<1> SUFFICES ASSUME IInv, [Next]_vars PROVE PreviewInv'
  OBVIOUS
<1>0. /\ TypeOK /\ CallInv /\ ThreadsInv /\ PreviewInv
      /\ "preview" \in Threads /\ "preview" # "app"
      /\ \A s \in Shots : s # "preview" /\ s \in Threads
  BY ShotsAssumption DEF IInv, Threads
<1> USE DEF callVars, halVars, surfaceVars, refVars, Accepted, Begin, Advance,
            Return, Move
<1>1. CASE UNCHANGED vars
  BY <1>0, <1>1, KeptPreview DEF vars, PreviewKept
<1>2. CASE Application
  <2>1. CASE StartPreview \/ StopPreview \/ TakePicture \/ Disconnect
    BY <1>0, <2>1 DEF StartPreview, StopPreview, TakePicture, Disconnect,
                      PreviewInv, Stopping
  <2>2. CASE AutoFocus
    BY <1>0, <2>2, KeptPreview DEF AutoFocus, PreviewKept, TypeOK
  <2>3. ASSUME NEW size \in Sizes, SetParameters(size) PROVE PreviewInv'
    <3>1. at'["preview"] = IF at["preview"] = "grab" THEN "grabfreed"
                           ELSE at["preview"]
      BY <1>0, <2>3 DEF SetParameters, TypeOK
    <3>2. at["preview"] = "grab" => mPreviewThread = "set"
      BY <1>0, <2>3 DEF PreviewInv, SetParameters, TypeOK
    <3> QED BY <1>0, <2>3, <3>1, <3>2, KeptPreview DEF SetParameters, PreviewKept
  <2>4. CASE SetPreviewDisplay
    BY <1>0, <2>4, KeptPreview DEF SetPreviewDisplay, PreviewKept
  <2>5. CASE DropReference
    <3>1. CASE TearDown("app")
      BY <1>0, <2>5, <3>1 DEF DropReference, TearDown, PreviewInv, Stopping
    <3>2. CASE UNCHANGED <<callVars, mMsgEnabled, shown>>
      BY <1>0, <2>5, <3>2, KeptPreview DEF DropReference, PreviewKept
    <3> QED BY <2>5, <3>1, <3>2 DEF DropReference
  <2>6. CASE NextClient
    BY <2>6, FreshInv DEF NextClient, IInv
  <2> QED BY <1>2, <2>1, <2>2, <2>3, <2>4, <2>5, <2>6 DEF Application
<1>3. CASE CallStep
  <2>1. CASE StartHal
    <3>1. at'["preview"] = "loop"
      BY <1>0, <2>1 DEF StartHal, TypeOK
    <3> QED BY <1>0, <2>1, <3>1 DEF StartHal, PreviewInv, Stopping, CallInv
  <2>2. CASE HalExit
    BY <1>0, <2>2 DEF HalExit, PreviewInv, Stopping, TypeOK
  <2>3. CASE HalJoin
    BY <1>0, <2>3 DEF HalJoin, PreviewInv, Stopping
  <2>4. CASE HalClear
    <3>1. at["preview"] # "none" =>
              runner = "preview" /\ call = "teardown" /\ exitPending = "yes"
      BY <1>0, <2>4 DEF HalClear, PreviewInv, Stopping, TypeOK, CallInv
    <3> QED BY <1>0, <2>4, <3>1 DEF HalClear, PreviewInv, Stopping
  <2>5. CASE StartSurface \/ StopEnd
    BY <1>0, <2>5 DEF StartSurface, StopEnd, PreviewInv, Stopping
  <2>6. CASE PictureEnd
    <3>1. at'["preview"] = at["preview"]
      BY <1>0, <2>6 DEF PictureEnd, TypeOK
    <3> QED BY <1>0, <2>6, <3>1 DEF PictureEnd, PreviewInv, Stopping, CallInv
  <2>7. CASE TearDownEnd
    <3>1. mPreviewThread = "none"
      BY <1>0, <2>7 DEF TearDownEnd, PreviewInv, Stopping, TypeOK
    <3>2. CASE runner = "preview"
      <4>1. Leave("preview")
        BY <1>0, <2>7, <3>2 DEF TearDownEnd
      <4>2. at'["preview"] = "loop"
        BY <1>0, <4>1 DEF Leave, After, TypeOK
      <4>3. exitPending = "yes"
        <5>1. at["preview"] = "destroy"
          BY <1>0, <2>7, <3>2 DEF TearDownEnd, ThreadsInv, LockAt
        <5> QED BY <1>0, <3>1, <5>1 DEF PreviewInv
      <4> QED BY <2>7, <3>1, <3>2, <4>2, <4>3
              DEF TearDownEnd, PreviewInv, Stopping
    <3>3. CASE runner # "preview"
      <4>1. at["preview"] = "none"
        BY <1>0, <2>7, <3>3 DEF TearDownEnd, PreviewInv, Stopping
      <4>2. at'["preview"] = "none"
        BY <1>0, <2>7, <3>3, <4>1 DEF TearDownEnd, Leave, TypeOK
      <4> QED BY <2>7, <3>1, <4>2 DEF TearDownEnd, PreviewInv, Stopping
    <3> QED BY <3>2, <3>3
  <2> QED BY <1>3, <2>1, <2>2, <2>3, <2>4, <2>5, <2>6, <2>7 DEF CallStep
<1>4. CASE Loop
  <2>1. /\ at["preview"] = "loop"
        /\ at'["preview"] = IF exitPending = "yes" THEN "none"
                            ELSE IF mOv965xCamera = "present" THEN "grab"
                            ELSE "grabnull"
        /\ UNCHANGED <<call, step, runner, mHardware, mPreviewThread, exitPending>>
    BY <1>0, <1>4 DEF Loop, TypeOK
  <2> QED BY <1>0, <2>1 DEF PreviewInv, TypeOK
<1>5. CASE Grab
  BY <1>0, <1>5, MovePreview DEF Grab
<1>6. CASE Crash
  BY <1>6, FreshInv DEF Crash, IInv
<1>7. ASSUME NEW u \in Threads, Callback(u) PROVE PreviewInv'
  <2>1. CASE Check(u)
    BY <1>0, <2>1, MovePreview, LeavePreview DEF Check
  <2>2. CASE Cookie(u)
    BY <1>0, <2>2, MovePreview, LeavePreview DEF Cookie
  <2>3. CASE Want(u) \/ TryLock(u) \/ TryAgain(u)
    BY <1>0, <2>3, MovePreview DEF Want, TryLock, TryAgain
  <2>4. CASE Handle(u) \/ HandleShutter(u) \/ Notify(u)
    BY <1>0, <2>4, MovePreview DEF Handle, HandleShutter, Notify
  <2>5. CASE ShutterAgain(u) \/ HandlePicture(u)
    BY <1>0, <2>5, MovePreview DEF ShutterAgain, HandlePicture
  <2>6. CASE Unwanted(u) \/ Deliver(u)
    BY <1>0, <2>6, EndCallbackPreview DEF Unwanted, Deliver, Holding
  <2> QED BY <1>7, <2>1, <2>2, <2>3, <2>4, <2>5, <2>6 DEF Callback
<1> QED BY <1>1, <1>2, <1>3, <1>4, <1>5, <1>6, <1>7 DEF Next

-----------------------------------------------------------------------------
(* Layer 4: the pictures and the registered buffers *)

LEMMA BackNotPending ==
    ASSUME TypeOK, PictureBack PROVE \A s \in Shots : ~Pending(s)
  BY DEF PictureBack, Pending, PictureMsgs

LEMMA StepSurface == IInv /\ [Next]_vars => SurfaceInv'
<1> SUFFICES ASSUME IInv, [Next]_vars PROVE SurfaceInv'
  OBVIOUS
<1>0. TypeOK /\ SurfaceInv
  BY DEF IInv
<1> USE DEF callVars, halVars, surfaceVars, refVars, Accepted, Begin, Advance,
            Return, Move, SurfaceInv, Register, Hurry
<1>1. CASE UNCHANGED vars
  BY <1>0, <1>1 DEF vars
<1>2. CASE Application
  <2>1. CASE StartPreview \/ StopPreview \/ TakePicture \/ Disconnect
    BY <1>0, <2>1 DEF StartPreview, StopPreview, TakePicture, Disconnect
  <2>2. CASE AutoFocus \/ \E size \in Sizes : SetParameters(size)
    BY <1>0, <2>2 DEF AutoFocus, SetParameters
  <2>3. CASE SetPreviewDisplay
    BY <1>0, <2>3 DEF SetPreviewDisplay
  <2>4. CASE DropReference
    BY <1>0, <2>4 DEF DropReference, TearDown
  <2>5. CASE NextClient
    BY <2>5, FreshInv DEF NextClient, IInv
  <2> QED BY <1>2, <2>1, <2>2, <2>3, <2>4, <2>5 DEF Application
<1>3. CASE CallStep
  <2>1. CASE StartHal \/ StartSurface
    BY <1>0, <2>1 DEF StartHal, StartSurface, TypeOK
  <2>2. CASE HalExit \/ HalJoin \/ HalClear
    BY <1>0, <2>2 DEF HalExit, HalJoin, HalClear
  <2>3. CASE StopEnd \/ PictureEnd \/ TearDownEnd
    BY <1>0, <2>3 DEF StopEnd, PictureEnd, TearDownEnd
  <2> QED BY <1>3, <2>1, <2>2, <2>3 DEF CallStep
<1>4. CASE Loop \/ Grab
  BY <1>0, <1>4 DEF Loop, Grab
<1>5. CASE Crash
  BY <1>5, FreshInv DEF Crash, IInv
<1>6. ASSUME NEW u \in Threads, Callback(u) PROVE SurfaceInv'
  <2>1. CASE Check(u) \/ Cookie(u) \/ Want(u) \/ TryLock(u) \/ TryAgain(u)
    BY <1>0, <2>1 DEF Check, Cookie, Want, TryLock, TryAgain
  <2>2. CASE Handle(u) \/ HandleShutter(u) \/ Notify(u) \/ HandlePicture(u)
    BY <1>0, <2>2 DEF Handle, HandleShutter, Notify, HandlePicture
  <2>3. CASE ShutterAgain(u)
    <3>1. at[u] = "relocked" /\ msg[u] = "SHUTTER" /\ u \in Shots
      BY <2>3 DEF ShutterAgain, IInv, ThreadsInv, MsgAt, Threads
    <3>2. hasty = "no" => mPreviewThread = "none"
      BY <3>1 DEF IInv, PictureInv, PictureAt, Pending, PictureMsgs
    <3> QED BY <1>0, <2>3, <3>2 DEF ShutterAgain
  <2>4. CASE EndCallback(u)
    BY <1>0, <2>4 DEF EndCallback, TearDown
  <2> QED BY <1>6, <2>1, <2>2, <2>3, <2>4 DEF Callback, Unwanted, Deliver
<1> QED BY <1>1, <1>2, <1>3, <1>4, <1>5, <1>6 DEF Next

\* No picture is started.
NoNewPicture == \A r \in Shots : Pending(r)' => Pending(r)

\* A step of somebody else that leaves what a pending picture relies on.
Spared(s) ==
    Pending(s) =>
        /\ mPreviewThread' = "none"
        /\ call' \notin {"start", "picture"}
        /\ shown # "preview" => shown' # "preview"
        /\ "RAW_IMAGE" \in mMsgEnabled' => "RAW_IMAGE" \in mMsgEnabled
        /\ "SHUTTER" \in mMsgEnabled /\ "RAW_IMAGE" \in mMsgEnabled' =>
               "SHUTTER" \in mMsgEnabled'
        /\ mHardware = "gone" => mHardware' = "gone"

LEMMA SparedPicture ==
    ASSUME NEW s \in Shots, PictureAt(s), NoNewPicture, Spared(s),
           at'[s] = at[s], msg'[s] = msg[s]
    PROVE  PictureAt(s)'
<1>1. Pending(s)' => Pending(s)
  BY DEF NoNewPicture
<1>2. \A r \in Shots : Pending(r)' => Pending(r)
  BY DEF NoNewPicture
<1> SUFFICES ASSUME Pending(s)' PROVE PictureAt(s)'
  BY DEF PictureAt
<1>3. Pending(s)
  BY <1>1
<1>4. \A r \in Shots : Pending(r)' => r = s
  BY <1>2, <1>3 DEF PictureAt
<1> QED BY <1>3, <1>4 DEF PictureAt, Spared

\* A step that moves no thread and spares every picture.
LEMMA SparedPictures ==
    ASSUME PictureInv, hasty' = "no" => hasty = "no", UNCHANGED <<at, msg>>,
           hasty = "no" => \A s \in Shots : Spared(s)
    PROVE  PictureInv'
<1>1. NoNewPicture
  BY DEF NoNewPicture, Pending
<1> QED BY <1>1, SparedPicture DEF PictureInv

LEMMA MovePicture ==
    ASSUME TypeOK, NEW u \in Threads, at[u] \notin {"none", "deliver", "destroy"},
           NEW place, at' = [at EXCEPT ![u] = place], UNCHANGED msg
    PROVE  /\ NoNewPicture
           /\ at'[u] = place
           /\ \A s \in Shots : s # u => at'[s] = at[s] /\ msg'[s] = msg[s]
<1>1. at'[u] = place /\ \A s \in Threads : s # u => at'[s] = at[s]
  BY DEF TypeOK
<1>2. \A s \in Shots : s \in Threads
  BY DEF Threads
<1> QED BY <1>1, <1>2 DEF NoNewPicture, Pending

LEMMA LeavePicture ==
    ASSUME TypeOK, NEW u \in Threads, at[u] # "none", Leave(u)
    PROVE  /\ NoNewPicture
           /\ at'[u] = After(u) /\ msg'[u] = NextMsg(u)
           /\ \A s \in Shots : s # u => at'[s] = at[s] /\ msg'[s] = msg[s]
<1>1. /\ at'[u] = After(u) /\ msg'[u] = NextMsg(u)
      /\ \A s \in Threads : s # u => at'[s] = at[s] /\ msg'[s] = msg[s]
  BY DEF TypeOK, Leave
<1>2. \A s \in Shots : s \in Threads
  BY DEF Threads
<1>3. ASSUME NEW r \in Shots, Pending(r)' PROVE Pending(r)
  <2>1. CASE r = u
    <3>1. u # "preview"
      BY <2>1, ShotsAssumption
    <3>2. msg[u] \in {"SHUTTER", "RAW_IMAGE"}
      BY <1>1, <1>3, <2>1, <3>1 DEF Pending, After
    <3> QED BY <2>1, <3>2 DEF Pending, PictureMsgs
  <2>2. CASE r # u
    BY <1>1, <1>2, <1>3, <2>2 DEF Pending
  <2> QED BY <2>1, <2>2
<1> QED BY <1>1, <1>2, <1>3 DEF NoNewPicture

\* Its own callback comes to an end, or is not made.
LEMMA LeaveOwnPicture ==
    ASSUME NEW s \in Shots, PictureAt(s), Spared(s), NoNewPicture,
           at'[s] = After(s), msg'[s] = NextMsg(s), TypeOK,
           msg[s] = "SHUTTER" =>
               \/ "RAW_IMAGE" \notin mMsgEnabled
               \/ at[s] \notin {"check", "cookie", "want", "try", "locked"}
               \/ "SHUTTER" \notin mMsgEnabled
    PROVE  PictureAt(s)'
<1> SUFFICES ASSUME Pending(s)' PROVE PictureAt(s)'
  BY DEF PictureAt
<1>1. Pending(s)
  BY DEF NoNewPicture
<1>2. \A r \in Shots : Pending(r)' => r = s
  BY <1>1 DEF PictureAt, NoNewPicture
<1>3. s # "preview"
  BY ShotsAssumption
<1>4. /\ msg[s] \in {"SHUTTER", "RAW_IMAGE"}
      /\ at'[s] = "check"
  BY <1>3 DEF Pending, After
<1>5. msg[s] = "SHUTTER" => shown' # "preview" \/ "RAW_IMAGE" \notin mMsgEnabled'
  BY <1>1, <1>4 DEF PictureAt, Spared
<1>6. /\ mPreviewThread' = "none"
      /\ call' \notin {"start", "picture"}
  BY <1>1 DEF Spared
<1>7. CASE msg[s] = "SHUTTER"
  <2>1. msg'[s] = "RAW_IMAGE"
    BY <1>7 DEF NextMsg
  <2> QED BY <1>2, <1>4, <1>5, <1>6, <1>7, <2>1 DEF PictureAt
<1>8. CASE msg[s] = "RAW_IMAGE"
  <2>1. msg'[s] = "COMPRESSED_IMAGE"
    BY <1>8 DEF NextMsg
  <2> QED BY <1>2, <1>4, <1>6, <2>1 DEF PictureAt
<1> QED BY <1>4, <1>7, <1>8

\* The thread of s runs ~Client, or another thread does.
LEMMA TearDownPicture ==
    ASSUME TypeOK, NEW s \in Shots, \A r \in Shots : PictureAt(r),
           NEW u \in Threads \cup {"app"}, TearDown(u),
           \/ u = "app" /\ at' = at
           \/ /\ u \in Threads /\ at[u] \in Holding
              /\ at' = [at EXCEPT ![u] = "destroy"],
           UNCHANGED <<msg, mHardware, mPreviewThread>>
    PROVE  PictureAt(s)'
<1> SUFFICES ASSUME Pending(s)' PROVE PictureAt(s)'
  BY DEF PictureAt
<1>1. \A r \in Shots : r \in Threads /\ r # "app"
  BY ShotsAssumption DEF Threads
<1>2. \A r \in Shots : at'[r] = IF r = u THEN "destroy" ELSE at[r]
  BY <1>1 DEF TypeOK
<1>3. u \in Shots => at[u] \in Holding
  BY <1>1
<1>4. \A r \in Shots : Pending(r)' => Pending(r)
  BY <1>2, <1>3 DEF Pending, Holding
<1>5. Pending(s) /\ PictureAt(s) /\ \A r \in Shots : Pending(r)' => r = s
  BY <1>4 DEF PictureAt
<1>6. /\ call' = "teardown" /\ mMsgEnabled' = {}
      /\ shown # "preview" => shown' # "preview"
  BY DEF TearDown, Register
<1>7. CASE s = u
  <2>1. at'[s] = "destroy"
    BY <1>2, <1>7
  <2>2. msg[s] = "RAW_IMAGE" => shown # "preview"
    BY <1>3, <1>5, <1>7 DEF PictureAt, Holding
  <2> QED BY <1>5, <1>6, <2>1, <2>2 DEF PictureAt
<1>8. CASE s # u
  <2>1. at'[s] = at[s]
    BY <1>2, <1>8
  <2> QED BY <1>5, <1>6, <2>1 DEF PictureAt
<1> QED BY <1>7, <1>8

LEMMA EndCallbackPicture ==
    ASSUME IInv, NEW s \in Shots, hasty = "no", NEW u \in Threads,
           \/ at[u] \in {"want", "rewant"} /\ msg[u] \notin mMsgEnabled
           \/ at[u] = "deliver",
           EndCallback(u)
    PROVE  PictureAt(s)'
<1>0. TypeOK /\ \A r \in Shots : PictureAt(r)
  BY DEF IInv, PictureInv
<1>1. UNCHANGED <<mHardware, mPreviewThread>>
  BY DEF EndCallback, halVars
<1>2. CASE TearDown(u) /\ at' = [at EXCEPT ![u] = "destroy"] /\ UNCHANGED msg
  BY <1>0, <1>1, <1>2, TearDownPicture DEF Holding
<1>3. CASE Leave(u) /\ UNCHANGED <<callVars, mMsgEnabled, shown>>
  <2>1. Spared(s)
    BY <1>0, <1>1, <1>3 DEF Spared, PictureAt, callVars
  <2>2. /\ NoNewPicture
        /\ at'[u] = After(u) /\ msg'[u] = NextMsg(u)
        /\ s # u => at'[s] = at[s] /\ msg'[s] = msg[s]
    BY <1>0, <1>3, LeavePicture
  <2>3. CASE s = u
    BY <1>0, <2>1, <2>2, <2>3, LeaveOwnPicture
  <2>4. CASE s # u
    BY <1>0, <2>1, <2>2, <2>4, SparedPicture
  <2> QED BY <2>3, <2>4
<1> QED BY <1>2, <1>3 DEF EndCallback

LEMMA CallbackPicture ==
    ASSUME IInv, hasty = "no", NEW u \in Threads, Callback(u), NEW s \in Shots
    PROVE  PictureAt(s)'
<1>0. /\ TypeOK /\ CallInv /\ PictureAt(s)
      /\ MsgAt(u) /\ LockAt(u)
      /\ u \in Shots => PictureAt(u)
      /\ u \notin Shots => u = "preview"
  BY DEF IInv, PictureInv, ThreadsInv, Threads
<1> USE DEF callVars, halVars, surfaceVars, refVars, Move
\* What a step of u that changes neither the mask nor the buffer shows of s.
<1>1. ASSUME NEW from \in {"check", "cookie", "want", "try", "rewant", "retry",
                           "locked", "relocked", "notify"},
             NEW to, Move(u, from, to), UNCHANGED msg,
             Spared(s),
             s = u => \/ msg[s] \notin {"SHUTTER", "RAW_IMAGE"}
                      \/ PictureAt(s)'
      PROVE  PictureAt(s)'
  <2>1. /\ NoNewPicture
        /\ at'[u] = to
        /\ s # u => at'[s] = at[s] /\ msg'[s] = msg[s]
    BY <1>0, <1>1, MovePicture
  <2>2. CASE s # u
    BY <1>0, <1>1, <2>1, <2>2, SparedPicture
  <2>3. CASE s = u /\ msg[s] \notin {"SHUTTER", "RAW_IMAGE"}
    <3>1. \A r \in Shots : Pending(r)' => Pending(r)
      BY <2>1 DEF NoNewPicture
    <3>2. Pending(s)' => Pending(s) /\ \A r \in Shots : Pending(r)' => r = s
      BY <1>0, <3>1 DEF PictureAt
    <3> QED BY <1>1, <2>3, <3>2 DEF PictureAt, Spared
  <2> QED BY <1>1, <2>2, <2>3
\* And when u is s.
<1>2. ASSUME NEW from \in {"check", "cookie", "want", "try", "rewant", "retry",
                           "locked", "relocked", "notify"},
             NEW to, Move(u, from, to), UNCHANGED msg, Spared(s), s = u,
             msg[s] = "SHUTTER" /\ Pending(s) =>
                 IF to \in {"check", "cookie", "want", "try", "locked"}
                 THEN "SHUTTER" \in mMsgEnabled' \/ "RAW_IMAGE" \notin mMsgEnabled'
                 ELSE shown' # "preview" \/ "RAW_IMAGE" \notin mMsgEnabled',
             msg[s] = "RAW_IMAGE" /\ Pending(s) =>
                 \/ shown' # "preview"
                 \/ to = "cookie" /\ mHardware' = "gone"
      PROVE  PictureAt(s)'
  <2>1. NoNewPicture /\ at'[s] = to /\ msg'[s] = msg[s]
    BY <1>0, <1>2, MovePicture
  <2>2. \A r \in Shots : Pending(r)' => Pending(r)
    BY <2>1 DEF NoNewPicture
  <2>3. Pending(s)' => Pending(s) /\ \A r \in Shots : Pending(r)' => r = s
    BY <1>0, <2>2 DEF PictureAt
  <2> QED BY <1>2, <2>1, <2>3 DEF PictureAt, Spared
<1>3. ASSUME UNCHANGED <<mPreviewThread, call, shown, mMsgEnabled, mHardware>>
      PROVE  Spared(s)
  BY <1>0, <1>3 DEF Spared, PictureAt
<1>4. CASE Check(u)
  <2>1. Spared(s)
    BY <1>3, <1>4 DEF Check
  <2>2. CASE Leave(u) /\ msg[u] \notin mMsgEnabled
    <3>1. at[u] = "check"
      BY <1>4 DEF Check
    <3>2. /\ NoNewPicture
          /\ at'[u] = After(u) /\ msg'[u] = NextMsg(u)
          /\ s # u => at'[s] = at[s] /\ msg'[s] = msg[s]
      BY <1>0, <2>2, <3>1, LeavePicture
    <3>3. CASE s = u
      BY <1>0, <2>1, <2>2, <3>2, <3>3, LeaveOwnPicture
    <3>4. CASE s # u
      BY <1>0, <2>1, <3>2, <3>4, SparedPicture
    <3> QED BY <3>3, <3>4
  <2>3. CASE /\ msg[u] \in mMsgEnabled \/ mHardware = "gone"
             /\ Move(u, "check", "cookie") /\ UNCHANGED msg
    <3>1. CASE s = u
      <4>1. UNCHANGED <<mMsgEnabled, shown, mHardware>>
        BY <1>4 DEF Check
      <4> QED BY <1>0, <1>2, <2>1, <2>3, <3>1, <4>1 DEF PictureAt
    <3>2. CASE s # u
      BY <1>1, <2>1, <2>3, <3>2
    <3> QED BY <3>1, <3>2
  <2> QED BY <1>4, <2>2, <2>3 DEF Check
<1>5. CASE Cookie(u)
  <2>1. Spared(s) /\ UNCHANGED <<mMsgEnabled, shown, mHardware>>
    BY <1>3, <1>5 DEF Cookie
  <2>2. CASE Leave(u) /\ (mHardware = "gone" \/ call = "teardown")
    <3>1. at[u] = "cookie" /\ mMsgEnabled = {}
      BY <1>0, <1>5, <2>2 DEF Cookie, CallInv
    <3>2. /\ NoNewPicture
          /\ at'[u] = After(u) /\ msg'[u] = NextMsg(u)
          /\ s # u => at'[s] = at[s] /\ msg'[s] = msg[s]
      BY <1>0, <2>2, <3>1, LeavePicture
    <3>3. CASE s = u
      BY <1>0, <2>1, <3>1, <3>2, <3>3, LeaveOwnPicture
    <3>4. CASE s # u
      BY <1>0, <2>1, <3>2, <3>4, SparedPicture
    <3> QED BY <3>3, <3>4
  <2>3. CASE mHardware # "gone" /\ Move(u, "cookie", "want") /\ UNCHANGED msg
    BY <1>0, <1>1, <1>2, <2>1, <2>3 DEF PictureAt
  <2> QED BY <1>5, <2>2, <2>3 DEF Cookie
<1>6. CASE Want(u) \/ TryLock(u) \/ TryAgain(u)
  <2>1. Spared(s) /\ UNCHANGED <<mMsgEnabled, shown, mHardware, msg>>
    BY <1>3, <1>6 DEF Want, TryLock, TryAgain
  <2>2. PICK from \in {"want", "try", "rewant", "retry"},
             to \in {"want", "try", "rewant", "retry", "locked", "relocked"} :
             /\ Move(u, from, to)
             /\ from \in {"want", "try"} <=> to \in {"want", "try", "locked"}
    BY <1>6 DEF Want, TryLock, TryAgain
  <2>3. CASE s # u
    BY <1>1, <2>1, <2>2, <2>3
  <2>4. CASE s = u
    <3>1. /\ msg[s] = "SHUTTER" /\ Pending(s) =>
                IF to \in {"check", "cookie", "want", "try", "locked"}
                THEN "SHUTTER" \in mMsgEnabled \/ "RAW_IMAGE" \notin mMsgEnabled
                ELSE shown # "preview" \/ "RAW_IMAGE" \notin mMsgEnabled
          /\ msg[s] = "RAW_IMAGE" /\ Pending(s) => shown # "preview"
      BY <1>0, <2>2, <2>4 DEF PictureAt
    <3> QED BY <1>2, <2>1, <2>2, <2>4, <3>1
  <2> QED BY <2>3, <2>4
<1>7. CASE Handle(u)
  <2>1. Spared(s) /\ s = u => msg[s] \notin {"SHUTTER", "RAW_IMAGE"}
    BY <1>7 DEF Handle
  <2>2. Spared(s)
    BY <1>3, <1>7 DEF Handle
  <2> QED BY <1>1, <1>7, <2>1, <2>2 DEF Handle
<1>8. CASE HandleShutter(u)
  <2>1. /\ Spared(s) /\ UNCHANGED <<mMsgEnabled, mHardware, msg>>
        /\ Move(u, "locked", "notify") /\ msg[u] = "SHUTTER"
    BY <1>0, <1>8 DEF HandleShutter, Spared, PictureAt, Register
  <2>2. shown' # "preview"
    BY <1>0, <1>8 DEF HandleShutter, Register, IInv, SurfaceInv, TypeOK
  <2> QED BY <1>1, <1>2, <2>1, <2>2
<1>9. CASE Notify(u)
  <2>1. /\ Spared(s) /\ UNCHANGED <<mMsgEnabled, shown, mHardware, msg>>
        /\ Move(u, "notify", "rewant") /\ msg[u] = "SHUTTER"
    BY <1>0, <1>3, <1>9 DEF Notify, MsgAt
  <2> QED BY <1>0, <1>1, <1>2, <2>1 DEF PictureAt
<1>10. CASE ShutterAgain(u)
  <2>1. /\ Move(u, "relocked", "deliver") /\ msg[u] = "SHUTTER"
        /\ UNCHANGED <<msg, mHardware, mPreviewThread, call>>
        /\ mMsgEnabled' = mMsgEnabled \ {"SHUTTER"} /\ shown' = Register("raw")
    BY <1>0, <1>10 DEF ShutterAgain, MsgAt
  <2>2. u \in Shots /\ Pending(u)
    BY <1>0, <2>1 DEF Pending, PictureMsgs, MsgAt
  <2>3. shown' # "preview"
    BY <2>1 DEF Register, IInv, SurfaceInv, TypeOK
  <2>4. CASE s = u
    <3>1. /\ NoNewPicture /\ at'[s] = "deliver" /\ msg'[s] = "SHUTTER"
      BY <1>0, <2>1, <2>4, MovePicture
    <3>2. \A r \in Shots : Pending(r)' => r = s
      BY <1>0, <2>2, <2>4, <3>1 DEF NoNewPicture, PictureAt
    <3> QED BY <1>0, <2>1, <2>2, <2>3, <2>4, <3>1, <3>2 DEF PictureAt
  <2>5. CASE s # u
    <3>1. ~Pending(s)
      BY <1>0, <2>2, <2>5 DEF PictureAt
    <3>2. NoNewPicture
      BY <1>0, <2>1, MovePicture
    <3> QED BY <3>1, <3>2 DEF NoNewPicture, PictureAt
  <2> QED BY <2>4, <2>5
<1>11. CASE HandlePicture(u)
  <2>1. /\ Move(u, "locked", "deliver") /\ msg[u] \in {"RAW_IMAGE", "COMPRESSED_IMAGE"}
        /\ UNCHANGED <<msg, mHardware, mPreviewThread, call, shown>>
        /\ mMsgEnabled' = mMsgEnabled \ {msg[u]}
    BY <1>11 DEF HandlePicture
  <2>2. Spared(s)
    BY <1>0, <2>1 DEF Spared, PictureAt
  <2>3. CASE s = u
    <3>1. msg[s] = "RAW_IMAGE" /\ Pending(s) => shown' # "preview"
      BY <1>0, <2>1, <2>3 DEF PictureAt
    <3> QED BY <1>2, <2>1, <2>2, <2>3, <3>1
  <2>4. CASE s # u
    BY <1>1, <2>1, <2>2, <2>4
  <2> QED BY <2>3, <2>4
<1>12. CASE Unwanted(u) \/ Deliver(u)
  BY <1>12, EndCallbackPicture DEF Unwanted, Deliver
<1> QED BY <1>4, <1>5, <1>6, <1>7, <1>8, <1>9, <1>10, <1>11, <1>12 DEF Callback

LEMMA StepPicture == IInv /\ [Next]_vars => PictureInv'
<1> SUFFICES ASSUME IInv, [Next]_vars PROVE PictureInv'
  OBVIOUS
<1>0. /\ TypeOK /\ CallInv /\ ThreadsInv /\ PreviewInv /\ PictureInv
      /\ \A s \in Shots : s # "preview" /\ s \in Threads
  BY ShotsAssumption DEF IInv, Threads
<1>01. ASSUME hasty = "no", NEW s \in Shots PROVE PictureAt(s)
  BY <1>0, <1>01 DEF PictureInv
<1> USE DEF callVars, halVars, surfaceVars, refVars, Accepted, Begin, Advance,
            Return, Move
<1>1. CASE UNCHANGED vars
  <2>1. hasty = "no" => \A s \in Shots : Spared(s)
    BY <1>01, <1>1 DEF Spared, PictureAt, vars
  <2> QED BY <1>0, <1>1, <2>1, SparedPictures DEF vars
<1>2. CASE Application
  <2>1. CASE StartPreview \/ TakePicture
    <3>1. ASSUME hasty' = "no" PROVE hasty = "no" /\ \A s \in Shots : ~Pending(s)
      BY <1>0, <2>1, <3>1, BackNotPending DEF StartPreview, TakePicture, Hurry
    <3>2. UNCHANGED <<at, msg>>
      BY <2>1 DEF StartPreview, TakePicture
    <3> QED BY <3>1, <3>2 DEF PictureInv, PictureAt, Pending
  <2>2. CASE StopPreview \/ Disconnect \/ SetPreviewDisplay
    <3>1. hasty = "no" => \A s \in Shots : Spared(s)
      BY <1>01, <2>2 DEF StopPreview, Disconnect, SetPreviewDisplay, Spared,
                         PictureAt
    <3>2. UNCHANGED <<at, msg, hasty>>
      BY <2>2 DEF StopPreview, Disconnect, SetPreviewDisplay
    <3> QED BY <1>0, <3>1, <3>2, SparedPictures
  <2>3. CASE AutoFocus
    <3>1. PICK r \in Shots : /\ at[r] = "none"
                             /\ at' = [at EXCEPT ![r] = "check"]
                             /\ msg' = [msg EXCEPT ![r] = "FOCUS"]
      BY <2>3 DEF AutoFocus
    <3>2. /\ at'[r] = "check" /\ msg'[r] = "FOCUS"
          /\ \A s \in Shots : s # r => at'[s] = at[s] /\ msg'[s] = msg[s]
      BY <1>0, <3>1 DEF TypeOK
    <3>3. NoNewPicture /\ ~Pending(r)'
      BY <3>2 DEF NoNewPicture, Pending, PictureMsgs
    <3>4. ASSUME hasty = "no", NEW s \in Shots PROVE Spared(s)
      BY <1>01, <2>3, <3>4 DEF AutoFocus, Spared, PictureAt
    <3>5. ASSUME hasty = "no", NEW s \in Shots PROVE PictureAt(s)'
      <4>1. CASE s = r
        BY <3>3, <4>1 DEF PictureAt
      <4>2. CASE s # r
        BY <1>01, <3>2, <3>3, <3>4, <3>5, <4>2, SparedPicture
      <4> QED BY <4>1, <4>2
    <3> QED BY <2>3, <3>5 DEF AutoFocus, PictureInv
  <2>4. ASSUME NEW size \in Sizes, SetParameters(size) PROVE PictureInv'
    <3>1. \A s \in Shots : at'[s] = at[s] /\ msg'[s] = msg[s]
      BY <1>0, <2>4 DEF SetParameters, TypeOK
    <3>2. NoNewPicture
      BY <3>1 DEF NoNewPicture, Pending
    <3>3. ASSUME hasty = "no", NEW s \in Shots PROVE PictureAt(s)'
      <4>1. Spared(s)
        BY <1>01, <2>4, <3>3 DEF SetParameters, Spared, PictureAt
      <4> QED BY <1>01, <3>1, <3>2, <3>3, <4>1, SparedPicture
    <3> QED BY <2>4, <3>3 DEF SetParameters, PictureInv
  <2>5. CASE DropReference
    <3>1. UNCHANGED <<at, msg, hasty, mHardware, mPreviewThread>>
      BY <2>5 DEF DropReference
    <3>2. CASE TearDown("app")
      <4>1. "app" \in Threads \cup {"app"}
        OBVIOUS
      <4>2. ASSUME hasty = "no", NEW s \in Shots PROVE PictureAt(s)'
        <5>1. \A r \in Shots : PictureAt(r)
          BY <1>01, <4>2
        <5> HIDE DEF callVars, halVars, surfaceVars, refVars
        <5>2. at' = at /\ UNCHANGED <<msg, mHardware, mPreviewThread>>
          BY <3>1
        <5> QED BY <1>0, <3>2, <4>1, <4>2, <5>1, <5>2, TearDownPicture
      <4> QED BY <3>1, <4>2 DEF PictureInv
    <3>3. CASE UNCHANGED <<callVars, mMsgEnabled, shown>>
      <4>1. hasty = "no" => \A s \in Shots : Spared(s)
        BY <1>01, <3>1, <3>3 DEF Spared, PictureAt
      <4> QED BY <1>0, <3>1, <4>1, SparedPictures
    <3> QED BY <2>5, <3>2, <3>3 DEF DropReference
  <2>6. CASE NextClient
    BY <2>6, FreshInv DEF NextClient, IInv
  <2> QED BY <1>2, <2>1, <2>2, <2>3, <2>4, <2>5, <2>6 DEF Application
<1>3. CASE CallStep
  <2>1. CASE StartHal \/ StartSurface
    <3>1. ASSUME hasty = "no", NEW s \in Shots PROVE ~Pending(s)
      BY <1>01, <2>1, <3>1 DEF StartHal, StartSurface, PictureAt
    <3>2. /\ UNCHANGED <<msg, hasty>>
          /\ \A s \in Shots : at'[s] = at[s]
      BY <1>0, <2>1 DEF StartHal, StartSurface, TypeOK
    <3> QED BY <3>1, <3>2 DEF PictureInv, PictureAt, Pending
  <2>2. CASE HalExit \/ HalJoin \/ HalClear \/ StopEnd
    <3>1. hasty = "no" => \A s \in Shots : Spared(s)
      BY <1>01, <2>2 DEF HalExit, HalJoin, HalClear, StopEnd, Register, Spared,
                         PictureAt
    <3>2. UNCHANGED <<at, msg, hasty>>
      BY <2>2 DEF HalExit, HalJoin, HalClear, StopEnd
    <3> QED BY <1>0, <3>1, <3>2, SparedPictures
  <2>3. CASE PictureEnd
    <3>1. /\ call = "picture" /\ step = "end" /\ call' = "idle"
          /\ UNCHANGED <<hasty, shown, mMsgEnabled, mPreviewThread>>
      BY <2>3 DEF PictureEnd
    <3>2. PICK r \in Shots : /\ at' = [at EXCEPT ![r] = "check"]
                             /\ msg' = [msg EXCEPT ![r] = "SHUTTER"]
      BY <2>3 DEF PictureEnd
    <3>3. /\ at'[r] = "check" /\ msg'[r] = "SHUTTER"
          /\ \A s \in Shots : s # r => at'[s] = at[s] /\ msg'[s] = msg[s]
      BY <1>0, <3>2 DEF TypeOK
    <3>4. ASSUME hasty = "no", NEW s \in Shots PROVE ~Pending(s)
      BY <1>01, <3>1, <3>4 DEF PictureAt
    <3>5. ASSUME hasty = "no", NEW s \in Shots, Pending(s)' PROVE s = r
      BY <3>3, <3>4, <3>5 DEF Pending
    <3>6. mPreviewThread = "none" /\ "SHUTTER" \in mMsgEnabled
      BY <1>0, <3>1 DEF PreviewInv, Stopping, TypeOK, CallInv, PictureMsgs
    <3>7. ASSUME hasty = "no", NEW s \in Shots, Pending(s)' PROVE PictureAt(s)'
      <4>1. s = r /\ \A q \in Shots : Pending(q)' => q = s
        BY <3>5, <3>7
      <4> QED BY <3>1, <3>3, <3>6, <4>1 DEF PictureAt
    <3> QED BY <3>1, <3>7 DEF PictureInv, PictureAt
  <2>4. CASE TearDownEnd
    <3>1. /\ call = "teardown" /\ call' = "idle" /\ mHardware' = "gone"
          /\ UNCHANGED <<mMsgEnabled, mPreviewThread, shown, hasty>>
          /\ mMsgEnabled = {}
      BY <1>0, <2>4 DEF TearDownEnd, CallInv
    <3>2. ASSUME hasty = "no", NEW s \in Shots PROVE Spared(s)
      BY <1>01, <3>1, <3>2 DEF Spared, PictureAt
    <3>3. CASE runner = "app"
      <4>1. UNCHANGED <<at, msg>>
        BY <2>4, <3>3 DEF TearDownEnd
      <4> QED BY <1>0, <3>1, <3>2, <4>1, SparedPictures
    <3>4. CASE runner # "app"
      <4>1. runner \in Threads /\ Leave(runner)
        BY <1>0, <2>4, <3>4 DEF TypeOK, TearDownEnd
      <4>2. at[runner] = "destroy"
        BY <1>0, <3>1, <4>1 DEF ThreadsInv, LockAt
      <4>3. /\ NoNewPicture
            /\ at'[runner] = After(runner) /\ msg'[runner] = NextMsg(runner)
            /\ \A s \in Shots : s # runner => at'[s] = at[s] /\ msg'[s] = msg[s]
        BY <1>0, <4>1, <4>2, LeavePicture
      <4>4. ASSUME hasty = "no", NEW s \in Shots PROVE PictureAt(s)'
        <5>1. CASE s = runner
          BY <1>0, <1>01, <3>1, <3>2, <4>3, <4>4, <5>1, LeaveOwnPicture
        <5>2. CASE s # runner
          BY <1>01, <3>2, <4>3, <4>4, <5>2, SparedPicture
        <5> QED BY <5>1, <5>2
      <4> QED BY <3>1, <4>4 DEF PictureInv
    <3> QED BY <3>3, <3>4
  <2> QED BY <1>3, <2>1, <2>2, <2>3, <2>4 DEF CallStep
<1>4. CASE Loop \/ Grab
  <2>1. \A s \in Shots : at'[s] = at[s] /\ msg'[s] = msg[s]
    BY <1>0, <1>4 DEF Loop, Grab, TypeOK
  <2>2. NoNewPicture
    BY <2>1 DEF NoNewPicture, Pending
  <2>3. ASSUME hasty = "no", NEW s \in Shots PROVE PictureAt(s)'
    <3>1. Spared(s)
      BY <1>01, <1>4, <2>3 DEF Loop, Grab, Spared, PictureAt
    <3> QED BY <1>01, <2>1, <2>2, <2>3, <3>1, SparedPicture
  <2> QED BY <1>4, <2>3 DEF Loop, Grab, PictureInv
<1>5. CASE Crash
  BY <1>5, FreshInv DEF Crash, IInv
<1>6. ASSUME NEW u \in Threads, Callback(u) PROVE PictureInv'
  <2>1. UNCHANGED hasty
    BY <1>6 DEF Callback, Check, Cookie, Want, Unwanted, TryLock, TryAgain,
                Handle, HandleShutter, Notify, ShutterAgain, HandlePicture,
                Deliver, EndCallback
  <2> QED BY <1>6, <2>1, CallbackPicture DEF PictureInv
<1> QED BY <1>1, <1>2, <1>3, <1>4, <1>5, <1>6 DEF Next

-----------------------------------------------------------------------------
(* The refinement of PreviewContract *)

Preview == IF mPreviewThread = "none" THEN "off"
           ELSE IF exitPending = "yes" THEN "stopping" ELSE "on"
Frame   == IF at["preview"] \in {"locked", "deliver"} THEN "shown" ELSE "none"

LEMMA InitContract == Init => Contract!Init
  BY DEF Init, Contract!Init, Threads

\* A callback of the preview thread shows a frame or ends one.
LEMMA CallbackContract ==
    ASSUME IInv, NEW u \in Threads, Callback(u)
    PROVE  \/ Preview' = Preview /\ Frame' = Frame
           \/ Preview = "on" /\ Frame = "none" /\ Frame' = "shown" /\ Preview' = Preview
           \/ Frame = "shown" /\ Frame' = "none" /\ Preview' = Preview
<1>0. /\ TypeOK /\ MsgAt(u) /\ CallInv /\ PreviewInv /\ LockAt(u)
      /\ "preview" \in Threads
      /\ u # "free" /\ "preview" # "free"
  BY ShotsAssumption DEF IInv, ThreadsInv, Threads
<1> USE DEF Move
<1>1. Preview' = Preview
  BY DEF Callback, Check, Cookie, Want, Unwanted, TryLock, TryAgain, Handle,
         HandleShutter, Notify, ShutterAgain, HandlePicture, Deliver,
         EndCallback, halVars, Preview
<1>2. CASE u # "preview"
  <2>1. at'["preview"] = at["preview"]
    BY <1>0, <1>2 DEF Callback, Check, Cookie, Want, Unwanted, TryLock, TryAgain,
         Handle, HandleShutter, Notify, ShutterAgain, HandlePicture, Deliver,
         EndCallback, Leave, TypeOK
  <2> QED BY <1>1, <2>1 DEF Frame
<1>3. CASE u = "preview"
  <2>0. /\ msg[u] = "PREVIEW_FRAME"
        /\ After(u) = "loop"
        /\ at[u] \notin {"notify", "rewant", "retry", "relocked"}
    BY <1>0, <1>3 DEF MsgAt, After
  <2>1. ASSUME NEW place, at' = [at EXCEPT ![u] = place]
        PROVE  Frame' = IF place \in {"locked", "deliver"} THEN "shown" ELSE "none"
    BY <1>0, <1>3, <2>1 DEF Frame, TypeOK
  <2>2. CASE Check(u) \/ Cookie(u) \/ Want(u) \/ TryAgain(u)
    BY <1>1, <1>3, <2>0, <2>1, <2>2 DEF Check, Cookie, Want, TryAgain, Leave, Frame
  <2>3. CASE TryLock(u)
    <3>1. at[u] = "try" /\ at' = [at EXCEPT ![u] = "locked"] /\ mLock = "free"
      BY <2>0, <2>3 DEF TryLock
    <3>2. call # "teardown" \/ runner # "preview"
      BY <1>0, <1>3, <3>1 DEF LockAt
    <3>3. mPreviewThread = "set"
      BY <1>0, <1>3, <3>1, <3>2 DEF PreviewInv, TypeOK
    <3>4. call = "idle"
      <4>1. runner # "free"
        BY <1>0, ShotsAssumption DEF TypeOK, Threads
      <4> QED BY <1>0, <3>1, <4>1 DEF CallInv
    <3>5. Preview = "on"
      BY <1>0, <3>3, <3>4 DEF Preview, PreviewInv, Stopping
    <3> QED BY <1>1, <1>3, <2>1, <3>1, <3>5 DEF Frame
  <2>4. CASE Handle(u) \/ HandlePicture(u)
    BY <1>1, <1>3, <2>1, <2>4 DEF Handle, HandlePicture, Frame
  <2>5. CASE HandleShutter(u) \/ Notify(u) \/ ShutterAgain(u)
    BY <2>0, <2>5 DEF HandleShutter, Notify, ShutterAgain
  <2>6. CASE EndCallback(u) /\ at[u] \in {"want", "deliver"}
    <3>1. CASE at' = [at EXCEPT ![u] = "destroy"]
      BY <1>1, <1>3, <2>1, <2>6, <3>1 DEF Frame
    <3>2. CASE Leave(u)
      BY <1>1, <1>3, <2>0, <2>1, <2>6, <3>2 DEF Frame, Leave
    <3> QED BY <2>6, <3>1, <3>2 DEF EndCallback
  <2> QED BY <1>3, <2>0, <2>2, <2>3, <2>4, <2>5, <2>6 DEF Callback, Unwanted, Deliver
<1> QED BY <1>2, <1>3

\* The steps of PreviewContract, of these two.
Abstract ==
    \/ Preview' = Preview /\ Frame' = Frame
    \/ Preview = "off" /\ Preview' = "on" /\ Frame = "none" /\ Frame' = Frame
    \/ Preview = "on" /\ Frame = "none" /\ Frame' = "shown" /\ Preview' = Preview
    \/ Frame = "shown" /\ Frame' = "none" /\ Preview' = Preview
    \/ Preview = "on" /\ Preview' = "stopping" /\ Frame' = Frame
    \/ Preview = "stopping" /\ Preview' = "off" /\ Frame = "none" /\ Frame' = Frame
    \/ Preview' = "off" /\ Frame' = "none"

LEMMA AbstractContract == Abstract => [Contract!Next]_Contract!contractVars
  BY DEF Abstract, Preview, Frame, Contract!Next, Contract!contractVars,
         Contract!Start, Contract!Show, Contract!Shown, Contract!Stop,
         Contract!Stopped, Contract!Restart

LEMMA StepContract ==
    ASSUME IInv, [Next]_vars
    PROVE  [Contract!Next]_Contract!contractVars
<1> SUFFICES Abstract
  BY AbstractContract
<1>0. /\ TypeOK /\ CallInv /\ PreviewInv /\ ThreadsInv
      /\ "preview" \in Threads /\ "preview" # "app"
      /\ \A s \in Shots : s # "preview"
  BY ShotsAssumption DEF IInv, Threads
<1>2. ASSUME UNCHANGED <<mPreviewThread, exitPending>>,
             at'["preview"] = at["preview"]
      PROVE  Abstract
  <2>1. Preview' = Preview /\ Frame' = Frame
    BY <1>2 DEF Preview, Frame
  <2> QED BY <2>1 DEF Abstract
<1> USE DEF callVars, halVars, surfaceVars, refVars, Accepted, Begin, Advance,
            Return, Move
<1>3. CASE UNCHANGED vars
  BY <1>2, <1>3 DEF vars
<1>4. CASE Application
  <2>1. CASE StartPreview \/ StopPreview \/ TakePicture \/ Disconnect
    BY <1>2, <2>1 DEF StartPreview, StopPreview, TakePicture, Disconnect
  <2>2. CASE AutoFocus
    <3>1. at'["preview"] = at["preview"]
      BY <1>0, <2>2 DEF AutoFocus, TypeOK
    <3> QED BY <1>2, <2>2, <3>1 DEF AutoFocus
  <2>3. ASSUME NEW size \in Sizes, SetParameters(size) PROVE Abstract
    <3>1. at'["preview"] = IF at["preview"] = "grab" THEN "grabfreed"
                           ELSE at["preview"]
      BY <1>0, <2>3 DEF SetParameters, TypeOK
    <3> QED BY <2>3, <3>1 DEF SetParameters, Preview, Frame, Abstract
  <2>4. CASE SetPreviewDisplay \/ DropReference
    BY <1>2, <2>4 DEF SetPreviewDisplay, DropReference
  <2>5. CASE NextClient
    BY <1>0, <2>5 DEF NextClient, Anew, Preview, Frame, Abstract
  <2> QED BY <1>4, <2>1, <2>2, <2>3, <2>4, <2>5 DEF Application
<1>5. CASE CallStep
  <2>1. CASE StartHal
    <3>1. at["preview"] = "none" /\ mPreviewThread = "none"
      BY <1>0, <2>1 DEF StartHal, PreviewInv, CallInv, TypeOK
    <3>2. at'["preview"] = "loop"
      BY <1>0, <2>1 DEF StartHal, TypeOK
    <3> QED BY <2>1, <3>1, <3>2 DEF StartHal, Preview, Frame, Abstract
  <2>2. CASE HalExit
    <3>1. mPreviewThread = "set" => exitPending = "no"
      BY <1>0, <2>2 DEF HalExit, PreviewInv, TypeOK
    <3> QED BY <1>0, <2>2, <3>1 DEF HalExit, Preview, Frame, Abstract, TypeOK
  <2>3. CASE HalClear
    <3>1. at["preview"] \in {"none", "destroy"}
      BY <1>0, <2>3 DEF HalClear, PreviewInv, Stopping, CallInv, ThreadsInv, LockAt
    <3>2. mPreviewThread = "set" => exitPending = "yes"
      BY <1>0, <2>3 DEF HalClear, PreviewInv
    <3> QED BY <1>0, <2>3, <3>1, <3>2 DEF HalClear, Preview, Frame, Abstract, TypeOK
  <2>4. CASE StartSurface \/ HalJoin \/ StopEnd
    BY <1>2, <2>4 DEF StartSurface, HalJoin, StopEnd
  <2>5. CASE PictureEnd
    <3>1. at'["preview"] = at["preview"]
      BY <1>0, <2>5 DEF PictureEnd, TypeOK
    <3> QED BY <1>2, <2>5, <3>1 DEF PictureEnd
  <2>6. CASE TearDownEnd
    <3>1. UNCHANGED <<mPreviewThread, exitPending>>
      BY <2>6 DEF TearDownEnd
    <3>2. CASE runner = "preview"
      <4>1. at["preview"] = "destroy"
        BY <1>0, <2>6, <3>2 DEF TearDownEnd, ThreadsInv, LockAt
      <4>2. at'["preview"] = "loop"
        BY <1>0, <2>6, <3>2 DEF TearDownEnd, Leave, After, TypeOK
      <4> QED BY <3>1, <4>1, <4>2 DEF Preview, Frame, Abstract
    <3>3. CASE runner # "preview"
      <4>1. at'["preview"] = at["preview"]
        BY <1>0, <2>6, <3>3 DEF TearDownEnd, Leave, TypeOK
      <4> QED BY <1>2, <3>1, <4>1
    <3> QED BY <3>2, <3>3
  <2> QED BY <1>5, <2>1, <2>2, <2>3, <2>4, <2>5, <2>6 DEF CallStep
<1>6. CASE Loop \/ Grab
  <2>1. /\ at["preview"] \in {"loop", "grab", "grabfreed"}
        /\ at'["preview"] \in {"none", "grab", "grabnull", "check"}
    BY <1>0, <1>6 DEF Loop, Grab, TypeOK
  <2> QED BY <1>6, <2>1 DEF Loop, Grab, Preview, Frame, Abstract
<1>7. CASE Crash
  BY <1>0, <1>7 DEF Crash, Anew, Preview, Frame, Abstract
<1>8. ASSUME NEW u \in Threads, Callback(u) PROVE Abstract
  BY <1>8, CallbackContract DEF Abstract
<1> QED BY <1>3, <1>4, <1>5, <1>6, <1>7, <1>8 DEF Next

-----------------------------------------------------------------------------
(* The theorems *)

\* The invariant holds in every reachable state.
THEOREM Inductive == Spec => []IInv
<1>1. Init => IInv
  BY FreshInv
<1>2. IInv /\ [Next]_vars => IInv'
  BY StepType, StepThreads, StepCall, StepPreview, StepSurface, StepPicture DEF IInv
<1> QED BY <1>1, <1>2, PTL DEF Spec

\* Types of all variables.
THEOREM TypeCorrect == Spec => []TypeOK
<1>1. IInv => TypeOK
  BY DEF IInv
<1> QED BY <1>1, Inductive, PTL

\* disconnect() destroys the HAL object after the preview thread has ended.
THEOREM PreviewEnded == Spec => []PreviewEndedAtTeardown
<1>1. IInv => PreviewEndedAtTeardown
  <2> SUFFICES ASSUME IInv, mHardware = "gone", runner = "app"
               PROVE  at["preview"] = "none"
    BY DEF PreviewEndedAtTeardown
  <2>1. mPreviewThread = "none"
    BY DEF IInv, PreviewInv, TypeOK
  <2> QED BY <2>1 DEF IInv, PreviewInv
<1> QED BY <1>1, Inductive, PTL

\* A frame or a picture is posted to a surface on which its own buffer is
\* registered, when the application waits for its pictures.
THEOREM PostsRight == Spec => []PostsToOwnHeap
<1>1. IInv => PostsToOwnHeap
  <2> SUFFICES ASSUME IInv, hasty = "no", NEW t \in Threads, at[t] = "locked"
               PROVE  /\ msg[t] = "PREVIEW_FRAME" => shown # "raw"
                      /\ msg[t] = "RAW_IMAGE" => shown # "preview"
    BY DEF PostsToOwnHeap
  <2>0. TypeOK /\ MsgAt(t) /\ LockAt(t) /\ PreviewInv /\ SurfaceInv
    BY DEF IInv, ThreadsInv
  <2>1. CASE msg[t] = "PREVIEW_FRAME"
    <3>1. t = "preview" /\ call = "idle"
      BY <2>0, <2>1 DEF MsgAt, LockAt
    <3>2. mPreviewThread = "set"
      BY <2>0, <3>1 DEF PreviewInv, TypeOK
    <3> QED BY <2>0, <2>1, <3>1, <3>2 DEF SurfaceInv
  <2>2. CASE msg[t] = "RAW_IMAGE"
    <3>1. t \in Shots
      BY <2>0, <2>2 DEF MsgAt, Threads
    <3>2. Pending(t) /\ PictureAt(t)
      BY <2>2, <3>1 DEF Pending, PictureMsgs, IInv, PictureInv
    <3> QED BY <2>2, <3>2 DEF PictureAt
  <2> QED BY <2>1, <2>2
<1> QED BY <1>1, Inductive, PTL

\* Client and HAL implement PreviewContract.
THEOREM ImplementsContract == Spec => KeepsContract
<1>1. IInv /\ [Next]_vars => [Contract!Next]_Contract!contractVars
  BY StepContract
<1> QED BY <1>1, InitContract, Inductive, PTL DEF Spec, KeepsContract, Contract!Spec
===============================================================================
