------------------------------ MODULE CameraSlot ------------------------------
(***************************************************************************)
(* CameraService: the slot of its one camera, the busy flag, and the life  *)
(* of the Client objects that hold the hardware: connect, disconnect,      *)
(* removeClient, lock, unlock, the destructor in whichever thread drops    *)
(* the last strong reference (CameraService.cpp).                          *)
(***************************************************************************)
EXTENDS Naturals, FiniteSets

CONSTANTS Apps,    \* application processes, with an ICameraClient each
          Objs,    \* names for Client objects (a bound on those alive at once)
          Hal,     \* a thread of the HAL, in a callback
          Nobody, NoObj

ASSUME NamesAssumption == Hal \notin Apps /\ Nobody \notin Apps \cup {Hal}
ASSUME NoObjAssumption == NoObj \notin Objs

\* The binder thread that serves each application, and the HAL's thread.
Threads == Apps \cup {Hal}

VARIABLES
    mServiceLock,   \* its owner
    mClient,        \* the weak reference of the slot
    mBusy,          \* "free" or "busy"
    mSoundRef,
    life,           \* of each object: unused, live or dying (in ~Client)
    refs,           \* strong references: <<"proxy", app>>, <<"call", thread>>,
                    \* <<"temp", thread>>
    mLock,          \* Client::mLock of each object
    mHardware,      \* "none" or "open"
    mClientPid,     \* Nobody stands for 0
    mCameraClient,  \* whose ICameraClient, or Nobody
    pc, on          \* where each thread is, and on which object

vars == <<mServiceLock, mClient, mBusy, mSoundRef, life, refs, mLock,
          mHardware, mClientPid, mCameraClient, pc, on>>

slotVars   == <<mServiceLock, mClient, mBusy, mSoundRef>>
clientVars == <<mHardware, mClientPid, mCameraClient>>

Init ==
    /\ mServiceLock = Nobody /\ mClient = NoObj
    /\ mBusy = "free" /\ mSoundRef = 0
    /\ life = [o \in Objs |-> "unused"]
    /\ refs = [o \in Objs |-> {}]
    /\ mLock = [o \in Objs |-> Nobody]
    /\ mHardware = [o \in Objs |-> "none"]
    /\ mClientPid = [o \in Objs |-> Nobody]
    /\ mCameraClient = [o \in Objs |-> Nobody]
    /\ pc = [t \in Threads |-> "idle"]
    /\ on = [t \in Threads |-> NoObj]

Go(t, from, to) == pc[t] = from /\ pc' = [pc EXCEPT ![t] = to]

Take(o, ref) == refs' = [refs EXCEPT ![o] = @ \cup {ref}]

\* sp<> goes out of scope.  The thread that drops the last reference runs
\* ~Client, which makes itself the owner so that disconnect() tears down.
BadDrop(t, o, ref, next) ==   \* ~Client without mClientPid = callingPid
    /\ refs' = [refs EXCEPT ![o] = @ \ {ref}]
    /\ IF refs[o] = {ref}
       THEN /\ life' = [life EXCEPT ![o] = "dying"]
            /\ pc' = [pc EXCEPT ![t] = "lock"]
            /\ on' = [on EXCEPT ![t] = o]
            /\ UNCHANGED mClientPid
       ELSE /\ pc' = [pc EXCEPT ![t] = next]
            /\ on' = [on EXCEPT ![t] = IF next = "idle" THEN NoObj ELSE @]
            /\ UNCHANGED <<life, mClientPid>>

Drop(t, o, ref, next) ==
    /\ refs' = [refs EXCEPT ![o] = @ \ {ref}]
    /\ IF refs[o] = {ref}
       THEN /\ life' = [life EXCEPT ![o] = "dying"]
            /\ mClientPid' = [mClientPid EXCEPT ![o] = t]
            /\ pc' = [pc EXCEPT ![t] = "lock"]
            /\ on' = [on EXCEPT ![t] = o]
       ELSE /\ pc' = [pc EXCEPT ![t] = next]
            /\ on' = [on EXCEPT ![t] = IF next = "idle" THEN NoObj ELSE @]
            /\ UNCHANGED <<life, mClientPid>>

-----------------------------------------------------------------------------
(* CameraService::connect *)

Connect(a) ==
    /\ Go(a, "idle", "connect")
    /\ UNCHANGED <<slotVars, life, refs, mLock, clientVars, on>>

ConnectLock(a) ==
    /\ Go(a, "connect", "promote")
    /\ mServiceLock = Nobody
    /\ mServiceLock' = a
    /\ UNCHANGED <<mClient, mBusy, mSoundRef, life, refs, mLock, clientVars, on>>

Promote(a) ==
    /\ Go(a, "promote", "compare")
    /\ mClient # NoObj /\ life[mClient] = "live"
    /\ Take(mClient, <<"temp", a>>)
    /\ on' = [on EXCEPT ![a] = mClient]
    /\ UNCHANGED <<slotVars, life, mLock, clientVars>>

\* An empty slot, or one whose client is being destroyed.
PromoteFails(a) ==
    /\ Go(a, "promote", "vacant")
    /\ mClient # NoObj => life[mClient] # "live"
    /\ mClient' = NoObj
    /\ UNCHANGED <<mServiceLock, mBusy, mSoundRef, life, refs, mLock,
                   clientVars, on>>

\* The same application gets its client again.  mCameraClient is read without
\* the client's lock.
SameClient(a) ==
    /\ Go(a, "compare", "connected")
    /\ mCameraClient[on[a]] = a
    /\ Take(on[a], <<"proxy", a>>)
    /\ mServiceLock' = Nobody
    /\ UNCHANGED <<mClient, mBusy, mSoundRef, life, mLock, clientVars, on>>

BadExistingClient(a) ==   \* the reference goes before the lock does
    /\ pc[a] = "compare"
    /\ mCameraClient[on[a]] # a
    /\ Drop(a, on[a], <<"temp", a>>, "connected")
    /\ UNCHANGED <<slotVars, mLock, mHardware, mCameraClient>>

ExistingClient(a) ==
    /\ Go(a, "compare", "connected")
    /\ mCameraClient[on[a]] # a
    /\ mServiceLock' = Nobody
    /\ UNCHANGED <<mClient, mBusy, mSoundRef, life, refs, mLock, clientVars, on>>

StillBusy(a) ==
    /\ Go(a, "vacant", "idle")
    /\ mBusy = "busy"
    /\ mServiceLock' = Nobody
    /\ UNCHANGED <<mClient, mBusy, mSoundRef, life, refs, mLock, clientVars, on>>

BadOpenHardware(a) ==   \* without the test of mBusy
    /\ Go(a, "vacant", "construct")
    /\ \E o \in Objs :
           /\ life[o] = "unused" /\ mClient # o
           /\ life' = [life EXCEPT ![o] = "live"]
           /\ Take(o, <<"temp", a>>)
           /\ mHardware' = [mHardware EXCEPT ![o] = "open"]
           /\ mClientPid' = [mClientPid EXCEPT ![o] = a]
           /\ mCameraClient' = [mCameraClient EXCEPT ![o] = a]
           /\ on' = [on EXCEPT ![a] = o]
    /\ UNCHANGED <<slotVars, mLock>>

\* HAL_openCameraHardware and the first half of Client's constructor.
OpenHardware(a) ==
    /\ Go(a, "vacant", "construct")
    /\ mBusy = "free"
    /\ \E o \in Objs :
           /\ life[o] = "unused" /\ mClient # o
           /\ life' = [life EXCEPT ![o] = "live"]
           /\ Take(o, <<"temp", a>>)
           /\ mHardware' = [mHardware EXCEPT ![o] = "open"]
           /\ mClientPid' = [mClientPid EXCEPT ![o] = a]
           /\ mCameraClient' = [mCameraClient EXCEPT ![o] = a]
           /\ on' = [on EXCEPT ![a] = o]
    /\ UNCHANGED <<slotVars, mLock>>

\* HAL_openCameraHardware returns NULL (or no name is left: a bound).
OpenFails(a) ==
    /\ Go(a, "vacant", "idle")
    /\ mBusy = "free"
    /\ mServiceLock' = Nobody
    /\ UNCHANGED <<mClient, mBusy, mSoundRef, life, refs, mLock, clientVars, on>>

\* setCameraBusy, loadSound, and the slot.
Construct(a) ==
    /\ Go(a, "construct", "connected")
    /\ mBusy' = "busy"
    /\ mSoundRef' = mSoundRef + 1
    /\ mClient' = on[a]
    /\ Take(on[a], <<"proxy", a>>)
    /\ mServiceLock' = Nobody
    /\ UNCHANGED <<life, mLock, clientVars, on>>

\* connect's own reference is dropped after mServiceLock.
Connected(a) ==
    /\ pc[a] = "connected"
    /\ Drop(a, on[a], <<"temp", a>>, "idle")
    /\ UNCHANGED <<slotVars, mLock, mHardware, mCameraClient>>

-----------------------------------------------------------------------------
(* Calls on a client *)

Has(a, o) == pc[a] = "idle" /\ <<"proxy", a>> \in refs[o]

\* Client::lock
Lock(a, o) ==
    /\ Has(a, o) /\ mLock[o] = Nobody
    /\ mClientPid[o] = Nobody
    /\ mClientPid' = [mClientPid EXCEPT ![o] = a]
    /\ UNCHANGED <<slotVars, life, refs, mLock, mHardware, mCameraClient, pc, on>>

\* Client::unlock
Unlock(a, o) ==
    /\ Has(a, o) /\ mLock[o] = Nobody
    /\ mClientPid[o] = a
    /\ mClientPid' = [mClientPid EXCEPT ![o] = Nobody]
    /\ mCameraClient' = [mCameraClient EXCEPT ![o] = Nobody]
    /\ UNCHANGED <<slotVars, life, refs, mLock, mHardware, pc, on>>

\* Client::connect
Reconnect(a, o) ==
    /\ Has(a, o) /\ mLock[o] = Nobody
    /\ mClientPid[o] \in {Nobody, a}
    /\ mCameraClient[o] # a
    /\ mClientPid' = [mClientPid EXCEPT ![o] = a]
    /\ mCameraClient' = [mCameraClient EXCEPT ![o] = a]
    /\ UNCHANGED <<slotVars, life, refs, mLock, mHardware, pc, on>>

Disconnect(a, o) ==
    /\ Has(a, o)
    /\ pc' = [pc EXCEPT ![a] = "lock"]
    /\ on' = [on EXCEPT ![a] = o]
    /\ Take(o, <<"call", a>>)
    /\ UNCHANGED <<slotVars, life, mLock, clientVars>>

\* An application gives its ICamera to another one (a media recorder).
Share(a, b, o) ==
    /\ Has(a, o) /\ <<"proxy", b>> \notin refs[o]
    /\ Take(o, <<"proxy", b>>)
    /\ UNCHANGED <<slotVars, life, mLock, clientVars, pc, on>>

\* An application drops its reference, or dies.
Release(a, o) ==
    /\ Has(a, o)
    /\ Drop(a, o, <<"proxy", a>>, "idle")
    /\ UNCHANGED <<slotVars, mLock, mHardware, mCameraClient>>

-----------------------------------------------------------------------------
(* Client::disconnect, called by an application or by ~Client *)

DisconnectLock(t) ==
    /\ Go(t, "lock", "check")
    /\ mLock[on[t]] = Nobody
    /\ mLock' = [mLock EXCEPT ![on[t]] = t]
    /\ UNCHANGED <<slotVars, life, refs, clientVars, on>>

Unlocked(t) == mLock' = [mLock EXCEPT ![on[t]] = Nobody]

\* checkPid, and the second time.
Refused(t) ==
    /\ Go(t, "check", "return")
    /\ mClientPid[on[t]] # t \/ mHardware[on[t]] = "none"
    /\ Unlocked(t)
    /\ UNCHANGED <<slotVars, life, refs, clientVars, on>>

BadStop(t) ==   \* without checkPid
    /\ Go(t, "check", "clear")
    /\ mHardware[on[t]] = "open"
    /\ UNCHANGED <<slotVars, life, refs, mLock, clientVars, on>>

\* stopPreview, cancelPicture and release, which wait for the preview thread.
Stop(t) ==
    /\ Go(t, "check", "clear")
    /\ mClientPid[on[t]] = t /\ mHardware[on[t]] = "open"
    /\ UNCHANGED <<slotVars, life, refs, mLock, clientVars, on>>

Clear(t) ==
    /\ Go(t, "clear", "remove")
    /\ mHardware' = [mHardware EXCEPT ![on[t]] = "none"]
    /\ UNCHANGED <<slotVars, life, refs, mLock, mClientPid, mCameraClient, on>>

\* removeClient
RemoveLock(t) ==
    /\ Go(t, "remove", "find")
    /\ mServiceLock = Nobody
    /\ mServiceLock' = t
    /\ UNCHANGED <<mClient, mBusy, mSoundRef, life, refs, mLock, clientVars, on>>

\* The slot is empty, or promote fails because ~Client called.
RemoveDead(t) ==
    /\ Go(t, "find", "free")
    /\ mClient # NoObj => life[mClient] # "live"
    /\ mClient' = NoObj
    /\ mServiceLock' = Nobody
    /\ UNCHANGED <<mBusy, mSoundRef, life, refs, mLock, clientVars, on>>

RemovePromote(t) ==
    /\ Go(t, "find", "match")
    /\ mClient # NoObj /\ life[mClient] = "live"
    /\ Take(mClient, <<"temp", t>>)
    /\ UNCHANGED <<slotVars, life, mLock, clientVars, on>>

BadRemove(t) ==   \* leaves a client of another binder, or of none, in the slot
    /\ Go(t, "match", "forget")
    /\ mClient' = IF mCameraClient[on[t]] = t THEN NoObj ELSE mClient
    /\ mServiceLock' = Nobody
    /\ UNCHANGED <<mBusy, mSoundRef, life, refs, mLock, clientVars, on>>

\* The binders are compared, not the objects: two null ones are equal.
Remove(t) ==
    /\ Go(t, "match", "forget")
    /\ mClient' = IF mCameraClient[mClient] = mCameraClient[on[t]] THEN NoObj
                  ELSE mClient
    /\ mServiceLock' = Nobody
    /\ UNCHANGED <<mBusy, mSoundRef, life, refs, mLock, clientVars, on>>

\* removeClient's own reference: the caller of disconnect() holds another.
Forget(t) ==
    /\ Go(t, "forget", "free")
    /\ refs' = [o \in Objs |-> refs[o] \ {<<"temp", t>>}]
    /\ UNCHANGED <<slotVars, life, mLock, clientVars, on>>

\* setCameraFree, and the client's lock.
Free(t) ==
    /\ Go(t, "free", "return")
    /\ mBusy' = "free"
    /\ Unlocked(t)
    /\ UNCHANGED <<mServiceLock, mClient, mSoundRef, life, refs, clientVars, on>>

\* disconnect() returns to the application ...
Return(t) ==
    /\ pc[t] = "return"
    /\ life[on[t]] = "live"
    /\ Drop(t, on[t], <<"call", t>>, "idle")
    /\ UNCHANGED <<slotVars, mLock, mHardware, mCameraClient>>

BadDestroyed1(t) ==   \* releaseSound again for the sounds of recording
    /\ Go(t, "return", "idle")
    /\ life[on[t]] = "dying"
    /\ life' = [life EXCEPT ![on[t]] = "unused"]
    /\ mSoundRef' = mSoundRef - 2
    /\ on' = [on EXCEPT ![t] = NoObj]
    /\ UNCHANGED <<mServiceLock, mClient, mBusy, refs, mLock, clientVars>>

BadDestroyed2(t) ==   \* without releaseSound
    /\ Go(t, "return", "idle")
    /\ life[on[t]] = "dying"
    /\ life' = [life EXCEPT ![on[t]] = "unused"]
    /\ on' = [on EXCEPT ![t] = NoObj]
    /\ UNCHANGED <<slotVars, refs, mLock, clientVars>>

\* ... or to ~Client, which goes on with releaseSound.
Destroyed(t) ==
    /\ Go(t, "return", "idle")
    /\ life[on[t]] = "dying"
    /\ life' = [life EXCEPT ![on[t]] = "unused"]
    /\ mSoundRef' = mSoundRef - 1
    /\ on' = [on EXCEPT ![t] = NoObj]
    /\ UNCHANGED <<mServiceLock, mClient, mBusy, refs, mLock, clientVars>>

-----------------------------------------------------------------------------
(* getClientFromCookie: the slot is read without mServiceLock. *)

Callback ==
    /\ Go(Hal, "idle", "callback")
    /\ mClient # NoObj
    /\ life[mClient] = "live" /\ mHardware[mClient] = "open"
    /\ Take(mClient, <<"temp", Hal>>)
    /\ on' = [on EXCEPT ![Hal] = mClient]
    /\ UNCHANGED <<slotVars, life, mLock, clientVars>>

CallbackReturn ==
    /\ pc[Hal] = "callback"
    /\ Drop(Hal, on[Hal], <<"temp", Hal>>, "idle")
    /\ UNCHANGED <<slotVars, mLock, mHardware, mCameraClient>>

-----------------------------------------------------------------------------
Acquire(t) == ConnectLock(t) \/ DisconnectLock(t) \/ RemoveLock(t)

Connecting(a) ==
    \/ Promote(a) \/ PromoteFails(a) \/ SameClient(a) \/ ExistingClient(a)
    \/ StillBusy(a) \/ OpenHardware(a) \/ OpenFails(a) \/ Construct(a)
    \/ Connected(a)

Disconnecting(t) ==
    \/ Refused(t) \/ Stop(t) \/ Clear(t) \/ RemoveDead(t) \/ RemovePromote(t)
    \/ Remove(t) \/ Forget(t) \/ Free(t) \/ Return(t) \/ Destroyed(t)

Call(a) ==
    \/ Connect(a)
    \/ \E o \in Objs :
           \/ Lock(a, o) \/ Unlock(a, o) \/ Reconnect(a, o) \/ Disconnect(a, o)
           \/ Release(a, o)
           \/ \E b \in Apps : Share(a, b, o)

Next ==
    \/ \E a \in Apps : Call(a) \/ Connecting(a)
    \/ \E t \in Threads : Acquire(t) \/ Disconnecting(t)
    \/ Callback \/ CallbackReturn

Spec == Init /\ [][Next]_vars

\* A thread in the service goes on, a callback returns, and a thread that waits
\* for a mutex which is released again and again gets it.
Fairness ==
    /\ \A a \in Apps : WF_vars(Connecting(a))
    /\ \A t \in Threads : WF_vars(Disconnecting(t)) /\ SF_vars(Acquire(t))
    /\ WF_vars(CallbackReturn)

FairSpec == Spec /\ Fairness

-----------------------------------------------------------------------------
Labels == {"idle", "connect", "promote", "compare", "vacant", "construct",
           "connected", "lock", "check", "clear", "remove", "find", "match",
           "forget", "free", "return", "callback"}

TypeOK ==
    /\ mServiceLock \in Threads \cup {Nobody}
    /\ mClient \in Objs \cup {NoObj}
    /\ mBusy \in {"free", "busy"}
    /\ mSoundRef \in Nat
    /\ life \in [Objs -> {"unused", "live", "dying"}]
    /\ refs \in [Objs -> SUBSET ({"proxy", "call", "temp"} \X Threads)]
    /\ mLock \in [Objs -> Threads \cup {Nobody}]
    /\ mHardware \in [Objs -> {"none", "open"}]
    /\ mClientPid \in [Objs -> Threads \cup {Nobody}]
    /\ mCameraClient \in [Objs -> Apps \cup {Nobody}]
    /\ pc \in [Threads -> Labels]
    /\ on \in [Threads -> Objs \cup {NoObj}]

\* setCameraBusy: no new client gets the hardware while the previous one, whose
\* destructor may still be running, has not torn it down.
OneHardware ==
    \A o, p \in Objs : mHardware[o] = "open" /\ mHardware[p] = "open" => o = p

\* Outside connect() and removeClient(), the camera of a client with hardware is
\* busy and, unless the client is being destroyed, the slot holds that client:
\* it is neither lost (a camera nobody can connect to again) nor found after its
\* teardown.
SlotFollowsHardware ==
    mServiceLock = Nobody => \A o \in Objs :
        /\ mHardware[o] = "open" =>
               mBusy = "busy" /\ (life[o] = "live" => mClient = o)
        /\ mClient = o => mHardware[o] = "open" \/ mLock[o] # Nobody

\* removeClient and connect: a thread that holds mServiceLock waits for no lock,
\* and one that holds a client's lock for no client's, although disconnect()
\* takes mServiceLock inside the client's lock and a destructor, which calls
\* disconnect(), runs wherever the last reference is dropped.
LocksOrdered ==
    /\ mServiceLock # Nobody =>
           pc[mServiceLock] \notin {"connect", "remove", "lock"}
    /\ \A o \in Objs : mLock[o] # Nobody => pc[mLock[o]] # "lock"

\* Every client that is not yet destroyed counts as one user of the sounds, a
\* client that lingers after disconnect() too, so that releaseSound of one
\* never takes the players from another.
SoundsCounted ==
    mServiceLock = Nobody =>
        mSoundRef = Cardinality({o \in Objs : life[o] # "unused"})

\* Only the process that has the client locked, or ~Client, takes the hardware
\* from it: ownership is checked and used under one lock.
OwnerTearsDown ==
    [][\A o \in Objs : mHardware[o] = "open" /\ mHardware'[o] = "none" =>
           mLock[o] # Nobody /\ mClientPid[o] = mLock[o]]_vars

\* ~Client: when the last reference to a client with the hardware is gone,
\* the camera becomes free again, also when the client was left unlocked, when a
\* callback or a rejected connect() dropped the reference, and although other
\* applications go on calling connect().
CameraFreed ==
    \A o \in Objs :
        life[o] = "dying" /\ mHardware[o] = "open" ~> mBusy = "free"
=============================================================================
