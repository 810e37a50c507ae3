-------------------------- MODULE CameraSlotProofs --------------------------
(***************************************************************************)
(* Proofs about CameraSlot, for any set of applications and any set of     *)
(* client objects: who holds which lock, which references keep an object   *)
(* alive, and what the slot, the busy flag and the count of the sounds     *)
(* have to do with the one client that has the hardware.                   *)
(***************************************************************************)
EXTENDS CameraSlot, FiniteSetTheorems, TLAPS

-----------------------------------------------------------------------------
(* The inductive invariant *)

\* Labels inside disconnect().
Inside == {"lock", "check", "clear", "remove", "find", "match", "forget", "free",
           "return"}
\* Labels that hold mServiceLock, and those that hold the client's lock.
HoldsService == {"promote", "compare", "vacant", "construct", "find", "match"}
HoldsClient  == {"check", "clear", "remove", "find", "match", "forget", "free"}
\* The hardware is gone and the camera not yet free.
Late == {"remove", "find", "match", "forget", "free"}

Typed ==
    /\ mServiceLock \in Threads \cup {Nobody}
    /\ mClient \in Objs \cup {NoObj}
    /\ mBusy \in {"free", "busy"}
    /\ life \in [Objs -> {"unused", "live", "dying"}]
    /\ refs \in [Objs -> SUBSET ({"proxy", "call", "temp"} \X Threads)]
    /\ mLock \in [Objs -> Threads \cup {Nobody}]
    /\ mHardware \in [Objs -> {"none", "open"}]
    /\ mClientPid \in [Objs -> Threads \cup {Nobody}]
    /\ mCameraClient \in [Objs -> Apps \cup {Nobody}]
    /\ pc \in [Threads -> Labels]
    /\ on \in [Threads -> Objs \cup {NoObj}]
    /\ \A t \in Threads :
           pc[t] \notin {"idle", "connect", "promote", "vacant"} => on[t] \in Objs
    /\ \A t \in Threads : pc[t] \in {"compare", "construct", "connected"} => t \in Apps

\* Each lock is held by the thread that is between its taking and its release;
\* connect() keeps the slot it has found empty.
LockInv ==
    /\ \A t \in Threads : pc[t] \in HoldsService <=> mServiceLock = t
    /\ \A t \in Threads, o \in Objs :
           pc[t] \in HoldsClient /\ on[t] = o <=> mLock[o] = t
    /\ \A t \in Threads : pc[t] \in {"vacant", "construct"} => mClient = NoObj

\* A client is alive while somebody holds a reference.
AliveInv == \A o \in Objs : life[o] = "live" <=> refs[o] # {}

\* A local sp<> of a thread refers to the object it works on, a client under
\* construction is known to its maker alone, and a thread in disconnect() holds a
\* reference or is the owner and runs the destructor.
RefAt(t) ==
    /\ pc[t] \in {"compare", "construct", "connected", "callback"} =>
           <<"temp", t>> \in refs[on[t]]
    /\ \A o \in Objs : <<"temp", t>> \in refs[o] =>
           on[t] = o /\ pc[t] \in {"compare", "construct", "connected",
                                  "callback", "match", "forget"}
    /\ pc[t] = "construct" => refs[on[t]] = {<<"temp", t>>}
    /\ pc[t] \in Inside => \/ <<"call", t>> \in refs[on[t]]
                           \/ life[on[t]] = "dying" /\ mClientPid[on[t]] = t
    /\ pc[t] \in {"match", "forget"} => <<"call", t>> \in refs[on[t]]

RefInv == AliveInv /\ \A t \in Threads : RefAt(t)

\* One client has the hardware, or one thread has just destroyed it; the camera
\* is busy and the slot holds the client, but for the moment in connect() after
\* the hardware is opened and in disconnect() after it is destroyed.
HardwareInv ==
    /\ OneHardware
    /\ \A t \in Threads :
           /\ pc[t] \in Late => mBusy = "busy" /\ \A o \in Objs : mHardware[o] = "none"
           /\ pc[t] = "clear" => mHardware[on[t]] = "open" /\ mClientPid[on[t]] = t
           /\ pc[t] = "construct" => mHardware[on[t]] = "open"
    /\ \A t, u \in Threads : pc[t] \in Late /\ pc[u] \in Late => t = u
    /\ \A o \in Objs : mHardware[o] = "open" =>
           \/ mBusy = "busy" /\ (life[o] = "live" => mClient = o)
           \/ \E a \in Apps : pc[a] = "construct" /\ on[a] = o
    /\ \A o \in Objs : mClient = o /\ mHardware[o] = "none" =>
           \E t \in Threads : pc[t] \in {"remove", "find", "match"} /\ on[t] = o

\* The clients that have the players.
Sounding ==
    {o \in Objs : /\ life[o] # "unused"
                  /\ \A t \in Threads : ~(pc[t] = "construct" /\ on[t] = o)}

SoundInv == IsFiniteSet(Sounding) /\ mSoundRef = Cardinality(Sounding)

IInv == Typed /\ LockInv /\ RefInv /\ HardwareInv /\ SoundInv

-----------------------------------------------------------------------------
(* Types and locks *)

LEMMA StepTyped == Typed /\ [Next]_vars => Typed'
<1> SUFFICES ASSUME Typed, [Next]_vars PROVE Typed'
  OBVIOUS
<1> USE NamesAssumption, NoObjAssumption
    DEF Typed, Threads, Labels, Go, Take, slotVars, clientVars
<1>1. ASSUME NEW a \in Apps, Connecting(a) PROVE Typed'
  <2>1. CASE Promote(a)
    BY <2>1 DEF Promote
  <2>2. CASE PromoteFails(a) \/ SameClient(a) \/ ExistingClient(a)
    BY <2>2 DEF PromoteFails, SameClient, ExistingClient
  <2>3. CASE StillBusy(a) \/ OpenFails(a) \/ Construct(a)
    BY <2>3 DEF StillBusy, OpenFails, Construct
  <2>4. CASE OpenHardware(a)
    BY <2>4 DEF OpenHardware
  <2>5. CASE Connected(a)
    BY <2>5 DEF Connected, Drop
  <2> QED BY <1>1, <2>1, <2>2, <2>3, <2>4, <2>5 DEF Connecting
<1>2. ASSUME NEW a \in Apps, Call(a) PROVE Typed'
  <2>1. CASE Connect(a)
    BY <2>1 DEF Connect
  <2>2. ASSUME NEW o \in Objs, Lock(a, o) \/ Unlock(a, o) \/ Reconnect(a, o) PROVE Typed'
    BY <2>2 DEF Lock, Unlock, Reconnect
  <2>3. ASSUME NEW o \in Objs, Disconnect(a, o) PROVE Typed'
    BY <2>3 DEF Disconnect
  <2>4. ASSUME NEW o \in Objs, Release(a, o) PROVE Typed'
    BY <2>4 DEF Release, Has, Drop
  <2>5. ASSUME NEW o \in Objs, NEW b \in Apps, Share(a, b, o) PROVE Typed'
    BY <2>5 DEF Share
  <2> QED BY <1>2, <2>1, <2>2, <2>3, <2>4, <2>5 DEF Call
<1>3. ASSUME NEW t \in Threads, Acquire(t) PROVE Typed'
  BY <1>3 DEF Acquire, ConnectLock, DisconnectLock, RemoveLock
<1>4. ASSUME NEW t \in Threads, Disconnecting(t) PROVE Typed'
  <2>1. CASE Refused(t) \/ Stop(t) \/ Clear(t) \/ RemoveDead(t) \/ RemovePromote(t)
    BY <2>1 DEF Refused, Unlocked, Stop, Clear, RemoveDead, RemovePromote
  <2>2. CASE Remove(t) \/ Forget(t) \/ Free(t) \/ Destroyed(t)
    BY <2>2 DEF Remove, Forget, Free, Unlocked, Destroyed
  <2>3. CASE Return(t)
    BY <2>3 DEF Return, Drop
  <2> QED BY <1>4, <2>1, <2>2, <2>3 DEF Disconnecting
<1>5. CASE Callback
  BY <1>5 DEF Callback
<1>6. CASE CallbackReturn
  BY <1>6 DEF CallbackReturn, Drop
<1>7. CASE UNCHANGED vars
  BY <1>7 DEF vars
<1> QED BY <1>1, <1>2, <1>3, <1>4, <1>5, <1>6, <1>7 DEF Next

LEMMA StepLock == Typed /\ LockInv /\ [Next]_vars => LockInv'
<1> SUFFICES ASSUME Typed, LockInv, [Next]_vars PROVE LockInv'
  OBVIOUS
<1> USE NamesAssumption, NoObjAssumption
    DEF Typed, LockInv, Threads, HoldsService, HoldsClient, Go, slotVars, clientVars
<1>1. ASSUME NEW a \in Apps, Connecting(a) PROVE LockInv'
  <2>1. CASE Promote(a)
    BY <2>1 DEF Promote
  <2>2. CASE PromoteFails(a) \/ SameClient(a) \/ ExistingClient(a)
    BY <2>2 DEF PromoteFails, SameClient, ExistingClient
  <2>3. CASE StillBusy(a) \/ OpenFails(a) \/ Construct(a)
    BY <2>3 DEF StillBusy, OpenFails, Construct
  <2>4. CASE OpenHardware(a)
    BY <2>4 DEF OpenHardware
  <2>5. CASE Connected(a)
    BY <2>5 DEF Connected, Drop
  <2> QED BY <1>1, <2>1, <2>2, <2>3, <2>4, <2>5 DEF Connecting
<1>2. ASSUME NEW a \in Apps, Call(a) PROVE LockInv'
  <2>1. CASE Connect(a)
    BY <2>1 DEF Connect
  <2>2. ASSUME NEW o \in Objs, Lock(a, o) \/ Unlock(a, o) \/ Reconnect(a, o) PROVE LockInv'
    BY <2>2 DEF Lock, Unlock, Reconnect
  <2>3. ASSUME NEW o \in Objs, Disconnect(a, o) PROVE LockInv'
    BY <2>3 DEF Disconnect, Has
  <2>4. ASSUME NEW o \in Objs, Release(a, o) PROVE LockInv'
    BY <2>4 DEF Release, Has, Drop
  <2>5. ASSUME NEW o \in Objs, NEW b \in Apps, Share(a, b, o) PROVE LockInv'
    BY <2>5 DEF Share
  <2> QED BY <1>2, <2>1, <2>2, <2>3, <2>4, <2>5 DEF Call
<1>3. ASSUME NEW t \in Threads, Acquire(t) PROVE LockInv'
  BY <1>3 DEF Acquire, ConnectLock, DisconnectLock, RemoveLock
<1>4. ASSUME NEW t \in Threads, Disconnecting(t) PROVE LockInv'
  <2>1. CASE Refused(t) \/ Stop(t) \/ Clear(t)
    BY <2>1 DEF Refused, Unlocked, Stop, Clear
  <2>2. CASE RemoveDead(t) \/ RemovePromote(t) \/ Remove(t)
    BY <2>2 DEF RemoveDead, RemovePromote, Remove
  <2>3. CASE Forget(t) \/ Free(t) \/ Destroyed(t)
    BY <2>3 DEF Forget, Free, Unlocked, Destroyed
  <2>4. CASE Return(t)
    BY <2>4 DEF Return, Drop
  <2> QED BY <1>4, <2>1, <2>2, <2>3, <2>4 DEF Disconnecting
<1>5. CASE Callback
  BY <1>5 DEF Callback
<1>6. CASE CallbackReturn
  BY <1>6 DEF CallbackReturn, Drop
<1>7. CASE UNCHANGED vars
  BY <1>7 DEF vars
<1> QED BY <1>1, <1>2, <1>3, <1>4, <1>5, <1>6, <1>7 DEF Next

-----------------------------------------------------------------------------
(* The references *)

LEMMA TakeRef ==
    ASSUME Typed, NEW o \in Objs, NEW ref, Take(o, ref)
    PROVE  /\ refs'[o] = refs[o] \cup {ref}
           /\ \A p \in Objs : p # o => refs'[p] = refs[p]
  BY DEF Typed, Take

LEMMA FreshAlone ==
    ASSUME RefInv, NEW t \in Threads, NEW o, NEW r \in refs[o], r # <<"temp", t>>
    PROVE  pc[t] = "construct" => on[t] # o
<1>1. RefAt(t)
  BY DEF RefInv
<1> QED BY <1>1 DEF RefAt

\* A new reference of one thread leaves the others where they were.
LEMMA TakeOthers ==
    ASSUME Typed, RefInv, NEW o \in Objs, NEW k \in {"proxy", "call", "temp"},
           NEW v \in Threads, Take(o, <<k, v>>),
           NEW t \in Threads, k = "proxy" \/ t # v,
           pc[t] = "construct" => on[t] # o,
           pc'[t] = pc[t], on'[t] = on[t], life' = life, mClientPid' = mClientPid
    PROVE  RefAt(t)'
<1>1. \A p \in Objs : /\ <<"temp", t>> \in refs'[p] <=> <<"temp", t>> \in refs[p]
                      /\ <<"call", t>> \in refs[p] => <<"call", t>> \in refs'[p]
  BY TakeRef
<1>2. pc[t] = "construct" => refs'[on[t]] = refs[on[t]]
  BY TakeRef DEF Typed
<1>3. pc[t] \in Inside \cup {"compare", "construct", "connected", "callback", "match",
                           "forget"} => on[t] \in Objs
  BY DEF Typed, Inside
<1> QED BY <1>1, <1>2, <1>3 DEF RefInv, RefAt

LEMMA TakeAlive ==
    ASSUME Typed, RefInv, NEW o \in Objs, NEW ref, Take(o, ref),
           life'[o] = "live", \A p \in Objs \ {o} : life'[p] = life[p]
    PROVE  AliveInv'
  BY TakeRef DEF RefInv, AliveInv

\* A dropped reference was the thread's own: the others keep theirs, and if it was
\* the last, nobody else was at work on the object.
LEMMA DropOthers ==
    ASSUME Typed, RefInv, NEW t \in Threads, NEW o \in Objs,
           NEW k \in {"proxy", "call", "temp"}, NEW next,
           <<k, t>> \in refs[o], Drop(t, o, <<k, t>>, next)
    PROVE  AliveInv' /\ \A u \in Threads \ {t} : RefAt(u)'
<1>1. /\ refs'[o] = refs[o] \ {<<k, t>>}
      /\ \A p \in Objs : p # o => refs'[p] = refs[p]
  BY DEF Typed, Drop
<1>2. AliveInv'
  BY <1>1 DEF Drop, RefInv, AliveInv, Typed
<1>3. ASSUME NEW u \in Threads \ {t} PROVE RefAt(u)'
  <2>1. pc'[u] = pc[u] /\ on'[u] = on[u]
    BY DEF Drop, Typed
  <2>2. \A p \in Objs : /\ <<"temp", u>> \in refs'[p] <=> <<"temp", u>> \in refs[p]
                        /\ <<"call", u>> \in refs'[p] <=> <<"call", u>> \in refs[p]
    BY <1>1
  <2>3. pc[u] = "construct" => refs'[on[u]] = refs[on[u]]
    <3> SUFFICES ASSUME pc[u] = "construct" PROVE refs'[on[u]] = refs[on[u]]
      OBVIOUS
    <3>1. refs[on[u]] = {<<"temp", u>>} /\ on[u] \in Objs
      BY DEF RefInv, RefAt, Typed
    <3>2. on[u] # o
      BY <3>1
    <3> QED BY <1>1, <3>1, <3>2
  <2>4. \A p \in Objs : life[p] = "dying" => life'[p] = "dying" /\ mClientPid'[p] = mClientPid[p]
    BY DEF Drop, Typed, RefInv, AliveInv
  <2>5. pc[u] \in Inside \cup {"compare", "construct", "connected", "callback", "match",
                             "forget"} => on[u] \in Objs
    BY DEF Typed, Inside
  <2> QED BY <2>1, <2>2, <2>3, <2>4, <2>5 DEF RefInv, RefAt
<1> QED BY <1>2, <1>3

LEMMA DropOwn ==
    ASSUME Typed, RefInv, NEW t \in Threads, NEW o \in Objs,
           NEW k \in {"proxy", "call", "temp"},
           <<k, t>> \in refs[o], Drop(t, o, <<k, t>>, "idle"),
           \A p \in Objs : <<"temp", t>> \in refs[p] => k = "temp" /\ p = o
    PROVE  RefAt(t)'
<1>1. /\ refs'[o] = refs[o] \ {<<k, t>>}
      /\ \A p \in Objs : p # o => refs'[p] = refs[p]
  BY DEF Typed, Drop
<1>2. \A p \in Objs : <<"temp", t>> \notin refs'[p]
  BY <1>1
<1>3. \/ pc'[t] = "idle"
      \/ pc'[t] = "lock" /\ on'[t] = o /\ life'[o] = "dying" /\ mClientPid'[o] = t
  BY DEF Drop, Typed
<1> QED BY <1>2, <1>3 DEF RefAt, Inside

-----------------------------------------------------------------------------
\* At "find", a live client in the slot is the one whose hardware is gone.
LEMMA FindsOwn ==
    ASSUME Typed, LockInv, RefInv, HardwareInv, NEW t \in Threads,
           pc[t] = "find", mClient # NoObj, life[mClient] = "live"
    PROVE  mClient = on[t] /\ <<"call", t>> \in refs[on[t]]
<1>1. mClient \in Objs /\ on[t] \in Objs /\ mHardware[mClient] = "none"
  BY DEF Typed, HardwareInv, Late
<1>2. mClient = on[t]
  BY <1>1 DEF HardwareInv, Late
<1> QED BY <1>2 DEF RefInv, RefAt, Inside

LEMMA StepRef == IInv /\ [Next]_vars => RefInv'
<1> SUFFICES ASSUME Typed, LockInv, RefInv, HardwareInv, [Next]_vars PROVE RefInv'
  BY DEF IInv
<1> USE NamesAssumption, NoObjAssumption DEF Threads, Go, slotVars, clientVars
<1>1. ASSUME NEW a \in Apps, Promote(a) PROVE RefInv'
  <2>1. mClient \in Objs /\ life[mClient] = "live" /\ Take(mClient, <<"temp", a>>)
    BY <1>1 DEF Promote, Typed
  <2>2. ASSUME NEW t \in Threads \ {a} PROVE RefAt(t)'
    BY <1>1, <2>1, <2>2, TakeOthers DEF Promote, Typed, LockInv
  <2>3. RefAt(a)'
    <3>1. RefAt(a)
      BY DEF RefInv
    <3> QED BY <1>1, <2>1, <3>1, TakeRef DEF Promote, Typed, RefAt, Inside
  <2>4. AliveInv'
    BY <1>1, <2>1, TakeAlive DEF Promote
  <2> QED BY <2>2, <2>3, <2>4 DEF RefInv
<1>2. ASSUME NEW a \in Apps, SameClient(a) \/ Construct(a) PROVE RefInv'
  <2>0. RefAt(a)
    BY DEF RefInv
  <2>1. /\ on[a] \in Objs /\ Take(on[a], <<"proxy", a>>)
        /\ <<"temp", a>> \in refs[on[a]] /\ life[on[a]] = "live" /\ life' = life
        /\ mClientPid' = mClientPid /\ on' = on /\ pc'[a] = "connected"
        /\ \A t \in Threads \ {a} : pc'[t] = pc[t]
    BY <1>2, <2>0 DEF SameClient, Construct, Typed, RefInv, RefAt, AliveInv
  <2>2. ASSUME NEW t \in Threads \ {a} PROVE RefAt(t)'
    <3>1. pc[t] = "construct" => on[t] # on[a]
      BY <2>1, FreshAlone
    <3> QED BY <2>1, <3>1, TakeOthers
  <2>3. RefAt(a)'
    BY <1>2, <2>0, <2>1, TakeRef DEF SameClient, Construct, Typed, RefAt, Inside
  <2>4. AliveInv'
    BY <2>1, TakeAlive
  <2> QED BY <2>2, <2>3, <2>4 DEF RefInv
<1>3. ASSUME NEW a \in Apps, OpenHardware(a) PROVE RefInv'
  <2>1. PICK o \in Objs :
           /\ life[o] = "unused" /\ mClient # o
           /\ life' = [life EXCEPT ![o] = "live"]
           /\ Take(o, <<"temp", a>>)
           /\ mClientPid' = [mClientPid EXCEPT ![o] = a]
           /\ on' = [on EXCEPT ![a] = o]
    BY <1>3 DEF OpenHardware
  <2>2. refs[o] = {} /\ life'[o] = "live" /\ \A p \in Objs \ {o} : life'[p] = life[p]
    BY <2>1 DEF RefInv, AliveInv, Typed
  <2>3. RefAt(a)'
    <3>1. RefAt(a)
      BY DEF RefInv
    <3> QED BY <1>3, <2>1, <2>2, <3>1, TakeRef DEF OpenHardware, Typed, RefAt, Inside
  <2>4. ASSUME NEW t \in Threads \ {a} PROVE RefAt(t)'
    <3>1. pc'[t] = pc[t] /\ on'[t] = on[t]
      BY <1>3, <2>1 DEF OpenHardware, Typed
    <3>2. pc[t] \in Inside \cup {"compare", "construct", "connected", "callback",
                                 "match", "forget"} => on[t] \in Objs /\ on[t] # o
      BY <2>1, <2>2 DEF Typed, Inside, RefInv, RefAt
    <3>3. \A p \in Objs : <<"temp", t>> \in refs'[p] <=> <<"temp", t>> \in refs[p]
      BY <2>1, TakeRef
    <3>4. \A p \in Objs \ {o} : refs'[p] = refs[p] /\ life'[p] = life[p]
                                /\ mClientPid'[p] = mClientPid[p]
      BY <2>1, <2>2, TakeRef DEF Typed
    <3> QED BY <3>1, <3>2, <3>3, <3>4 DEF RefInv, RefAt
  <2>5. AliveInv'
    BY <2>1, <2>2, TakeAlive
  <2> QED BY <2>3, <2>4, <2>5 DEF RefInv
<1>4. ASSUME NEW a \in Apps, NEW o \in Objs, Disconnect(a, o) PROVE RefInv'
  <2>1. /\ Take(o, <<"call", a>>) /\ <<"proxy", a>> \in refs[o] /\ life[o] = "live"
        /\ life' = life
    BY <1>4 DEF Disconnect, Has, RefInv, AliveInv
  <2>2. ASSUME NEW t \in Threads \ {a} PROVE RefAt(t)'
    <3>1. pc[t] = "construct" => on[t] # o
      BY <2>1, FreshAlone
    <3> QED BY <1>4, <2>1, <3>1, TakeOthers DEF Disconnect, Typed
  <2>3. RefAt(a)'
    <3>1. RefAt(a)
      BY DEF RefInv
    <3> QED BY <1>4, <2>1, <3>1, TakeRef DEF Disconnect, Has, Typed, RefAt, Inside
  <2>4. AliveInv'
    BY <2>1, TakeAlive
  <2> QED BY <2>2, <2>3, <2>4 DEF RefInv
<1>5. ASSUME NEW a \in Apps, NEW b \in Apps, NEW o \in Objs, Share(a, b, o) PROVE RefInv'
  <2>1. /\ Take(o, <<"proxy", b>>) /\ <<"proxy", a>> \in refs[o] /\ life[o] = "live"
        /\ life' = life
    BY <1>5 DEF Share, Has, RefInv, AliveInv
  <2>2. ASSUME NEW t \in Threads PROVE RefAt(t)'
    <3>1. pc[t] = "construct" => on[t] # o
      BY <2>1, FreshAlone
    <3> QED BY <1>5, <2>1, <3>1, TakeOthers DEF Share
  <2>3. AliveInv'
    BY <2>1, TakeAlive
  <2> QED BY <2>2, <2>3 DEF RefInv
<1>6. ASSUME NEW t \in Threads, RemovePromote(t) PROVE RefInv'
  <2>1. /\ mClient \in Objs /\ life[mClient] = "live" /\ Take(mClient, <<"temp", t>>)
        /\ mClient = on[t] /\ <<"call", t>> \in refs[on[t]] /\ life' = life
    BY <1>6, FindsOwn DEF RemovePromote, Typed
  <2>2. ASSUME NEW u \in Threads \ {t} PROVE RefAt(u)'
    <3>1. pc[u] = "construct" => on[u] # mClient
      BY <2>1, FreshAlone
    <3> QED BY <1>6, <2>1, <3>1, TakeOthers DEF RemovePromote, Typed
  <2>3. RefAt(t)'
    <3>1. RefAt(t)
      BY DEF RefInv
    <3> QED BY <1>6, <2>1, <3>1, TakeRef DEF RemovePromote, Typed, RefAt, Inside
  <2>4. AliveInv'
    BY <2>1, TakeAlive
  <2> QED BY <2>2, <2>3, <2>4 DEF RefInv
<1>7. CASE Callback
  <2>1. /\ mClient \in Objs /\ life[mClient] = "live" /\ Take(mClient, <<"temp", Hal>>)
        /\ life' = life
    BY <1>7 DEF Callback, Typed
  <2>2. ASSUME NEW u \in Threads \ {Hal} PROVE RefAt(u)'
    <3>1. pc[u] = "construct" => on[u] # mClient
      BY <2>1 DEF LockInv, Typed
    <3> QED BY <1>7, <2>1, <3>1, TakeOthers DEF Callback, Typed
  <2>3. RefAt(Hal)'
    <3>1. RefAt(Hal)
      BY DEF RefInv
    <3> QED BY <1>7, <2>1, <3>1, TakeRef DEF Callback, Typed, RefAt, Inside
  <2>4. AliveInv'
    BY <2>1, TakeAlive
  <2> QED BY <2>2, <2>3, <2>4 DEF RefInv
<1>8. ASSUME NEW a \in Apps, Connected(a) PROVE RefInv'
  <2>1. /\ on[a] \in Objs /\ <<"temp", a>> \in refs[on[a]]
        /\ Drop(a, on[a], <<"temp", a>>, "idle")
        /\ \A p \in Objs : <<"temp", a>> \in refs[p] => p = on[a]
    <3>1. RefAt(a)
      BY DEF RefInv
    <3> QED BY <1>8, <3>1 DEF Connected, Typed, RefAt
  <2>2. RefAt(a)'
    BY <2>1, DropOwn
  <2> QED BY <2>1, <2>2, DropOthers DEF RefInv
<1>9. ASSUME NEW a \in Apps, NEW o \in Objs, Release(a, o) PROVE RefInv'
  <2>1. /\ <<"proxy", a>> \in refs[o] /\ Drop(a, o, <<"proxy", a>>, "idle")
        /\ \A p \in Objs : <<"temp", a>> \notin refs[p]
    BY <1>9 DEF Release, Has, RefInv, RefAt
  <2>2. RefAt(a)'
    BY <2>1, DropOwn
  <2> QED BY <2>1, <2>2, DropOthers DEF RefInv
<1>10. ASSUME NEW t \in Threads, Return(t) PROVE RefInv'
  <2>1. /\ on[t] \in Objs /\ <<"call", t>> \in refs[on[t]]
        /\ Drop(t, on[t], <<"call", t>>, "idle")
        /\ \A p \in Objs : <<"temp", t>> \notin refs[p]
    BY <1>10 DEF Return, Typed, RefInv, RefAt, Inside
  <2>2. RefAt(t)'
    BY <2>1, DropOwn
  <2> QED BY <2>1, <2>2, DropOthers DEF RefInv
<1>11. CASE CallbackReturn
  <2>1. /\ on[Hal] \in Objs /\ <<"temp", Hal>> \in refs[on[Hal]]
        /\ Drop(Hal, on[Hal], <<"temp", Hal>>, "idle")
        /\ \A p \in Objs : <<"temp", Hal>> \in refs[p] => p = on[Hal]
    <3>1. RefAt(Hal)
      BY DEF RefInv
    <3> QED BY <1>11, <3>1 DEF CallbackReturn, Typed, RefAt
  <2>2. RefAt(Hal)'
    BY <2>1, DropOwn
  <2> QED BY <2>1, <2>2, DropOthers DEF RefInv
<1>12. ASSUME NEW t \in Threads, Forget(t) PROVE RefInv'
  <2>1. /\ on[t] \in Objs /\ <<"call", t>> \in refs[on[t]]
        /\ refs' = [o \in Objs |-> refs[o] \ {<<"temp", t>>}]
        /\ \A p \in Objs : <<"temp", t>> \in refs[p] => p = on[t]
    BY <1>12 DEF Forget, Typed, RefInv, RefAt
  <2>2. \A p \in Objs : /\ refs'[p] = {} <=> refs[p] = {}
                        /\ <<"call", t>> \in refs[p] => <<"call", t>> \in refs'[p]
    BY <2>1
  <2>3. AliveInv'
    BY <1>12, <2>2 DEF Forget, RefInv, AliveInv
  <2>4. ASSUME NEW u \in Threads \ {t} PROVE RefAt(u)'
    <3>1. \A p \in Objs : /\ <<"temp", u>> \in refs'[p] <=> <<"temp", u>> \in refs[p]
                          /\ <<"call", u>> \in refs'[p] <=> <<"call", u>> \in refs[p]
                          /\ refs[p] = {<<"temp", u>>} => refs'[p] = refs[p]
      BY <2>1
    <3>2. pc[u] \in Inside \cup {"compare", "construct", "connected", "callback",
                                 "match", "forget"} => on[u] \in Objs
      BY DEF Typed, Inside
    <3>3. RefAt(u)
      BY DEF RefInv
    <3> QED BY <1>12, <3>1, <3>2, <3>3 DEF Forget, Typed, RefAt
  <2>5. RefAt(t)'
    BY <1>12, <2>1, <2>2 DEF Forget, Typed, RefInv, RefAt, Inside
  <2> QED BY <2>3, <2>4, <2>5 DEF RefInv
<1>13. ASSUME NEW t \in Threads,
              \A u \in Threads \ {t} : pc'[u] = pc[u],
              UNCHANGED <<refs, life, on, mClientPid>>, RefAt(t)'
       PROVE  RefInv'
  BY <1>13 DEF RefInv, AliveInv, RefAt
<1>14. ASSUME NEW t \in Threads,
              Connect(t) \/ ConnectLock(t) \/ PromoteFails(t) \/ StillBusy(t) \/ OpenFails(t)
       PROVE  RefInv'
  <2>1. RefAt(t)'
    <3>1. RefAt(t)
      BY DEF RefInv
    <3> QED BY <1>14, <3>1 DEF Connect, ConnectLock, PromoteFails, StillBusy, OpenFails,
                 RefAt, Inside, Typed
  <2> QED BY <1>13, <1>14, <2>1 DEF Connect, ConnectLock, PromoteFails, StillBusy, OpenFails,
                 Typed
<1>15. ASSUME NEW a \in Apps, ExistingClient(a) PROVE RefInv'
  <2>1. RefAt(a)'
    <3>1. RefAt(a)
      BY DEF RefInv
    <3> QED BY <1>15, <3>1 DEF ExistingClient, RefAt, Inside, Typed
  <2> QED BY <1>13, <1>15, <2>1 DEF ExistingClient, Typed
<1>16. ASSUME NEW t \in Threads,
              \/ DisconnectLock(t) \/ RemoveLock(t) \/ Refused(t) \/ Stop(t) \/ Clear(t)
              \/ RemoveDead(t) \/ Remove(t) \/ Free(t)
       PROVE  RefInv'
  <2>1. RefAt(t)'
    <3>1. RefAt(t)
      BY DEF RefInv
    <3> QED BY <1>16, <3>1 DEF DisconnectLock, RemoveLock, Refused, Stop, Clear, RemoveDead,
                 Remove, Free, RefAt, Inside, Typed
  <2> QED BY <1>13, <1>16, <2>1 DEF DisconnectLock, RemoveLock, Refused, Stop, Clear,
                 RemoveDead, Remove, Free, Typed
<1>17. ASSUME NEW a \in Apps, NEW o \in Objs, Lock(a, o) \/ Unlock(a, o) \/ Reconnect(a, o)
       PROVE  RefInv'
  <2>1. /\ UNCHANGED <<refs, life, on, pc>> /\ life[o] = "live"
        /\ \A p \in Objs \ {o} : mClientPid'[p] = mClientPid[p]
    BY <1>17 DEF Lock, Unlock, Reconnect, Has, RefInv, AliveInv, Typed
  <2>2. \A t \in Threads : pc[t] \in Inside => on[t] \in Objs
    BY DEF Typed, Inside
  <2> QED BY <2>1, <2>2 DEF RefInv, AliveInv, RefAt
<1>18. ASSUME NEW t \in Threads, Destroyed(t) PROVE RefInv'
  <2>1. /\ on[t] \in Objs /\ life[on[t]] = "dying" /\ mClientPid[on[t]] = t
        /\ refs[on[t]] = {} /\ UNCHANGED <<refs, mClientPid>>
        /\ life' = [life EXCEPT ![on[t]] = "unused"]
        /\ pc'[t] = "idle"
        /\ \A u \in Threads \ {t} : pc'[u] = pc[u] /\ on'[u] = on[u]
    <3>1. RefAt(t)
      BY DEF RefInv
    <3> QED BY <1>18, <3>1 DEF Destroyed, Typed, RefInv, AliveInv, RefAt, Inside
  <2>2. AliveInv'
    BY <2>1 DEF RefInv, AliveInv, Typed
  <2>3. RefAt(t)'
    BY <1>18, <2>1 DEF Destroyed, RefInv, RefAt, Inside
  <2>4. ASSUME NEW u \in Threads \ {t} PROVE RefAt(u)'
    <3>1. RefAt(u)
      BY DEF RefInv
    <3>2. pc[u] \in Inside => on[u] \in Objs
      BY DEF Typed, Inside
    <3> QED BY <2>1, <3>1, <3>2 DEF RefAt, Typed
  <2> QED BY <2>2, <2>3, <2>4 DEF RefInv
<1>19. CASE UNCHANGED vars
  BY <1>19 DEF vars, RefInv, AliveInv, RefAt
<1> QED
  BY <1>1, <1>2, <1>3, <1>4, <1>5, <1>6, <1>7, <1>8, <1>9, <1>10, <1>11, <1>12, <1>14, <1>15,
     <1>16, <1>17, <1>18, <1>19 DEF Next, Call, Connecting, Acquire, Disconnecting

-----------------------------------------------------------------------------
(* The hardware, the busy flag and the slot *)

\* The owner does not change under a thread that is taking the hardware from it.
LEMMA DropHardware ==
    ASSUME Typed, RefInv, HardwareInv, NEW t \in Threads, NEW o \in Objs,
           NEW k \in {"proxy", "call", "temp"}, <<k, t>> \in refs[o],
           Drop(t, o, <<k, t>>, "idle"), pc[t] \in {"idle", "connected", "return", "callback"},
           UNCHANGED <<slotVars, mHardware>>
    PROVE  HardwareInv'
<1>1. ASSUME NEW u \in Threads, pc[u] = "clear" PROVE mClientPid'[on[u]] = mClientPid[on[u]]
  <2>1. RefAt(u) /\ AliveInv /\ on[u] \in Objs /\ u # t
    BY <1>1 DEF RefInv, Typed
  <2>2. refs[on[u]] # {<<k, t>>} \/ on[u] # o
    BY <1>1, <2>1 DEF RefAt, AliveInv, Inside
  <2> QED BY <2>1, <2>2 DEF Drop, Typed
<1>2. /\ pc'[t] \in {"idle", "lock"}
      /\ \A u \in Threads \ {t} : pc'[u] = pc[u] /\ on'[u] = on[u]
      /\ \A p \in Objs : life'[p] = "live" => life[p] = "live"
  BY DEF Drop, Typed
<1> QED BY <1>1, <1>2 DEF HardwareInv, OneHardware, Late, slotVars, Typed, Threads

LEMMA StepHardware == IInv /\ [Next]_vars => HardwareInv'
<1> SUFFICES ASSUME Typed, LockInv, RefInv, HardwareInv, [Next]_vars PROVE HardwareInv'
  BY DEF IInv
<1> USE NamesAssumption, NoObjAssumption
    DEF Typed, HardwareInv, OneHardware, Late, Threads, Go, slotVars, clientVars
<1>1. ASSUME NEW a \in Apps, Connecting(a) PROVE HardwareInv'
  <2>1. CASE Promote(a)
    BY <2>1 DEF Promote
  <2>2. CASE PromoteFails(a)
    BY <2>2 DEF PromoteFails
  <2>3. CASE SameClient(a) \/ ExistingClient(a) \/ StillBusy(a) \/ OpenFails(a)
    BY <2>3 DEF SameClient, ExistingClient, StillBusy, OpenFails
  <2>4. CASE OpenHardware(a)
    <3>1. PICK o \in Objs :
             /\ life[o] = "unused"
             /\ life' = [life EXCEPT ![o] = "live"]
             /\ mHardware' = [mHardware EXCEPT ![o] = "open"]
             /\ mClientPid' = [mClientPid EXCEPT ![o] = a]
             /\ on' = [on EXCEPT ![a] = o]
      BY <2>4 DEF OpenHardware
    <3>2. pc[a] = "vacant" /\ pc' = [pc EXCEPT ![a] = "construct"] /\ mBusy = "free"
          /\ UNCHANGED <<mClient, mBusy>> /\ mClient = NoObj
      BY <2>4 DEF OpenHardware, LockInv
    <3>3. /\ \A p \in Objs : mHardware[p] = "none"
          /\ \A t \in Threads : pc[t] \notin {"clear", "construct"}
          /\ \A t \in Threads : pc[t] \notin Late
      BY <3>2 DEF LockInv, HoldsService
    <3> HIDE DEF Typed, HardwareInv
    <3>4. /\ pc \in [Threads -> Labels] /\ on \in [Threads -> Objs \cup {NoObj}]
          /\ mHardware \in [Objs -> {"none", "open"}]
      BY DEF Typed
    <3> QED BY <3>1, <3>2, <3>3, <3>4 DEF HardwareInv
  <2>5. CASE Construct(a)
    BY <2>5 DEF Construct, LockInv, HoldsService
  <2>6. CASE Connected(a)
    <3>1. on[a] \in Objs /\ <<"temp", a>> \in refs[on[a]]
      BY <2>6 DEF Connected, RefInv, RefAt
    <3> QED BY <2>6, <3>1, DropHardware DEF Connected
  <2> QED BY <1>1, <2>1, <2>2, <2>3, <2>4, <2>5, <2>6 DEF Connecting
<1>2. ASSUME NEW a \in Apps, Call(a) PROVE HardwareInv'
  <2>1. CASE Connect(a)
    BY <2>1 DEF Connect
  <2>2. ASSUME NEW o \in Objs, Lock(a, o) \/ Unlock(a, o) \/ Reconnect(a, o) PROVE HardwareInv'
    BY <2>2 DEF Lock, Unlock, Reconnect, LockInv, HoldsClient
  <2>3. ASSUME NEW o \in Objs, Disconnect(a, o) PROVE HardwareInv'
    BY <2>3 DEF Disconnect, Has
  <2>4. ASSUME NEW o \in Objs, Release(a, o) PROVE HardwareInv'
    BY <2>4, DropHardware DEF Release, Has
  <2>5. ASSUME NEW o \in Objs, NEW b \in Apps, Share(a, b, o) PROVE HardwareInv'
    BY <2>5 DEF Share
  <2> QED BY <1>2, <2>1, <2>2, <2>3, <2>4, <2>5 DEF Call
<1>3. ASSUME NEW t \in Threads, Acquire(t) PROVE HardwareInv'
  BY <1>3 DEF Acquire, ConnectLock, DisconnectLock, RemoveLock
<1>4. ASSUME NEW t \in Threads, Disconnecting(t) PROVE HardwareInv'
  <2>1. CASE Refused(t) \/ Stop(t)
    BY <2>1 DEF Refused, Unlocked, Stop
  <2>2. CASE Clear(t)
    <3>1. /\ pc[t] = "clear" /\ pc' = [pc EXCEPT ![t] = "remove"]
          /\ mHardware' = [mHardware EXCEPT ![on[t]] = "none"]
          /\ UNCHANGED <<mClient, mBusy, life, on>>
      BY <2>2 DEF Clear
    <3>2. on[t] \in Objs /\ mHardware[on[t]] = "open"
      BY <3>1
    <3>3. ASSUME NEW u \in Threads PROVE pc[u] \notin Late \cup {"construct"}
      <4>1. RefAt(t) /\ RefAt(u) /\ AliveInv
        BY DEF RefInv
      <4>2. pc[u] \notin Late
        BY <3>2
      <4>3. pc[u] = "construct" => on[u] = on[t] /\ u # t
        BY <3>1, <3>2
      <4>4. pc[u] # "construct"
        BY <3>1, <3>2, <4>1, <4>3 DEF RefAt, Inside, AliveInv
      <4> QED BY <4>2, <4>4
    <3>4. mBusy = "busy"
      BY <3>2, <3>3
    <3>5. \A u \in Threads : pc[u] = "clear" => u = t
      BY <3>1, <3>2 DEF LockInv, HoldsClient
    <3> QED BY <3>1, <3>2, <3>3, <3>4, <3>5
  <2>3. CASE RemoveDead(t)
    BY <2>3 DEF RemoveDead
  <2>4. CASE RemovePromote(t)
    BY <2>4 DEF RemovePromote
  <2>5. CASE Remove(t)
    BY <2>5 DEF Remove
  <2>6. CASE Forget(t)
    BY <2>6 DEF Forget
  <2>7. CASE Free(t)
    BY <2>7 DEF Free, Unlocked
  <2>8. CASE Destroyed(t)
    BY <2>8 DEF Destroyed
  <2>9. CASE Return(t)
    <3>1. on[t] \in Objs /\ <<"call", t>> \in refs[on[t]]
      BY <2>9 DEF Return, RefInv, RefAt, Inside
    <3> QED BY <2>9, <3>1, DropHardware DEF Return
  <2> QED BY <1>4, <2>1, <2>2, <2>3, <2>4, <2>5, <2>6, <2>7, <2>8, <2>9 DEF Disconnecting
<1>5. CASE Callback
  BY <1>5 DEF Callback
<1>6. CASE CallbackReturn
  <2>1. on[Hal] \in Objs /\ <<"temp", Hal>> \in refs[on[Hal]]
    BY <1>6 DEF CallbackReturn, RefInv, RefAt
  <2> QED BY <1>6, <2>1, DropHardware DEF CallbackReturn
<1>7. CASE UNCHANGED vars
  BY <1>7 DEF vars
<1> QED BY <1>1, <1>2, <1>3, <1>4, <1>5, <1>6, <1>7 DEF Next

-----------------------------------------------------------------------------
(* The sounds *)

LEMMA SameSounding ==
    ASSUME UNCHANGED mSoundRef,
           \A o \in Objs : life'[o] = "unused" <=> life[o] = "unused",
           \A t \in Threads :
               /\ pc'[t] = "construct" <=> pc[t] = "construct"
               /\ pc[t] = "construct" => on'[t] = on[t],
           SoundInv
    PROVE  SoundInv'
<1>1. Sounding' = Sounding
  BY DEF Sounding
<1> QED BY <1>1 DEF SoundInv

LEMMA DropSounding ==
    ASSUME Typed, RefInv, SoundInv, NEW t \in Threads, NEW o \in Objs,
           NEW k \in {"proxy", "call", "temp"}, <<k, t>> \in refs[o],
           Drop(t, o, <<k, t>>, "idle"), pc[t] # "construct", UNCHANGED mSoundRef
    PROVE  SoundInv'
<1>1. life[o] = "live"
  BY DEF RefInv, AliveInv
<1>2. \A p \in Objs : life'[p] = "unused" <=> life[p] = "unused"
  BY <1>1 DEF Drop, Typed
<1>3. \A u \in Threads : /\ pc'[u] = "construct" <=> pc[u] = "construct"
                         /\ pc[u] = "construct" => on'[u] = on[u]
  BY DEF Drop, Typed
<1> QED BY <1>2, <1>3, SameSounding

LEMMA StepSound == IInv /\ [Next]_vars => SoundInv'
<1> SUFFICES ASSUME Typed, LockInv, RefInv, SoundInv, [Next]_vars PROVE SoundInv'
  BY DEF IInv
<1> USE NamesAssumption, NoObjAssumption DEF Typed, Threads, Go, slotVars, clientVars
<1>1. ASSUME NEW a \in Apps, OpenHardware(a) PROVE SoundInv'
  <2>1. PICK o \in Objs : /\ life[o] = "unused"
                          /\ life' = [life EXCEPT ![o] = "live"]
                          /\ on' = [on EXCEPT ![a] = o]
    BY <1>1 DEF OpenHardware
  <2>2. /\ pc[a] = "vacant" /\ pc' = [pc EXCEPT ![a] = "construct"]
        /\ mSoundRef' = mSoundRef
    BY <1>1 DEF OpenHardware
  <2>3. \A t \in Threads : pc[t] # "construct"
    BY <2>2 DEF LockInv, HoldsService
  <2>4. Sounding' = Sounding
    BY <2>1, <2>2, <2>3 DEF Sounding
  <2> QED BY <2>2, <2>4 DEF SoundInv
<1>2. ASSUME NEW a \in Apps, Construct(a) PROVE SoundInv'
  <2>1. /\ pc[a] = "construct" /\ pc' = [pc EXCEPT ![a] = "connected"]
        /\ mSoundRef' = mSoundRef + 1 /\ UNCHANGED <<life, on>> /\ on[a] \in Objs
    BY <1>2 DEF Construct
  <2>2. \A t \in Threads : pc[t] = "construct" => t = a
    BY <2>1 DEF LockInv, HoldsService
  <2>3. life[on[a]] # "unused"
    <3>1. AliveInv /\ RefAt(a)
      BY DEF RefInv
    <3> QED BY <2>1, <3>1 DEF RefAt, AliveInv
  <2>4. on[a] \notin Sounding /\ Sounding' = Sounding \cup {on[a]}
    BY <2>1, <2>2, <2>3 DEF Sounding
  <2> QED BY <2>1, <2>4, FS_AddElement DEF SoundInv
<1>3. ASSUME NEW t \in Threads, Destroyed(t) PROVE SoundInv'
  <2>1. /\ pc[t] = "return" /\ pc' = [pc EXCEPT ![t] = "idle"]
        /\ life' = [life EXCEPT ![on[t]] = "unused"] /\ life[on[t]] = "dying"
        /\ on' = [on EXCEPT ![t] = NoObj]
        /\ mSoundRef' = mSoundRef - 1 /\ on[t] \in Objs
    BY <1>3 DEF Destroyed
  <2>2. refs[on[t]] = {}
    BY <2>1 DEF RefInv, AliveInv
  <2>3. ASSUME NEW u \in Threads PROVE pc[u] = "construct" => on[u] # on[t]
    <3>1. RefAt(u)
      BY DEF RefInv
    <3> QED BY <2>2, <3>1 DEF RefAt
  <2>4. on[t] \in Sounding /\ Sounding' = Sounding \ {on[t]}
    BY <2>1, <2>3 DEF Sounding
  <2> QED BY <2>1, <2>4, FS_RemoveElement DEF SoundInv
<1>4. ASSUME NEW a \in Apps, Connected(a) PROVE SoundInv'
  BY <1>4, DropSounding DEF Connected, RefInv, RefAt
<1>5. ASSUME NEW a \in Apps, NEW o \in Objs, Release(a, o) PROVE SoundInv'
  BY <1>5, DropSounding DEF Release, Has
<1>6. ASSUME NEW t \in Threads, Return(t) PROVE SoundInv'
  BY <1>6, DropSounding DEF Return, RefInv, RefAt, Inside
<1>7. CASE CallbackReturn
  <2>1. on[Hal] \in Objs /\ <<"temp", Hal>> \in refs[on[Hal]]
    BY <1>7 DEF CallbackReturn, RefInv, RefAt
  <2> QED BY <1>7, <2>1, DropSounding DEF CallbackReturn
<1>8. ASSUME NEW a \in Apps,
             \/ Promote(a) \/ PromoteFails(a) \/ SameClient(a) \/ ExistingClient(a)
             \/ StillBusy(a) \/ OpenFails(a) \/ Connect(a)
      PROVE  SoundInv'
  BY <1>8, SameSounding DEF Promote, PromoteFails, SameClient, ExistingClient, StillBusy,
     OpenFails, Connect
<1>9. ASSUME NEW a \in Apps, NEW o \in Objs,
             \/ Lock(a, o) \/ Unlock(a, o) \/ Reconnect(a, o) \/ Disconnect(a, o)
             \/ \E b \in Apps : Share(a, b, o)
      PROVE  SoundInv'
  BY <1>9, SameSounding DEF Lock, Unlock, Reconnect, Disconnect, Share, Has
<1>10. ASSUME NEW t \in Threads,
              \/ Acquire(t) \/ Refused(t) \/ Stop(t) \/ Clear(t) \/ RemoveDead(t)
              \/ RemovePromote(t) \/ Remove(t) \/ Forget(t) \/ Free(t)
       PROVE  SoundInv'
  BY <1>10, SameSounding DEF Acquire, ConnectLock, DisconnectLock, RemoveLock, Refused, Stop,
     Clear, RemoveDead, RemovePromote, Remove, Forget, Free
<1>11. CASE Callback
  BY <1>11, SameSounding DEF Callback
<1>12. CASE UNCHANGED vars
  BY <1>12, SameSounding DEF vars
<1> QED
  BY <1>1, <1>2, <1>3, <1>4, <1>5, <1>6, <1>7, <1>8, <1>9, <1>10, <1>11, <1>12
  DEF Next, Call, Connecting, Disconnecting

-----------------------------------------------------------------------------
(* The theorems *)

\* The inductive invariant: locks, references, the hardware with its slot, and
\* the sounds.
THEOREM Inductive == Spec => []IInv
<1>1. Init => IInv
  <2> SUFFICES ASSUME Init PROVE IInv
    OBVIOUS
  <2>1. Typed /\ LockInv /\ RefInv /\ HardwareInv
    BY NamesAssumption, NoObjAssumption
    DEF Init, Typed, Labels, Threads, LockInv, HoldsService, HoldsClient, RefInv, AliveInv,
        RefAt, Inside, HardwareInv, OneHardware, Late
  <2>2. Sounding = {}
    BY DEF Init, Sounding
  <2>3. SoundInv
    BY <2>2, FS_EmptySet DEF SoundInv, Init
  <2> QED BY <2>1, <2>3 DEF IInv
<1>2. IInv /\ [Next]_vars => IInv'
  BY StepTyped, StepLock, StepRef, StepHardware, StepSound DEF IInv
<1> QED BY <1>1, <1>2, PTL DEF Spec

\* The types of the variables; releaseSound never takes the count below 0.
THEOREM TypeCorrect == Spec => []TypeOK
<1>1. IInv => TypeOK
  BY FS_CardinalityType DEF IInv, Typed, SoundInv, TypeOK
<1> QED BY <1>1, Inductive, PTL

\* setCameraBusy: one client at a time has the hardware, whatever the
\* interleaving of connect(), disconnect() and the destructors.
THEOREM HardwareExclusive == Spec => []OneHardware
<1>1. IInv => OneHardware
  BY DEF IInv, HardwareInv
<1> QED BY <1>1, Inductive, PTL

\* connect and removeClient: outside their locks the slot holds the client with
\* the hardware and the camera is busy while there is one.
THEOREM SlotCorrect == Spec => []SlotFollowsHardware
<1>1. IInv => SlotFollowsHardware
  <2> SUFFICES ASSUME IInv, mServiceLock = Nobody, NEW o \in Objs
               PROVE  /\ mHardware[o] = "open" =>
                             mBusy = "busy" /\ (life[o] = "live" => mClient = o)
                      /\ mClient = o => mHardware[o] = "open" \/ mLock[o] # Nobody
    BY DEF SlotFollowsHardware
  <2>1. \A t \in Threads : pc[t] # "construct"
    BY NamesAssumption DEF IInv, LockInv, HoldsService, Threads
  <2>2. mHardware[o] = "open" => mBusy = "busy" /\ (life[o] = "live" => mClient = o)
    BY <2>1 DEF IInv, HardwareInv, Threads
  <2>3. mClient = o /\ mHardware[o] = "none" => mLock[o] # Nobody
    BY NamesAssumption DEF IInv, HardwareInv, LockInv, HoldsClient, Threads
  <2> QED BY <2>2, <2>3 DEF IInv, Typed
<1> QED BY <1>1, Inductive, PTL

\* The two locks are never waited for in a circle: the holder of mServiceLock waits
\* for no lock and the holder of a client's lock for no client's.
THEOREM LocksAcyclic == Spec => []LocksOrdered
<1>1. IInv => LocksOrdered
  BY DEF IInv, Typed, LockInv, HoldsService, HoldsClient, LocksOrdered
<1> QED BY <1>1, Inductive, PTL

\* newSound and releaseSound: the count is the number of clients not yet destroyed.
THEOREM SoundsCorrect == Spec => []SoundsCounted
<1>1. IInv => SoundsCounted
  <2> SUFFICES ASSUME IInv, mServiceLock = Nobody
               PROVE  mSoundRef = Cardinality({o \in Objs : life[o] # "unused"})
    BY DEF SoundsCounted
  <2>1. \A t \in Threads : pc[t] # "construct"
    BY NamesAssumption DEF IInv, LockInv, HoldsService, Threads
  <2>2. Sounding = {o \in Objs : life[o] # "unused"}
    BY <2>1 DEF Sounding
  <2> QED BY <2>2 DEF IInv, SoundInv
<1> QED BY <1>1, Inductive, PTL

\* checkPid and the teardown are under one lock: the thread that destroys the
\* hardware is the owner while it does.
THEOREM TeardownByOwner == Spec => OwnerTearsDown
<1>1. IInv /\ [Next]_vars =>
          \A o \in Objs : mHardware[o] = "open" /\ mHardware'[o] = "none" =>
              mLock[o] # Nobody /\ mClientPid[o] = mLock[o]
  <2> SUFFICES ASSUME IInv, [Next]_vars, NEW o \in Objs,
                      mHardware[o] = "open", mHardware'[o] = "none"
               PROVE  mLock[o] # Nobody /\ mClientPid[o] = mLock[o]
    OBVIOUS
  <2>1. PICK t \in Threads : Clear(t)
    BY DEF Next, Call, Connecting, Acquire, Disconnecting, Connect, ConnectLock, Promote,
       PromoteFails, SameClient, ExistingClient, StillBusy, OpenHardware, OpenFails, Construct,
       Connected, Lock, Unlock, Reconnect, Disconnect, Release, Share, DisconnectLock, Refused,
       Stop, RemoveLock, RemoveDead, RemovePromote, Remove, Forget, Free, Return, Destroyed,
       Callback, CallbackReturn, vars, clientVars, IInv, Typed
  <2>2. pc[t] = "clear" /\ on[t] = o
    BY <2>1 DEF Clear, Go, IInv, Typed
  <2>3. mLock[o] = t /\ mClientPid[o] = t
    BY <2>2 DEF IInv, LockInv, HoldsClient, HardwareInv
  <2> QED BY <2>3, NamesAssumption DEF Threads
<1> QED BY <1>1, Inductive, PTL DEF Spec, OwnerTearsDown
=============================================================================
