-------------------------- MODULE InitServicesProofs --------------------------
(***************************************************************************)
(* What init keeps of its services, for every set of services, of process  *)
(* numbers and of actions, every init.rc and every delay.                  *)
(*                                                                         *)
(* The invariant has two layers.  ServicesInv is about the services        *)
(* between two calls: the process of each, the state published for it, and *)
(* that none is to be restarted that was stopped or has a process. LoopInv *)
(* is about the main loop: while restart_processes visits the services,    *)
(* the ones it has left behind are in process_needs_restart, and outside   *)
(* the reaping every dead child is announced on the signal descriptor.     *)
(***************************************************************************)
EXTENDS InitServices, FiniteSetTheorems, TLAPS

FlagSet == {"DISABLED", "ONESHOT", "RUNNING", "RESTARTING"}
States  == {"running", "stopping", "stopped", "restarting"}
Command == ({"start", "stop"} \X Services)
             \cup {<<"property_init">>, <<"property_service_init">>,
                   <<"signal_init">>, <<"queue_property_triggers">>}

\* The parts of TypeOK: the services, their processes, and the loop.
ServicesTyped ==
    /\ flags \in [Services -> SUBSET FlagSet]
    /\ pid \in [Services -> Pids \cup {NoPid}]
    /\ restart_in \in [Services -> 0..Delay]
    /\ init_svc \in [Services -> {"unset"} \cup States]
    /\ owner \in [Pids -> Services \cup {NoService}]
    /\ queue \in Seq(Actions)

ProcessesTyped ==
    /\ zombies \subseteq {p \in Pids : owner[p] # NoService}
    /\ sigchld \in {"no", "yes"}
    /\ fds \subseteq {"property", "signal"}
    /\ started \subseteq {"properties", "triggers"}

LoopTyped ==
    /\ cur_action \in Actions \cup {NoAction}
    /\ IF cur_action = NoAction THEN cur_command = 0
       ELSE cur_command \in 0..Len(Commands[cur_action])
    /\ loop \in {"command", "restart", "visit", "poll", "handle", "reap"}
    /\ todo \subseteq Services
    /\ process_needs_restart \in 0..Never /\ timeout \in 0..Never
    /\ ready \subseteq fds
    /\ uptime \in 0..Delay

\* A service to be restarted was not stopped and has no process.
RestartingIdle ==
    \A s \in Services :
        "RESTARTING" \in flags[s] => "DISABLED" \notin flags[s] /\ pid[s] = NoPid

\* Nothing is published before the property area exists.
Unpublished ==
    "properties" \notin started => \A s \in Services : init_svc[s] = "unset"

ServicesInv == OwnProcess /\ PublishedState /\ RestartingIdle /\ Unpublished

\* restart_processes: the services still to visit are to be restarted, and one
\* that was visited and is to be restarted later is waited for.
Visiting ==
    loop = "visit" =>
        \A s \in Services :
            /\ s \in todo => "RESTARTING" \in flags[s]
            /\ "RESTARTING" \in flags[s] =>
                   s \in todo \/ process_needs_restart <= restart_in[s]

\* A dead child that waitpid is not about to find is announced.
Announced ==
    loop # "reap" /\ zombies # {} /\ "signal" \in fds => sigchld = "yes"

LoopInv == Visiting /\ Announced /\ NoMissedWork

IInv == TypeOK /\ ServicesInv /\ LoopInv

LEMMA TypeParts == TypeOK <=> ServicesTyped /\ ProcessesTyped /\ LoopTyped
BY DEF TypeOK, ServicesTyped, ProcessesTyped, LoopTyped, FlagSet, States

LEMMA TypePartsNext ==
    TypeOK' <=> ServicesTyped' /\ ProcessesTyped' /\ LoopTyped'
BY TypeParts, PTL

-----------------------------------------------------------------------------
(* The operators of the services *)

\* action_add_queue_tail leaves a list of actions.
LEMMA AddTyped ==
    ASSUME NEW q \in Seq(Actions), NEW new \in SUBSET Actions, Add(q, new)
    PROVE  queue' \in Seq(Actions)
<1> DEFINE S == new \ Range(q)
<1>1. PICK p \in SetToSeqs(S) : queue' = q \o p
  BY DEF Add
<1>2. IsFiniteSet(S) /\ S \subseteq Actions
  BY BootAssumption, FS_Subset
<1> HIDE DEF S
<1>3. Cardinality(S) \in Nat
  BY <1>2, FS_CardinalityType
<1>4. p \in [1..Cardinality(S) -> S]
  BY DEF SetToSeqs
<1>5. p \in [1..Cardinality(S) -> Actions]
  BY <1>2, <1>4
<1>6. p \in Seq(Actions)
  BY <1>3, <1>5
<1> QED
  BY <1>1, <1>6

\* notify_service_state publishes the state, if it can, for this service alone.
LEMMA NotifyStep ==
    ASSUME ServicesTyped, Unpublished, NEW s \in Services, NEW state \in States,
           NEW q \in Seq(Actions), notify_service_state(s, state, q)
    PROVE  /\ init_svc' \in [Services -> {"unset"} \cup States]
           /\ queue' \in Seq(Actions)
           /\ init_svc'[s] \in {"unset", state}
           /\ "properties" \in started => init_svc'[s] = state
           /\ \A r \in Services : r # s => init_svc'[r] = init_svc[r]
           /\ "properties" \notin started => init_svc' = init_svc
<1>1. queue' \in Seq(Actions)
  <2>1. CASE started = {"properties", "triggers"}
    <3>1. <<s, state>> \in Services \X {"running", "stopping", "stopped", "restarting"}
      BY DEF States
    <3>2. OnState[<<s, state>>] \in SUBSET Actions
      BY <3>1, BootAssumption
    <3> QED
      BY <2>1, <3>2, AddTyped DEF notify_service_state
  <2>2. CASE started # {"properties", "triggers"}
    BY <2>2 DEF notify_service_state
  <2> QED
    BY <2>1, <2>2
<1>2. init_svc' = IF "properties" \in started
                  THEN [init_svc EXCEPT ![s] = state] ELSE init_svc
  BY DEF notify_service_state
<1>3. init_svc \in [Services -> {"unset"} \cup States]
  BY DEF ServicesTyped
<1>4. CASE "properties" \in started
  BY <1>1, <1>2, <1>3, <1>4
<1>5. CASE "properties" \notin started
  BY <1>1, <1>2, <1>3, <1>5 DEF Unpublished
<1> QED
  BY <1>4, <1>5

\* What a call for service s, which leaves init's own descriptors alone, is to
\* establish.
Served(s) ==
    /\ ServicesTyped' /\ ServicesInv'
    /\ \A r \in Services \ {s} :
           /\ flags'[r] = flags[r] /\ pid'[r] = pid[r]
           /\ restart_in'[r] = restart_in[r]
    /\ "RESTARTING" \notin flags'[s]
    /\ \A p \in Pids : owner[p] # NoService => owner'[p] = owner[p]
    /\ UNCHANGED <<zombies, sigchld, bootVars>>

LEMMA StartStep ==
    ASSUME ServicesTyped, ServicesInv, uptime \in 0..Delay,
           NEW s \in Services, NEW d \in BOOLEAN, NEW q \in Seq(Actions),
           service_start(s, d, q)
    PROVE  Served(s)
<1> USE DEF ServicesTyped, FlagSet
<1>1. UNCHANGED <<zombies, sigchld, bootVars>> /\ UNCHANGED started
  BY DEF service_start, bootVars
<1>a. \A r \in Services : restart_in[r] \in 0..Delay
  OBVIOUS
<1>b. Delay \in 0..Delay
  BY DelayAssumption
<1>2. ASSUME SetFlags(s, {"DISABLED", "RESTARTING"}, {}) \/
             SetFlags(s, {"RESTARTING"}, {"DISABLED"}),
             StartedLongAgo(s),
             pid' = pid \/ (pid' = [pid EXCEPT ![s] = NoPid] /\ "RUNNING" \notin flags[s]),
             queue' = q, UNCHANGED <<init_svc, owner>>
      PROVE  Served(s)
  <2>1. /\ flags' \in [Services -> SUBSET FlagSet]
        /\ \A r \in Services \ {s} : flags'[r] = flags[r]
        /\ flags'[s] \cap {"RESTARTING", "RUNNING"} = flags[s] \cap {"RUNNING"}
    BY <1>2 DEF SetFlags
  <2>2. /\ restart_in' \in [Services -> 0..Delay]
        /\ \A r \in Services \ {s} : restart_in'[r] = restart_in[r]
    BY <1>2 DEF StartedLongAgo
  <2>3. /\ pid' \in [Services -> Pids \cup {NoPid}]
        /\ \A r \in Services \ {s} : pid'[r] = pid[r]
        /\ pid'[s] = pid[s] \/ (pid'[s] = NoPid /\ "RUNNING" \notin flags[s])
    BY <1>2
  <2>4. ServicesTyped'
    BY <1>2, <2>1, <2>2, <2>3
  <2>a. "RESTARTING" \notin flags'[s] /\ ("RUNNING" \in flags'[s] <=> "RUNNING" \in flags[s])
    BY <2>1
  <2>b. UNCHANGED <<init_svc, owner, started>>
    BY <1>1, <1>2
  <2>c. OwnProcess'
    BY <2>1, <2>3, <2>a, <2>b DEF ServicesInv, OwnProcess
  <2>d. RestartingIdle'
    BY <2>1, <2>3, <2>a DEF ServicesInv, RestartingIdle
  <2>5. ServicesInv'
    BY <2>1, <2>a, <2>b, <2>c, <2>d DEF ServicesInv, PublishedState, Unpublished
  <2> QED
    BY <1>1, <1>2, <2>1, <2>2, <2>3, <2>4, <2>5 DEF Served
<1>3. ASSUME Fork(s, q) PROVE Served(s)
  <2>1. /\ flags' \in [Services -> SUBSET FlagSet]
        /\ \A r \in Services \ {s} : flags'[r] = flags[r]
        /\ "RESTARTING" \notin flags'[s]
        /\ "RUNNING" \in flags'[s]
    BY <1>3 DEF SetFlags, Fork
  <2>2. /\ restart_in' \in [Services -> 0..Delay]
        /\ \A r \in Services \ {s} : restart_in'[r] = restart_in[r]
    BY <1>3, <1>b DEF Fork
  <2>3. PICK p \in Pids : /\ owner[p] = NoService
                          /\ owner' = [owner EXCEPT ![p] = s]
                          /\ pid' = [pid EXCEPT ![s] = p]
    BY <1>3 DEF Fork
  <2>4. /\ pid' \in [Services -> Pids \cup {NoPid}]
        /\ owner' \in [Pids -> Services \cup {NoService}]
        /\ pid'[s] = p /\ owner'[p] = s
        /\ \A r \in Services \ {s} : pid'[r] = pid[r]
        /\ \A o \in Pids \ {p} : owner'[o] = owner[o]
    BY <2>3
  <2>5. /\ init_svc' \in [Services -> {"unset"} \cup States]
        /\ queue' \in Seq(Actions)
        /\ init_svc'[s] \in {"unset", "running"}
        /\ \A r \in Services : r # s => init_svc'[r] = init_svc[r]
        /\ "properties" \notin started => init_svc' = init_svc
    BY <1>3, NotifyStep DEF Fork, States, ServicesInv
  <2>6. ServicesTyped'
    BY <2>1, <2>2, <2>4, <2>5
  <2>7. OwnProcess'
    <3> SUFFICES ASSUME NEW r \in Services
                 PROVE  /\ pid'[r] # NoPid => owner'[pid'[r]] = r
                        /\ "RUNNING" \in flags'[r] => pid'[r] # NoPid
      BY DEF OwnProcess
    <3>1. CASE r = s
      BY <3>1, <2>4, ServicesAssumption
    <3>2. CASE r # s
      BY <3>2, <2>1, <2>3, <2>4, ServicesAssumption DEF ServicesInv, OwnProcess
    <3> QED
      BY <3>1, <3>2
  <2>8. PublishedState' /\ RestartingIdle' /\ Unpublished'
    BY <1>1, <2>1, <2>4, <2>5 DEF ServicesInv, PublishedState, RestartingIdle, Unpublished
  <2> QED
    BY <1>1, <2>1, <2>2, <2>3, <2>4, <2>6, <2>7, <2>8 DEF Served, ServicesInv
<1> QED
  BY <1>2, <1>3 DEF service_start, StartRunning, StartRefused, ForkFails

LEMMA StopStep ==
    ASSUME ServicesTyped, ServicesInv,
           NEW s \in Services, NEW q \in Seq(Actions), service_stop(s, q)
    PROVE  Served(s)
<1> USE DEF ServicesTyped, FlagSet
<1> DEFINE state == IF pid[s] # NoPid THEN "stopping" ELSE "stopped"
<1>1. UNCHANGED <<pid, restart_in, owner, zombies, sigchld, bootVars, started>>
  BY DEF service_stop, procVars, bootVars
<1>2. /\ flags' \in [Services -> SUBSET FlagSet]
      /\ \A r \in Services \ {s} : flags'[r] = flags[r]
      /\ flags'[s] \cap {"RESTARTING", "RUNNING"} = {}
  BY DEF service_stop, SetFlags
<1>3. state \in {"stopping", "stopped"}
  OBVIOUS
<1>4. notify_service_state(s, state, q)
  BY DEF service_stop
<1> HIDE DEF state
<1>5. /\ init_svc' \in [Services -> {"unset"} \cup States]
      /\ queue' \in Seq(Actions)
      /\ init_svc'[s] \in {"unset", state}
      /\ \A r \in Services : r # s => init_svc'[r] = init_svc[r]
      /\ "properties" \notin started => init_svc' = init_svc
  BY <1>3, <1>4, NotifyStep DEF States, ServicesInv
<1>6. ServicesTyped'
  BY <1>1, <1>2, <1>5
<1>7. ServicesInv'
  BY <1>1, <1>2, <1>3, <1>5
     DEF ServicesInv, OwnProcess, PublishedState, RestartingIdle, Unpublished
<1> QED
  BY <1>1, <1>2, <1>6, <1>7 DEF Served

\* Reap: the process is the service's own, or it is of no service's pid.
LEMMA ReapStep ==
    ASSUME ServicesTyped, ProcessesTyped, ServicesInv, NEW p \in Pids, Reap(p)
    PROVE  ServicesTyped' /\ ServicesInv' /\ ProcessesTyped'
<1> USE DEF ServicesTyped, FlagSet
<1>1. /\ p \in zombies /\ zombies' = zombies \ {p}
      /\ owner' = [owner EXCEPT ![p] = NoService]
      /\ UNCHANGED <<sigchld, fds, started>>
  BY DEF Reap, bootVars
<1>2. /\ owner' \in [Pids -> Services \cup {NoService}]
      /\ owner[p] \in Services
      /\ \A o \in Pids \ {p} : owner'[o] = owner[o]
  BY <1>1 DEF ProcessesTyped
<1>3. ProcessesTyped'
  BY <1>1, <1>2 DEF ProcessesTyped
<1>4. CASE pid[owner[p]] # p
  <2>1. UNCHANGED <<flags, pid, restart_in, init_svc, queue>>
    BY <1>4 DEF Reap, svcVars
  <2>2. \A r \in Services : pid[r] # p
    <3> SUFFICES ASSUME NEW r \in Services, pid[r] = p PROVE FALSE
      OBVIOUS
    <3>1. owner[p] = r
      BY ServicesAssumption DEF ServicesInv, OwnProcess
    <3> QED
      BY <1>4, <3>1
  <2>3. ServicesTyped'
    BY <1>2, <2>1
  <2>4. ServicesInv'
    BY <1>1, <1>2, <2>1, <2>2
       DEF ServicesInv, OwnProcess, PublishedState, RestartingIdle, Unpublished
  <2> QED
    BY <1>3, <2>3, <2>4
<1>5. CASE pid[owner[p]] = p
  <2> DEFINE s == owner[p]
  <2>1. s \in Services /\ pid[s] = p
    BY <1>2, <1>5
  <2>2. \A r \in Services : r # s => pid[r] # p
    BY <1>2, <1>5, ServicesAssumption DEF ServicesInv, OwnProcess
  <2>3. Died(s) /\ UNCHANGED restart_in
    BY <1>5 DEF Reap
  <2> HIDE DEF s
  <2>4. PICK state \in {"stopped", "restarting"} : notify_service_state(s, state, queue)
    BY <2>3 DEF Died
  <2>5. /\ pid' \in [Services -> Pids \cup {NoPid}]
        /\ pid'[s] = NoPid
        /\ \A r \in Services : r # s => pid'[r] = pid[r]
    BY <2>1, <2>3 DEF Died
  <2>6. PICK on \in {{"DISABLED"}, {"RESTARTING"}} :
            /\ SetFlags(s, {"RUNNING"}, on)
            /\ on = {"RESTARTING"} => "DISABLED" \notin flags[s]
    BY <2>3 DEF Died
  <2>7. /\ flags' \in [Services -> SUBSET FlagSet]
        /\ \A r \in Services : r # s => flags'[r] = flags[r]
        /\ flags'[s] = (flags[s] \ {"RUNNING"}) \cup on
    BY <2>1, <2>6 DEF SetFlags
  <2>a. "RESTARTING" \notin flags[s]
    BY <2>1, ServicesAssumption DEF ServicesInv, RestartingIdle
  <2>8. /\ init_svc' \in [Services -> {"unset"} \cup States]
        /\ queue' \in Seq(Actions)
        /\ init_svc'[s] \in {"unset", state}
        /\ \A r \in Services : r # s => init_svc'[r] = init_svc[r]
        /\ "properties" \notin started => init_svc' = init_svc
    BY <2>1, <2>4, NotifyStep DEF States, ServicesInv
  <2>9. ServicesTyped'
    BY <1>2, <2>3, <2>5, <2>7, <2>8
  <2>10. OwnProcess'
    <3> SUFFICES ASSUME NEW r \in Services
                 PROVE  /\ pid'[r] # NoPid => owner'[pid'[r]] = r
                        /\ "RUNNING" \in flags'[r] => pid'[r] # NoPid
      BY DEF OwnProcess
    <3>1. CASE r = s
      BY <3>1, <2>5, <2>7
    <3>2. CASE r # s
      BY <3>2, <1>2, <2>2, <2>5, <2>7 DEF ServicesInv, OwnProcess
    <3> QED
      BY <3>1, <3>2
  <2>11. PublishedState' /\ Unpublished'
    BY <1>1, <2>7, <2>8 DEF ServicesInv, PublishedState, Unpublished
  <2>12. RestartingIdle'
    BY <2>5, <2>6, <2>7, <2>a DEF ServicesInv, RestartingIdle
  <2> QED
    BY <1>3, <2>9, <2>10, <2>11, <2>12 DEF ServicesInv
<1> QED
  BY <1>4, <1>5

-----------------------------------------------------------------------------
(* The commands *)

\* A builtin of main() moves no service.
LEMMA BuiltinStep ==
    ASSUME ServicesTyped, ProcessesTyped, ServicesInv,
           NEW name, NEW q \in Seq(Actions), builtin(name, q)
    PROVE  /\ ServicesTyped' /\ ServicesInv' /\ ProcessesTyped'
           /\ fds \subseteq fds'
           /\ loop # "reap" /\ Announced => (zombies' # {} /\ "signal" \in fds' => sigchld' = "yes")
<1>1. UNCHANGED <<flags, pid, restart_in, init_svc, owner, zombies>>
  BY DEF builtin, svcVars
<1>2. /\ fds \subseteq fds' /\ fds' \subseteq fds \cup {"property", "signal"}
      /\ started \subseteq started'
      /\ started' \subseteq started \cup {"properties", "triggers"}
      /\ sigchld' \in {"yes", sigchld}
  BY DEF builtin
<1>3. queue' \in Seq(Actions)
  <2>1. AllTriggers \in SUBSET Actions
    <3> SUFFICES ASSUME NEW s \in Services, init_svc[s] # "unset"
                 PROVE  OnState[<<s, init_svc[s]>>] \in SUBSET Actions
      BY DEF AllTriggers
    <3>1. <<s, init_svc[s]>> \in
              Services \X {"running", "stopping", "stopped", "restarting"}
      BY DEF ServicesTyped, States
    <3> QED
      BY <3>1, BootAssumption
  <2>2. CASE name = "queue_property_triggers"
    BY <2>1, <2>2, AddTyped DEF builtin
  <2>3. CASE name # "queue_property_triggers"
    BY <2>3 DEF builtin
  <2> QED
    BY <2>2, <2>3
<1>4. ServicesTyped' /\ ProcessesTyped'
  BY <1>1, <1>2, <1>3 DEF ServicesTyped, ProcessesTyped
<1>5. ServicesInv'
  BY <1>1, <1>2
     DEF ServicesInv, OwnProcess, PublishedState, RestartingIdle, Unpublished
<1>6. ASSUME loop # "reap", Announced, zombies' # {}, "signal" \in fds'
      PROVE  sigchld' = "yes"
  BY <1>1, <1>6 DEF builtin, Announced
<1> QED
  BY <1>2, <1>4, <1>5, <1>6

\* Served is all that the processes and the loop need of a call.
LEMMA ServedStep ==
    ASSUME ServicesTyped, ProcessesTyped, NEW s \in Services, Served(s)
    PROVE  /\ ServicesTyped' /\ ServicesInv' /\ ProcessesTyped'
           /\ UNCHANGED <<zombies, sigchld, fds, started>>
BY DEF Served, bootVars, ProcessesTyped, ServicesTyped

LEMMA RunStep ==
    ASSUME TypeOK, ServicesInv, loop # "reap", Announced,
           NEW cmd \in Command, NEW q \in Seq(Actions), Run(cmd, q)
    PROVE  /\ ServicesTyped' /\ ServicesInv' /\ ProcessesTyped'
           /\ fds \subseteq fds'
           /\ zombies' # {} /\ "signal" \in fds' => sigchld' = "yes"
<1>1. ServicesTyped /\ ProcessesTyped /\ uptime \in 0..Delay
  BY TypeParts DEF LoopTyped
<1>2. cmd[1] \in {"start", "stop"} => cmd[2] \in Services
  BY DEF Command
<1>3. CASE cmd[1] = "start" /\ service_start(cmd[2], FALSE, q)
  <2>1. Served(cmd[2])
    BY <1>1, <1>2, <1>3, StartStep
  <2> QED
    BY <1>1, <1>2, <1>3, <2>1, ServedStep DEF Announced
<1>4. CASE cmd[1] = "stop" /\ service_stop(cmd[2], q)
  <2>1. Served(cmd[2])
    BY <1>1, <1>2, <1>4, StopStep
  <2> QED
    BY <1>1, <1>2, <1>4, <2>1, ServedStep DEF Announced
<1>5. CASE builtin(cmd[1], q)
  BY <1>1, <1>5, BuiltinStep
<1> QED
  BY <1>3, <1>4, <1>5 DEF Run

-----------------------------------------------------------------------------
(* The steps *)

\* A step that leaves the services, their processes and the queue alone.
LEMMA IdleStep ==
    ASSUME ServicesTyped, ServicesInv,
           UNCHANGED <<flags, pid, restart_in, init_svc, owner, queue, started>>
    PROVE  ServicesTyped' /\ ServicesInv'
BY DEF ServicesTyped, ServicesInv, OwnProcess, PublishedState, RestartingIdle,
       Unpublished

USE DEF svcVars, procVars, queueVars, pollVars, bootVars

LEMMA DelayNat == /\ Delay \in Nat \ {0} /\ Never \in Nat
                  /\ 0..Delay \subseteq 0..Never /\ Never \in 0..Never
                  /\ \A n \in 0..Delay : n < Never
BY DelayAssumption DEF Never

LEMMA CommandsTyped ==
    ASSUME NEW a \in Actions
    PROVE  /\ Commands[a] \in Seq(Command)
           /\ Len(Commands[a]) \in Nat
           /\ \A i \in 1..Len(Commands[a]) : Commands[a][i] \in Command
<1>1. Commands[a] \in Seq(Command)
  BY BootAssumption DEF Command
<1> QED
  BY <1>1

LEMMA InitInv == Init => IInv
<1> SUFFICES ASSUME Init PROVE IInv
  OBVIOUS
<1> USE DEF Init
<1>1. ServicesTyped
  <2>1. flags \in [Services -> SUBSET FlagSet]
    BY ServicesAssumption DEF FlagSet
  <2>2. Boot \in Seq(Actions)
    BY BootAssumption
  <2> QED
    BY <2>1, <2>2, DelayNat DEF ServicesTyped
<1>2. ProcessesTyped /\ LoopTyped
  BY ServicesAssumption, DelayNat DEF ProcessesTyped, LoopTyped
<1>3. OwnProcess /\ PublishedState /\ RestartingIdle /\ Unpublished
  <2>1. \A s \in Services : flags[s] \cap {"RUNNING", "RESTARTING"} = {}
    BY ServicesAssumption
  <2> QED
    BY <2>1 DEF OwnProcess, PublishedState, RestartingIdle, Unpublished
<1>4. LoopInv
  BY DEF LoopInv, Visiting, Announced, NoMissedWork
<1> QED
  BY <1>1, <1>2, <1>3, <1>4, TypeParts DEF IInv, ServicesInv

LEMMA CommandStep ==
    ASSUME IInv, NextAction \/ NextCommand \/ NoCommand
    PROVE  IInv'
<1>1. TypeOK /\ ServicesTyped /\ ProcessesTyped /\ LoopTyped /\ ServicesInv /\ LoopInv
  BY TypeParts DEF IInv
<1>2. loop = "command" /\ loop' = "restart" /\ Announced
  BY <1>1 DEF NextAction, NextCommand, NoCommand, LoopInv
<1>3. UNCHANGED <<todo, process_needs_restart, timeout, ready, uptime>>
  BY DEF NextAction, NextCommand, NoCommand
<1>4. /\ ServicesTyped' /\ ServicesInv' /\ ProcessesTyped'
      /\ fds \subseteq fds'
      /\ zombies' # {} /\ "signal" \in fds' => sigchld' = "yes"
  <2>1. CASE NextAction
    <3>1. /\ queue \in Seq(Actions) /\ queue # <<>>
          /\ Head(queue) \in Actions /\ Tail(queue) \in Seq(Actions)
      BY <1>1, <2>1 DEF NextAction, ServicesTyped
    <3>2. CASE Commands[Head(queue)] = <<>>
      <4>1. /\ UNCHANGED <<flags, pid, restart_in, init_svc, owner, zombies,
                          sigchld, fds, started>>
            /\ queue' = Tail(queue)
        BY <2>1, <3>2 DEF NextAction
      <4>2. ServicesTyped' /\ ProcessesTyped'
        BY <1>1, <3>1, <4>1 DEF ServicesTyped, ProcessesTyped
      <4>3. ServicesInv'
        BY <1>1, <4>1
           DEF ServicesInv, OwnProcess, PublishedState, RestartingIdle, Unpublished
      <4> QED
        BY <1>2, <4>1, <4>2, <4>3 DEF Announced
    <3>3. CASE Commands[Head(queue)] # <<>>
      <4>1. Commands[Head(queue)][1] \in Command
        BY <3>1, <3>3, CommandsTyped
      <4>2. Run(Commands[Head(queue)][1], Tail(queue))
        BY <2>1, <3>3 DEF NextAction
      <4> QED
        BY <1>1, <1>2, <3>1, <4>1, <4>2, RunStep
    <3> QED
      BY <3>2, <3>3
  <2>2. CASE NextCommand
    <3>1. /\ cur_action \in Actions /\ cur_command + 1 \in 1..Len(Commands[cur_action])
          /\ Run(Commands[cur_action][cur_command + 1], queue)
      BY <1>1, <2>2, CommandsTyped DEF NextCommand, CommandLeft, LoopTyped
    <3>2. Commands[cur_action][cur_command + 1] \in Command
      BY <3>1, CommandsTyped
    <3>3. queue \in Seq(Actions)
      BY <1>1 DEF ServicesTyped
    <3> QED
      BY <1>1, <1>2, <3>1, <3>2, <3>3, RunStep
  <2>3. CASE NoCommand
    <3>1. UNCHANGED <<flags, pid, restart_in, init_svc, owner, zombies, sigchld,
                      queue, fds, started>>
      BY <2>3 DEF NoCommand
    <3>2. ServicesTyped' /\ ServicesInv'
      BY <1>1, <3>1, IdleStep
    <3> QED
      BY <1>1, <1>2, <3>1, <3>2 DEF ProcessesTyped, Announced
  <2> QED
    BY <2>1, <2>2, <2>3
<1>5. LoopTyped'
  <2>1. /\ cur_action' \in Actions \cup {NoAction}
        /\ IF cur_action' = NoAction THEN cur_command' = 0
           ELSE cur_command' \in 0..Len(Commands[cur_action'])
    <3>1. CASE NextAction
      <4>1. /\ Head(queue) \in Actions /\ cur_action' = Head(queue)
            /\ cur_command' = IF Commands[Head(queue)] = <<>> THEN 0 ELSE 1
        BY <1>1, <3>1 DEF NextAction, ServicesTyped
      <4>2. Commands[Head(queue)] # <<>> => 1 \in 0..Len(Commands[Head(queue)])
        BY <4>1, CommandsTyped
      <4>3. 0 \in 0..Len(Commands[Head(queue)])
        BY <4>1, CommandsTyped
      <4> QED
        BY <4>1, <4>2, <4>3, ServicesAssumption
    <3>2. CASE NextCommand
      <4>1. /\ cur_action \in Actions /\ cur_action' = cur_action
            /\ cur_action # NoAction
            /\ cur_command \in 0..Len(Commands[cur_action])
            /\ cur_command < Len(Commands[cur_action])
            /\ cur_command' = cur_command + 1
        BY <1>1, <3>2 DEF NextCommand, CommandLeft, LoopTyped
      <4> QED
        BY <4>1, CommandsTyped
    <3>3. CASE NoCommand
      BY <3>3 DEF NoCommand
    <3> QED
      BY <3>1, <3>2, <3>3
  <2> QED
    BY <1>1, <1>2, <1>3, <1>4, <2>1 DEF LoopTyped
<1>6. LoopInv'
  BY <1>2, <1>4 DEF LoopInv, Visiting, Announced, NoMissedWork
<1> QED
  BY <1>4, <1>5, <1>6, TypePartsNext DEF IInv

\* restart_processes begins, and ends in poll with the time of the next restart.
LEMMA SleepStep ==
    ASSUME IInv, restart_processes \/ Poll
    PROVE  IInv'
<1>1. TypeOK /\ ServicesTyped /\ ProcessesTyped /\ LoopTyped /\ ServicesInv /\ LoopInv
  BY TypeParts DEF IInv
<1>2. CASE restart_processes
  <2>1. /\ UNCHANGED <<flags, pid, restart_in, init_svc, owner, zombies, sigchld,
                       queue, fds, started, cur_action, cur_command, timeout,
                       ready, uptime>>
        /\ loop = "restart" /\ loop' = "visit" /\ process_needs_restart' = Never
        /\ todo' = {r \in Services : "RESTARTING" \in flags[r]}
    BY <1>2 DEF restart_processes
  <2>2. ServicesTyped' /\ ServicesInv'
    BY <1>1, <2>1, IdleStep
  <2>3. ProcessesTyped' /\ LoopTyped'
    BY <1>1, <2>1, DelayNat DEF ProcessesTyped, LoopTyped, Never
  <2>4. LoopInv'
    BY <1>1, <2>1 DEF LoopInv, Visiting, Announced, NoMissedWork
  <2> QED
    BY <2>2, <2>3, <2>4, TypePartsNext DEF IInv
<1>3. CASE Poll
  <2>1. /\ UNCHANGED <<flags, pid, restart_in, init_svc, owner, zombies, sigchld,
                       queue, fds, started, cur_action, cur_command, todo,
                       ready, uptime>>
        /\ loop = "visit" /\ loop' = "poll" /\ todo = {}
        /\ process_needs_restart' = Never
        /\ timeout' = IF queue # <<>> \/ cur_action # NoAction THEN 0
                      ELSE process_needs_restart
    BY <1>3 DEF Poll
  <2>2. ServicesTyped' /\ ServicesInv'
    BY <1>1, <2>1, IdleStep
  <2>3. ProcessesTyped' /\ LoopTyped'
    BY <1>1, <2>1, DelayNat DEF ProcessesTyped, LoopTyped, Never
  <2>4. \A r \in Services : "RESTARTING" \in flags[r] => timeout' <= restart_in[r]
    <3> SUFFICES ASSUME NEW r \in Services, "RESTARTING" \in flags[r]
                 PROVE  timeout' <= restart_in[r]
      OBVIOUS
    <3>1. process_needs_restart <= restart_in[r]
      BY <1>1, <2>1 DEF LoopInv, Visiting
    <3>2. 0 <= restart_in[r]
      BY <1>1, DelayNat DEF ServicesTyped
    <3> QED
      BY <2>1, <3>1, <3>2
  <2>5. LoopInv'
    BY <1>1, <2>1, <2>4 DEF LoopInv, Visiting, Announced, NoMissedWork
  <2> QED
    BY <2>2, <2>3, <2>5, TypePartsNext DEF IInv
<1> QED
  BY <1>2, <1>3

\* A service is visited.
LEMMA RestartStep ==
    ASSUME IInv, NEW s \in Services, RestartNow(s) \/ RestartLater(s)
    PROVE  IInv'
<1>1. TypeOK /\ ServicesTyped /\ ProcessesTyped /\ LoopTyped /\ ServicesInv /\ LoopInv
  BY TypeParts DEF IInv
<1>2. CASE RestartNow(s)
  <2>1. /\ loop = "visit" /\ loop' = "visit" /\ s \in todo /\ todo' = todo \ {s}
        /\ service_start(s, FALSE, queue)
        /\ UNCHANGED <<cur_action, cur_command, process_needs_restart, timeout,
                       ready, uptime>>
    BY <1>2 DEF RestartNow
  <2>2. Served(s)
    BY <1>1, <2>1, StartStep DEF LoopTyped, ServicesTyped
  <2>3. /\ ServicesTyped' /\ ServicesInv' /\ ProcessesTyped'
        /\ UNCHANGED <<zombies, sigchld, fds, started>>
    BY <1>1, <2>2, ServedStep
  <2>4. LoopTyped'
    BY <1>1, <2>1, <2>3 DEF LoopTyped, Never
  <2>5. Visiting'
    BY <1>1, <2>1, <2>2 DEF LoopInv, Visiting, Served
  <2>6. LoopInv'
    BY <1>1, <2>1, <2>3, <2>5 DEF LoopInv, Announced, NoMissedWork
  <2> QED
    BY <2>3, <2>4, <2>6, TypePartsNext DEF IInv
<1>3. CASE RestartLater(s)
  <2>1. /\ loop = "visit" /\ loop' = "visit" /\ s \in todo /\ todo' = todo \ {s}
        /\ process_needs_restart' =
               IF restart_in[s] < process_needs_restart THEN restart_in[s]
               ELSE process_needs_restart
        /\ UNCHANGED <<flags, pid, restart_in, init_svc, owner, zombies, sigchld,
                       queue, fds, started, cur_action, cur_command, timeout,
                       ready, uptime>>
    BY <1>3 DEF RestartLater
  <2>2. ServicesTyped' /\ ServicesInv'
    BY <1>1, <2>1, IdleStep
  <2>3. /\ \A r \in Services : restart_in[r] \in 0..Delay
        /\ process_needs_restart \in 0..Never
    BY <1>1 DEF ServicesTyped, LoopTyped
  <2>4. /\ process_needs_restart' \in 0..Never
        /\ process_needs_restart' <= restart_in[s]
        /\ process_needs_restart' <= process_needs_restart
    BY <2>1, <2>3, DelayNat
  <2>5. ProcessesTyped' /\ LoopTyped'
    BY <1>1, <2>1, <2>4 DEF ProcessesTyped, LoopTyped, Never
  <2>6. Visiting'
    BY <1>1, <2>1, <2>3, <2>4, DelayNat DEF LoopInv, Visiting
  <2>7. LoopInv'
    BY <1>1, <2>1, <2>6 DEF LoopInv, Announced, NoMissedWork
  <2> QED
    BY <2>2, <2>5, <2>7, TypePartsNext DEF IInv
<1> QED
  BY <1>2, <1>3

\* poll returns, and the descriptors it reports are handled.
LEMMA HandleStep ==
    ASSUME IInv, Wake \/ Message \/ HandleSignal \/ Handled
    PROVE  IInv'
<1>1. TypeOK /\ ServicesTyped /\ ProcessesTyped /\ LoopTyped /\ ServicesInv /\ LoopInv
  BY TypeParts DEF IInv
<1>2. UNCHANGED <<flags, pid, restart_in, init_svc, owner, zombies, queue, fds,
                  started, cur_action, cur_command, todo, process_needs_restart,
                  uptime>>
  BY DEF Wake, Message, HandleSignal, Handled
<1>3. ServicesTyped' /\ ServicesInv'
  BY <1>1, <1>2, IdleStep
<1>4. sigchld' \in {"no", sigchld} /\ timeout' \in {Never, timeout} /\ ready' \subseteq fds
  BY <1>1 DEF Wake, Message, Signaled, HandleSignal, Handled, LoopTyped
<1>5. /\ loop' \in {"handle", "reap", "command"}
      /\ loop = "reap" => zombies = {}
      /\ loop' # "reap" => sigchld' = sigchld
  BY DEF Wake, Message, HandleSignal, Handled
<1>6. ProcessesTyped' /\ LoopTyped'
  BY <1>1, <1>2, <1>4, <1>5, DelayNat DEF ProcessesTyped, LoopTyped, Never
<1>7. LoopInv'
  BY <1>1, <1>2, <1>5 DEF LoopInv, Visiting, Announced, NoMissedWork
<1> QED
  BY <1>3, <1>6, <1>7, TypePartsNext DEF IInv

LEMMA PropertyStep ==
    ASSUME IInv, HandleProperty
    PROVE  IInv'
<1>1. TypeOK /\ ServicesTyped /\ ProcessesTyped /\ LoopTyped /\ ServicesInv /\ LoopInv
  BY TypeParts DEF IInv
<1>2. /\ loop = "handle" /\ loop' = "handle" /\ ready' \subseteq ready
      /\ UNCHANGED <<cur_action, cur_command, todo, process_needs_restart, timeout,
                     uptime>>
  BY DEF HandleProperty
<1>3. queue \in Seq(Actions) /\ uptime \in 0..Delay
  BY <1>1 DEF ServicesTyped, LoopTyped
<1>4. /\ ServicesTyped' /\ ServicesInv' /\ ProcessesTyped'
      /\ UNCHANGED <<zombies, sigchld, fds>>
  <2>1. ASSUME NEW s \in Services, NEW d \in BOOLEAN, service_start(s, d, queue)
        PROVE  <1>4!:
    BY <1>1, <1>3, <2>1, StartStep, ServedStep
  <2>2. ASSUME NEW s \in Services, service_stop(s, queue)
        PROVE  <1>4!:
    BY <1>1, <1>3, <2>2, StopStep, ServedStep
  <2>3. ASSUME NEW a \in Actions, Add(queue, {a}),
               UNCHANGED <<svcVars, procVars, bootVars>>
        PROVE  <1>4!:
    <3>1. queue' \in Seq(Actions)
      BY <1>3, <2>3, AddTyped
    <3> QED
      BY <1>1, <2>3, <3>1
         DEF ServicesTyped, ProcessesTyped, ServicesInv, OwnProcess, PublishedState,
             RestartingIdle, Unpublished
  <2>4. ASSUME UNCHANGED <<svcVars, procVars, queue, bootVars>>
        PROVE  <1>4!:
    BY <1>1, <2>4, IdleStep DEF ProcessesTyped
  <2> QED
    BY <2>1, <2>2, <2>3, <2>4 DEF HandleProperty
<1>5. LoopTyped'
  BY <1>1, <1>2, <1>4 DEF LoopTyped, Never
<1>6. LoopInv'
  BY <1>1, <1>2, <1>4 DEF LoopInv, Visiting, Announced, NoMissedWork
<1> QED
  BY <1>4, <1>5, <1>6, TypePartsNext DEF IInv

\* A child dies, or is reaped.
LEMMA DeathStep ==
    ASSUME IInv, NEW p \in Pids, Reap(p) \/ Exit(p)
    PROVE  IInv'
<1>1. TypeOK /\ ServicesTyped /\ ProcessesTyped /\ LoopTyped /\ ServicesInv /\ LoopInv
  BY TypeParts DEF IInv
<1>2. CASE Reap(p)
  <2>1. /\ loop = "reap" /\ loop' = "reap"
        /\ UNCHANGED <<fds, cur_action, cur_command, todo, process_needs_restart,
                       timeout, ready, uptime>>
    BY <1>2 DEF Reap
  <2>2. ServicesTyped' /\ ServicesInv' /\ ProcessesTyped'
    BY <1>1, <1>2, ReapStep
  <2>3. LoopTyped'
    BY <1>1, <2>1 DEF LoopTyped, Never
  <2>4. LoopInv'
    BY <2>1 DEF LoopInv, Visiting, Announced, NoMissedWork
  <2> QED
    BY <2>2, <2>3, <2>4, TypePartsNext DEF IInv
<1>3. CASE Exit(p)
  <2>1. /\ owner[p] # NoService /\ zombies' = zombies \cup {p}
        /\ sigchld' = IF "signal" \in fds THEN "yes" ELSE sigchld
        /\ UNCHANGED <<flags, pid, restart_in, init_svc, owner, queue, fds, started,
                       cur_action, cur_command, loop, todo, process_needs_restart,
                       timeout, ready, uptime>>
    BY <1>3 DEF Exit
  <2>2. ServicesTyped' /\ ServicesInv'
    BY <1>1, <2>1, IdleStep
  <2>3. ProcessesTyped' /\ LoopTyped'
    BY <1>1, <2>1 DEF ProcessesTyped, LoopTyped, Never
  <2>4. LoopInv'
    BY <1>1, <2>1 DEF LoopInv, Visiting, Announced, NoMissedWork
  <2> QED
    BY <2>2, <2>3, <2>4, TypePartsNext DEF IInv
<1> QED
  BY <1>2, <1>3

\* What is waited for stays the least of the times that are left.
LEMMA TickStep ==
    ASSUME IInv, Tick
    PROVE  IInv'
<1>1. TypeOK /\ ServicesTyped /\ ProcessesTyped /\ LoopTyped /\ ServicesInv /\ LoopInv
  BY TypeParts DEF IInv
<1>2. /\ uptime' = Less(uptime)
      /\ restart_in' = [s \in Services |-> Less(restart_in[s])]
      /\ process_needs_restart' = Sooner(process_needs_restart)
      /\ timeout' = Sooner(timeout)
      /\ UNCHANGED <<flags, pid, init_svc, owner, zombies, sigchld, queue,
                     cur_action, cur_command, loop, todo, ready, fds, started>>
  BY DEF Tick
<1>3. \A n \in 0..Delay : Less(n) \in 0..Delay
  BY DelayNat DEF Less
<1>4. \A n \in 0..Never : Sooner(n) \in 0..Never /\ (n = 0 => Sooner(n) = 0)
  BY DelayNat DEF Sooner, Less
<1>5. \A m \in 0..Never, n \in 0..Delay : m <= n => Sooner(m) <= Less(n)
  BY DelayNat DEF Sooner, Less
<1>6. ServicesTyped'
  BY <1>1, <1>2, <1>3 DEF ServicesTyped
<1>7. ServicesInv'
  BY <1>1, <1>2
     DEF ServicesInv, OwnProcess, PublishedState, RestartingIdle, Unpublished
<1>8. ProcessesTyped'
  BY <1>1, <1>2 DEF ProcessesTyped
<1>9. LoopTyped'
  BY <1>1, <1>2, <1>3, <1>4 DEF LoopTyped, Never
<1>10. /\ process_needs_restart \in 0..Never /\ timeout \in 0..Never
       /\ \A s \in Services : restart_in[s] \in 0..Delay
                              /\ restart_in'[s] = Less(restart_in[s])
  BY <1>1, <1>2 DEF LoopTyped, ServicesTyped
<1>11. Visiting'
  BY <1>1, <1>2, <1>5, <1>10 DEF LoopInv, Visiting
<1>12. NoMissedWork'
  BY <1>1, <1>2, <1>4, <1>5, <1>10 DEF LoopInv, NoMissedWork
<1>13. Announced'
  BY <1>1, <1>2 DEF LoopInv, Announced
<1> QED
  BY <1>6, <1>7, <1>8, <1>9, <1>11, <1>12, <1>13, TypePartsNext DEF IInv, LoopInv

LEMMA NextInv == IInv /\ [Next]_vars => IInv'
<1> SUFFICES ASSUME IInv, [Next]_vars PROVE IInv'
  OBVIOUS
<1>1. CASE NextAction \/ NextCommand \/ NoCommand
  BY <1>1, CommandStep
<1>2. CASE restart_processes \/ Poll
  BY <1>2, SleepStep
<1>3. ASSUME NEW s \in Services, RestartNow(s) \/ RestartLater(s)
      PROVE  IInv'
  BY <1>3, RestartStep
<1>4. CASE Wake \/ Message \/ HandleSignal \/ Handled
  BY <1>4, HandleStep
<1>5. CASE HandleProperty
  BY <1>5, PropertyStep
<1>6. ASSUME NEW p \in Pids, Reap(p) \/ Exit(p)
      PROVE  IInv'
  BY <1>6, DeathStep
<1>7. CASE Tick
  BY <1>7, TickStep
<1>8. CASE UNCHANGED vars
  <2>1. UNCHANGED <<flags, pid, restart_in, init_svc, owner, zombies, sigchld, queue,
                    cur_action, cur_command, loop, todo, process_needs_restart,
                    timeout, ready, fds, started, uptime>>
    BY <1>8 DEF vars
  <2>2. TypeOK' /\ ServicesInv' /\ LoopInv'
    BY <2>1 DEF IInv, TypeOK, Never, ServicesInv, OwnProcess, PublishedState,
       RestartingIdle, Unpublished, LoopInv, Visiting, Announced, NoMissedWork
  <2> QED
    BY <2>2 DEF IInv
<1> QED
  BY <1>1, <1>2, <1>3, <1>4, <1>5, <1>6, <1>7, <1>8 DEF Next, MainLoop

-----------------------------------------------------------------------------
(* The theorems *)

\* The invariant, of every behaviour of init.
THEOREM Inductive == Spec => []IInv
BY InitInv, NextInv, PTL DEF Spec

\* The types, and with them that the main loop never runs a command past the
\* end of an action.
THEOREM TypeCorrect == Spec => []TypeOK
BY Inductive, PTL DEF IInv

\* init kills only processes of the service it stops, which it has not reaped,
\* and a running service has one.
THEOREM KillsItsOwn == Spec => []OwnProcess
BY Inductive, PTL DEF IInv, ServicesInv

\* init.svc.<name> tells the running services from the others.
THEOREM PublishesState == Spec => []PublishedState
BY Inductive, PTL DEF IInv, ServicesInv

\* The main loop sleeps past no command, no restart and no dead child.
THEOREM MissesNoWork == Spec => []NoMissedWork
BY Inductive, PTL DEF IInv, LoopInv

\* restart_processes leaves the process of a stopped service as it is.
THEOREM StopIsFinal == Spec => StoppedStaysStopped
<1>1. IInv /\ [Next]_vars =>
      [\A s \in Services : loop = "visit" /\ "DISABLED" \in flags[s] =>
           pid'[s] = pid[s]]_vars
  <2> SUFFICES ASSUME IInv, Next, NEW s \in Services,
                      loop = "visit", "DISABLED" \in flags[s]
               PROVE  pid'[s] = pid[s]
    OBVIOUS
  <2>1. TypeOK /\ ServicesTyped /\ ServicesInv /\ LoopInv /\ uptime \in 0..Delay
    BY TypeParts DEF IInv, LoopTyped
  <2>2. ASSUME NEW r \in Services, RestartNow(r)
        PROVE  pid'[s] = pid[s]
    <3>1. r \in todo /\ service_start(r, FALSE, queue)
      BY <2>2 DEF RestartNow
    <3>2. r # s
      BY <2>1, <3>1 DEF LoopInv, Visiting, ServicesInv, RestartingIdle
    <3>3. Served(r)
      BY <2>1, <3>1, StartStep DEF ServicesTyped
    <3> QED
      BY <3>2, <3>3 DEF Served
  <2>3. ASSUME NEW r \in Services, RestartLater(r)
        PROVE  pid'[s] = pid[s]
    BY <2>3 DEF RestartLater
  <2>4. ASSUME NEW p \in Pids, Exit(p)
        PROVE  pid'[s] = pid[s]
    BY <2>4 DEF Exit
  <2>5. CASE Poll \/ Tick
    BY <2>5 DEF Poll, Tick
  <2>6. ~(NextAction \/ NextCommand \/ NoCommand \/ restart_processes \/ Wake
          \/ Message \/ HandleProperty \/ HandleSignal \/ Handled)
        /\ \A p \in Pids : ~Reap(p)
    BY DEF NextAction, NextCommand, NoCommand, restart_processes, Wake, Message,
       HandleProperty, HandleSignal, Handled, Reap
  <2> QED
    BY <2>2, <2>3, <2>4, <2>5, <2>6 DEF Next, MainLoop
<1> QED
  BY <1>1, Inductive, PTL DEF Spec, StoppedStaysStopped
=============================================================================
