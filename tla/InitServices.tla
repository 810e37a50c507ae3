----------------------------- MODULE InitServices -----------------------------
(***************************************************************************)
(* init (system/core/init/init.c): the service supervisor and the main     *)
(* loop, which runs one command of the action queue, restarts services,    *)
(* and sleeps in poll until a time-out, a message or the death of a child. *)
(*                                                                         *)
(* Times are seconds that are left: restart_in is time_started + 5,        *)
(* process_needs_restart and the time-out of poll are counted from now.    *)
(* signal_handler.c, builtins.c and init_parser.c are not in the           *)
(* repository: Reap, the boot script and the queue are modelled from how   *)
(* init.c uses them.                                                       *)
(***************************************************************************)
EXTENDS Naturals, Sequences, FiniteSets, SequencesExt

CONSTANTS Services,
          Options,     \* the flags init.rc may give the services
          Pids,        \* process numbers (a bound on the processes alive)
          NoPid, NoService, NoAction,
          Delay,       \* seconds between two starts (5 in the code)
          Actions,     \* the actions of the queue
          Commands,    \* the commands of each: <<"start", s>>, <<"stop", s>>,
                       \* or a builtin of main(), as <<"property_init">>
          Boot,        \* the order in which main() queues actions
          OnState      \* the actions triggered by init.svc.<s> = <state>

ASSUME ServicesAssumption ==
    /\ NoService \notin Services /\ NoPid \notin Pids /\ NoAction \notin Actions
    /\ Options \subseteq [Services -> SUBSET {"DISABLED", "ONESHOT"}]
ASSUME DelayAssumption == Delay \in Nat \ {0}
ASSUME BootAssumption ==
    /\ IsFiniteSet(Actions)
    /\ Commands \in [Actions -> Seq({"start", "stop"} \X Services
                         \cup {<<"property_init">>, <<"property_service_init">>,
                               <<"signal_init">>, <<"queue_property_triggers">>})]
    /\ Boot \in Seq(Actions)
    /\ OnState \in [Services \X {"running", "stopping", "stopped", "restarting"}
                       -> SUBSET Actions]

VARIABLES
    flags,        \* SVC_DISABLED, ONESHOT, RUNNING, RESTARTING of each service
    pid,          \* svc->pid, NoPid for 0
    restart_in,   \* until time_started + 5
    init_svc,     \* the property init.svc.<name>
    owner,        \* whose process each pid is; NoService if it is free
    zombies,      \* processes that have died and are not reaped
    queue,        \* the action queue
    cur_action,
    cur_command,  \* its position in the action, 0 for NULL
    loop,         \* where main() is
    todo,         \* services restart_processes has still to visit
    process_needs_restart,   \* Never for 0
    timeout,      \* of poll
    ready,        \* descriptors poll has reported and main() not yet handled
    sigchld,      \* whether the signal descriptor is readable
    fds,          \* the descriptors polled
    started,      \* "properties" and "triggers", once they are enabled
    uptime        \* until the clock, which starts with the kernel, is at 5

svcVars   == <<flags, pid, restart_in, init_svc>>
procVars  == <<owner, zombies, sigchld>>
queueVars == <<cur_action, cur_command>>
pollVars  == <<todo, process_needs_restart, timeout, ready>>
bootVars  == <<fds, started>>

vars == <<svcVars, procVars, queue, queueVars, loop, pollVars, bootVars, uptime>>

Never == Delay + 1

Init ==
    /\ flags \in Options
    /\ pid = [s \in Services |-> NoPid]
    /\ restart_in = [s \in Services |-> Delay]
    /\ init_svc = [s \in Services |-> "unset"]
    /\ owner = [p \in Pids |-> NoService] /\ zombies = {} /\ sigchld = "no"
    /\ queue = Boot /\ cur_action = NoAction /\ cur_command = 0
    /\ loop = "command" /\ todo = {} /\ process_needs_restart = Never
    /\ timeout = Never /\ ready = {}
    /\ fds = {} /\ started = {}
    /\ uptime = Delay

-----------------------------------------------------------------------------
(* Services.  Each operator gets the queue as the caller leaves it. *)

\* action_add_queue_tail of some actions, in the order init.rc has them, which
\* is any: an action is in the list at most once.
Add(q, new) == \E p \in SetToSeqs(new \ Range(q)) : queue' = q \o p

\* property_set of init.svc.<s>, which comes back as property_changed.
notify_service_state(s, state, q) ==
    /\ init_svc' = IF "properties" \in started
                   THEN [init_svc EXCEPT ![s] = state] ELSE init_svc
    /\ IF started = {"properties", "triggers"}
       THEN Add(q, OnState[<<s, state>>]) ELSE queue' = q

SetFlags(s, off, on) == flags' = [flags EXCEPT ![s] = (@ \ off) \cup on]

\* time_started = 0
StartedLongAgo(s) == restart_in' = [restart_in EXCEPT ![s] = uptime]

StartRunning(s, q) ==
    /\ "RUNNING" \in flags[s]
    /\ SetFlags(s, {"DISABLED", "RESTARTING"}, {})
    /\ StartedLongAgo(s)
    /\ queue' = q
    /\ UNCHANGED <<pid, init_svc, owner>>

\* No console, no executable, or arguments for a service that is not one-shot.
StartRefused(s, q) ==
    /\ "RUNNING" \notin flags[s]
    /\ SetFlags(s, {"RESTARTING"}, {"DISABLED"})
    /\ StartedLongAgo(s)
    /\ queue' = q
    /\ UNCHANGED <<pid, init_svc, owner>>

ForkFails(s, q) ==
    /\ "RUNNING" \notin flags[s]
    /\ SetFlags(s, {"DISABLED", "RESTARTING"}, {})
    /\ StartedLongAgo(s)
    /\ pid' = [pid EXCEPT ![s] = NoPid]
    /\ queue' = q
    /\ UNCHANGED <<init_svc, owner>>

Fork(s, q) ==
    /\ "RUNNING" \notin flags[s]
    /\ SetFlags(s, {"DISABLED", "RESTARTING"}, {"RUNNING"})
    /\ restart_in' = [restart_in EXCEPT ![s] = Delay]
    /\ \E p \in Pids :
           /\ owner[p] = NoService
           /\ owner' = [owner EXCEPT ![p] = s]
           /\ pid' = [pid EXCEPT ![s] = p]
    /\ notify_service_state(s, "running", q)

service_start(s, dynamic_args, q) ==
    /\ \/ StartRunning(s, q) \/ StartRefused(s, q)
       \/ (dynamic_args => "ONESHOT" \in flags[s]) /\ (ForkFails(s, q) \/ Fork(s, q))
    /\ UNCHANGED <<zombies, sigchld, bootVars>>

bad_service_stop1(s, q) ==   \* leaves SVC_RESTARTING
    /\ SetFlags(s, {"RUNNING"}, {"DISABLED"})
    /\ notify_service_state(s, IF pid[s] # NoPid THEN "stopping" ELSE "stopped", q)
    /\ UNCHANGED <<pid, restart_in, procVars, bootVars>>

bad_service_stop2(s, q) ==   \* reports only that it kills
    /\ SetFlags(s, {"RUNNING", "RESTARTING"}, {"DISABLED"})
    /\ IF pid[s] # NoPid THEN UNCHANGED init_svc /\ queue' = q
       ELSE notify_service_state(s, "stopped", q)
    /\ UNCHANGED <<pid, restart_in, procVars, bootVars>>

service_stop(s, q) ==
    /\ SetFlags(s, {"RUNNING", "RESTARTING"}, {"DISABLED"})
    /\ notify_service_state(s, IF pid[s] # NoPid THEN "stopping" ELSE "stopped", q)
    /\ UNCHANGED <<pid, restart_in, procVars, bootVars>>

-----------------------------------------------------------------------------
(* execute_one_command *)

\* queue_all_property_triggers: the actions triggered by the present states.
AllTriggers ==
    UNION {OnState[<<s, init_svc[s]>>] : s \in {r \in Services : init_svc[r] # "unset"}}

builtin(name, q) ==
    /\ fds' = fds \cup (IF name = "property_service_init" THEN {"property"}
                        ELSE IF name = "signal_init" THEN {"signal"} ELSE {})
    /\ started' = started \cup (IF name = "property_init" THEN {"properties"}
                        ELSE IF name = "queue_property_triggers" THEN {"triggers"}
                        ELSE {})
    /\ sigchld' = IF name = "signal_init" /\ zombies # {} THEN "yes" ELSE sigchld
    /\ IF name = "queue_property_triggers" THEN Add(q, AllTriggers) ELSE queue' = q
    /\ UNCHANGED <<svcVars, owner, zombies>>

Run(cmd, q) ==
    \/ cmd[1] = "start" /\ service_start(cmd[2], FALSE, q)
    \/ cmd[1] = "stop" /\ service_stop(cmd[2], q)
    \/ cmd[1] \notin {"start", "stop"} /\ builtin(cmd[1], q)

CommandLeft ==
    /\ cur_action # NoAction
    /\ 0 < cur_command /\ cur_command < Len(Commands[cur_action])

NextAction ==
    /\ loop = "command" /\ ~CommandLeft
    /\ queue # <<>>
    /\ cur_action' = Head(queue)
    /\ IF Commands[Head(queue)] = <<>>
       THEN /\ cur_command' = 0
            /\ queue' = Tail(queue)
            /\ UNCHANGED <<svcVars, procVars, bootVars>>
       ELSE /\ cur_command' = 1
            /\ Run(Commands[Head(queue)][1], Tail(queue))
    /\ loop' = "restart"
    /\ UNCHANGED <<pollVars, uptime>>

NextCommand ==
    /\ loop = "command" /\ CommandLeft
    /\ cur_command' = cur_command + 1
    /\ Run(Commands[cur_action][cur_command + 1], queue)
    /\ loop' = "restart"
    /\ UNCHANGED <<cur_action, pollVars, uptime>>

BadNoCommand ==   \* cur_command keeps pointing into the last action
    /\ loop = "command" /\ ~CommandLeft
    /\ queue = <<>>
    /\ cur_action' = NoAction
    /\ loop' = "restart"
    /\ UNCHANGED <<svcVars, procVars, queue, cur_command, pollVars, bootVars,
                   uptime>>

NoCommand ==
    /\ loop = "command" /\ ~CommandLeft
    /\ queue = <<>>
    /\ cur_action' = NoAction /\ cur_command' = 0
    /\ loop' = "restart"
    /\ UNCHANGED <<svcVars, procVars, queue, pollVars, bootVars, uptime>>

-----------------------------------------------------------------------------
(* restart_processes *)

restart_processes ==
    /\ loop = "restart"
    /\ process_needs_restart' = Never
    /\ todo' = {s \in Services : "RESTARTING" \in flags[s]}
    /\ loop' = "visit"
    /\ UNCHANGED <<svcVars, procVars, queue, queueVars, timeout, ready,
                   bootVars, uptime>>

RestartNow(s) ==
    /\ loop = "visit" /\ s \in todo
    /\ restart_in[s] = 0
    /\ service_start(s, FALSE, queue)
    /\ todo' = todo \ {s}
    /\ UNCHANGED <<queueVars, loop, process_needs_restart, timeout, ready, uptime>>

BadRestartLater(s) ==   \* keeps the last of the services visited
    /\ loop = "visit" /\ s \in todo
    /\ restart_in[s] > 0
    /\ process_needs_restart' = restart_in[s]
    /\ todo' = todo \ {s}
    /\ UNCHANGED <<svcVars, procVars, queue, queueVars, loop, timeout, ready,
                   bootVars, uptime>>

RestartLater(s) ==
    /\ loop = "visit" /\ s \in todo
    /\ restart_in[s] > 0
    /\ process_needs_restart' =
           IF restart_in[s] < process_needs_restart THEN restart_in[s]
           ELSE process_needs_restart
    /\ todo' = todo \ {s}
    /\ UNCHANGED <<svcVars, procVars, queue, queueVars, loop, timeout, ready,
                   bootVars, uptime>>

-----------------------------------------------------------------------------
(* poll *)

BadPoll ==   \* the time-out only for the action queue
    /\ loop = "visit" /\ todo = {}
    /\ timeout' = IF queue # <<>> \/ cur_action # NoAction THEN 0 ELSE Never
    /\ process_needs_restart' = Never
    /\ loop' = "poll"
    /\ UNCHANGED <<svcVars, procVars, queue, queueVars, todo, ready, bootVars,
                   uptime>>

\* process_needs_restart is not read again before restart_processes sets it.

Poll ==
    /\ loop = "visit" /\ todo = {}
    /\ timeout' = IF queue # <<>> \/ cur_action # NoAction THEN 0
                  ELSE process_needs_restart
    /\ process_needs_restart' = Never
    /\ loop' = "poll"
    /\ UNCHANGED <<svcVars, procVars, queue, queueVars, todo, ready, bootVars,
                   uptime>>

Expired  == timeout = 0
Signaled == sigchld = "yes" /\ "signal" \in fds

\* poll returns; a message may have come as well.
Wake ==
    /\ loop = "poll"
    /\ Expired \/ Signaled
    /\ \E messages \in SUBSET (fds \cap {"property"}) :
           ready' = messages \cup (IF Signaled THEN {"signal"} ELSE {})
    /\ loop' = "handle"
    /\ timeout' = Never
    /\ UNCHANGED <<svcVars, procVars, queue, queueVars, todo,
                   process_needs_restart, bootVars, uptime>>

Message ==
    /\ loop = "poll"
    /\ ~Expired /\ ~Signaled
    /\ "property" \in fds
    /\ ready' = {"property"}
    /\ loop' = "handle"
    /\ timeout' = Never
    /\ UNCHANGED <<svcVars, procVars, queue, queueVars, todo,
                   process_needs_restart, bootVars, uptime>>

\* handle_property_set_fd: ctl.start, ctl.stop, any other property, or a
\* message that is refused.
HandleProperty ==
    /\ loop = "handle" /\ "property" \in ready
    /\ ready' = ready \ {"property"}
    /\ \/ \E s \in Services, dynamic_args \in BOOLEAN :
              service_start(s, dynamic_args, queue)
       \/ \E s \in Services : service_stop(s, queue)
       \/ /\ "triggers" \in started
          /\ \E a \in Actions \ Range(Boot) : Add(queue, {a})
          /\ UNCHANGED <<svcVars, procVars, bootVars>>
       \/ UNCHANGED <<svcVars, procVars, queue, bootVars>>
    /\ UNCHANGED <<queueVars, loop, todo, process_needs_restart, timeout, uptime>>

HandleSignal ==
    /\ loop = "handle" /\ "property" \notin ready /\ "signal" \in ready
    /\ ready' = ready \ {"signal"}
    /\ sigchld' = "no"
    /\ loop' = "reap"
    /\ UNCHANGED <<svcVars, owner, zombies, queue, queueVars, todo,
                   process_needs_restart, timeout, bootVars, uptime>>

Handled ==
    /\ \/ loop = "handle" /\ ready = {}
       \/ loop = "reap" /\ zombies = {}
    /\ loop' = "command"
    /\ UNCHANGED <<svcVars, procVars, queue, queueVars, pollVars, bootVars, uptime>>

\* A service died: it will be restarted unless it is one-shot or disabled.
Died(s) ==
    /\ pid' = [pid EXCEPT ![s] = NoPid]
    /\ IF flags[s] \cap {"ONESHOT", "DISABLED"} # {}
       THEN /\ SetFlags(s, {"RUNNING"}, {"DISABLED"})
            /\ notify_service_state(s, "stopped", queue)
       ELSE /\ SetFlags(s, {"RUNNING"}, {"RESTARTING"})
            /\ notify_service_state(s, "restarting", queue)

BadReap(p) ==   \* leaves svc->pid
    /\ loop = "reap" /\ p \in zombies
    /\ zombies' = zombies \ {p}
    /\ owner' = [owner EXCEPT ![p] = NoService]
    /\ UNCHANGED <<svcVars, queue, sigchld, queueVars, loop, pollVars, bootVars, uptime>>

\* waitpid; a process no service has is only removed.
Reap(p) ==
    /\ loop = "reap" /\ p \in zombies
    /\ zombies' = zombies \ {p}
    /\ owner' = [owner EXCEPT ![p] = NoService]
    /\ IF pid[owner[p]] = p
       THEN Died(owner[p]) /\ UNCHANGED restart_in
       ELSE UNCHANGED <<svcVars, queue>>
    /\ UNCHANGED <<sigchld, queueVars, loop, pollVars, bootVars, uptime>>

-----------------------------------------------------------------------------
(* Outside init *)

Exit(p) ==
    /\ owner[p] # NoService /\ p \notin zombies
    /\ zombies' = zombies \cup {p}
    /\ sigchld' = IF "signal" \in fds THEN "yes" ELSE sigchld
    /\ UNCHANGED <<svcVars, owner, queue, queueVars, loop, pollVars, bootVars, uptime>>

Less(n) == IF n = 0 THEN 0 ELSE n - 1
Sooner(n) == IF n = Never THEN Never ELSE Less(n)

Tick ==
    /\ uptime' = Less(uptime)
    /\ restart_in' = [s \in Services |-> Less(restart_in[s])]
    /\ process_needs_restart' = Sooner(process_needs_restart)
    /\ timeout' = Sooner(timeout)
    /\ UNCHANGED <<flags, pid, init_svc, procVars, queue, queueVars, loop, todo,
                   ready, bootVars>>

-----------------------------------------------------------------------------
MainLoop ==
    \/ NextAction \/ NextCommand \/ NoCommand
    \/ restart_processes \/ (\E s \in Services : RestartNow(s) \/ RestartLater(s))
    \/ Poll \/ Wake
    \/ HandleProperty \/ HandleSignal \/ (\E p \in Pids : Reap(p)) \/ Handled

Next == MainLoop \/ Message \/ (\E p \in Pids : Exit(p)) \/ Tick

Spec == Init /\ [][Next]_vars

\* init runs when it can and time passes; no message need come and no service
\* need die.
FairSpec == Spec /\ WF_vars(MainLoop) /\ WF_vars(Tick)

-----------------------------------------------------------------------------
TypeOK ==
    /\ flags \in [Services -> SUBSET {"DISABLED", "ONESHOT", "RUNNING",
                                    "RESTARTING"}]
    /\ pid \in [Services -> Pids \cup {NoPid}]
    /\ restart_in \in [Services -> 0..Delay]
    /\ init_svc \in [Services -> {"unset", "running", "stopping", "stopped",
                                  "restarting"}]
    /\ owner \in [Pids -> Services \cup {NoService}]
    /\ zombies \subseteq {p \in Pids : owner[p] # NoService}
    /\ sigchld \in {"no", "yes"}
    /\ queue \in Seq(Actions)
    /\ cur_action \in Actions \cup {NoAction}
    /\ IF cur_action = NoAction THEN cur_command = 0
       ELSE cur_command \in 0..Len(Commands[cur_action])
    /\ loop \in {"command", "restart", "visit", "poll", "handle", "reap"}
    /\ todo \subseteq Services
    /\ process_needs_restart \in 0..Never /\ timeout \in 0..Never
    /\ ready \subseteq fds /\ fds \subseteq {"property", "signal"}
    /\ started \subseteq {"properties", "triggers"}
    /\ uptime \in 0..Delay

\* service_stop() signals the process group svc->pid: it is one of this
\* service, which init has not reaped, however starts, stops, deaths and reused
\* process numbers follow each other; and a running service has one.
OwnProcess ==
    \A s \in Services :
        /\ pid[s] # NoPid => owner[pid[s]] = s
        /\ "RUNNING" \in flags[s] => pid[s] # NoPid

\* init.svc.<name> says "running" of the services that are, and only of those;
\* one started before the property area existed may have no state.
PublishedState ==
    \A s \in Services :
        /\ init_svc[s] = "running" => "RUNNING" \in flags[s]
        /\ "RUNNING" \in flags[s] => init_svc[s] \in {"running", "unset"}

\* main(): init does not sleep in poll past work it has: a command, a service to
\* restart, whose time may have come while the others were visited, or a child
\* that has died.
NoMissedWork ==
    loop = "poll" =>
        /\ queue # <<>> \/ cur_action # NoAction => timeout = 0
        /\ \A s \in Services : "RESTARTING" \in flags[s] => timeout <= restart_in[s]
        /\ zombies # {} /\ "signal" \in fds => sigchld = "yes"

\* service_stop(): "nor should we attempt to restart": the supervisor starts no
\* service that was stopped, also when it was stopped between its death, the
\* reaping and the end of its five seconds.
StoppedStaysStopped ==
    [][\A s \in Services : loop = "visit" /\ "DISABLED" \in flags[s] =>
           pid'[s] = pid[s]]_vars

\* A service to be restarted is visited after its five seconds and started,
\* refused or left for dead, although no message or signal wakes init.
RestartHappens ==
    \A s \in Services :
        "RESTARTING" \in flags[s] ~> "RESTARTING" \notin flags[s]

\* service_start(): "if they're in the process of exiting, we've ensured that
\* they will immediately restart on exit".  Violated: service_stop has cleared
\* SVC_RUNNING, and a start before the exit forks a second process.
OneProcess ==
    \A s \in Services : Cardinality({p \in Pids : owner[p] = s}) <= 1
=============================================================================
