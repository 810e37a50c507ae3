---------------------------- MODULE MCInitServices ----------------------------
\* InitServices for TLC: a daemon and a service that is another daemon or
\* one-shot, a boot script that starts one before and one after the property
\* area exists, and a trigger.
EXTENDS InitServices, TLC

CONSTANTS daemon, other

MCOptions == {[s \in {daemon, other} |-> IF s = daemon THEN {} ELSE f] :
                  f \in {{}, {"ONESHOT"}}}

MCCommands ==
    [early_init |-> << <<"start", daemon>> >>,
     property_init |-> << <<"property_init">> >>,
     boot |-> << <<"start", other>> >>,
     property_service_init |-> << <<"property_service_init">> >>,
     signal_init |-> << <<"signal_init">> >>,
     triggers |-> << <<"queue_property_triggers">> >>,
     reset |-> << <<"stop", daemon>>, <<"start", daemon>> >>]

MCActions == DOMAIN MCCommands

MCBoot == << "early_init", "property_init", "boot", "property_service_init",
             "signal_init", "triggers">>

MCOnState ==
    [c \in {daemon, other} \X {"running", "stopping", "stopped", "restarting"} |->
        IF c = <<other, "stopped">> THEN {"reset"} ELSE {}]
=============================================================================
