CONSTANTS
    daemon = daemon
    other = other
    Services = {daemon, other}
    Options <- MCOptions
    Pids = {p1, p2}
    NoPid = NoPid
    NoService = NoService
    NoAction = NoAction
    Delay = 2
    Actions <- MCActions
    Commands <- MCCommands
    Boot <- MCBoot
    OnState <- MCOnState
SPECIFICATION FairSpec
INVARIANTS TypeOK OwnProcess PublishedState NoMissedWork
PROPERTIES StoppedStaysStopped RestartHappens
