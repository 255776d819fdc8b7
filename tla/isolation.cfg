CONSTANTS
    a = a  server = server  world = world  All = All  Nobody = Nobody  Dns = Dns
    k1 = k1  k2 = k2
    Callers = {k1, k2}
    Hosts = {a, server, world}
    Server = server
    World = world
    Mentions <- MCMentions
    MaxCommands = 2
    MaxFaults = 1
    MaxCrashes = 1
SPECIFICATION Spec
INVARIANTS TypeOK FlagTrue BlocksHold Manageable RecordLives
PROPERTIES Noticed CleanExit
