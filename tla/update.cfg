CONSTANTS
    loop = loop  cmd = cmd  client = client  main = main
    MaxVersion = 2
    MaxOffers = 2
    MaxStops = 3
    MaxBackups = 1
    Tasks = {loop, cmd, client}
    Clients = {client}
    Loop = loop
    Main = main
    None = None
    Torn = Torn
SPECIFICATION Spec
INVARIANTS TypeOK InstalledWhole WholeCopy PendingWhole Startable
CHECK_DEADLOCK FALSE
