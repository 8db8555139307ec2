SPECIFICATION FairSpec
CONSTANT Procs = {p1, p2, p3}
INVARIANTS TypeOK NoStalePid SolePidNamesServer
PROPERTIES ServingIsGraceful SignalEnds
