CONSTANTS
    Conns = {c1, c2}
    Watched = {c1}
    Tasks = {t1}
    MaxFE = 1
    MaxBE = 1
    None = None
SPECIFICATION HubSpec
INVARIANTS AuthFirst EntriesAttended
PROPERTY DepartureCleansUp
