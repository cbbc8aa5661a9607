SPECIFICATION Spec
CONSTANTS
    Apis = {a1}
    Worker = worker
    Procs = {a1, worker}
    Goals = {g1}
    Remarks = {}
    Clients = {c1}
    Nowhere = Nowhere
    MaxSignals = 0
    MaxMishaps = 0
INVARIANTS
    ConnectedClientsHear
