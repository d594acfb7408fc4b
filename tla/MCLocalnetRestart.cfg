\* DevMachine: the dev server restarts while a node comes up, nothing is late.
SPECIFICATION MachineSpec
CONSTANTS
    Nobody = Nobody
    Foreign = Foreign
    Request = {r1, r2}
    Pid = {n1, n2}
    WebPid = {w1, w2}
    Script = {s1, s2}
    Drip = {}
    Trouble <- Calm
SYMMETRY Symmetry
INVARIANT NoOrphan
CHECK_DEADLOCK FALSE
