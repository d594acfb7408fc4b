\* DevMachine: pnpm ends before the dev server below it.
SPECIFICATION MachineSpec
CONSTANTS
    Nobody = Nobody
    Foreign = Foreign
    Request = {}
    Pid = {}
    WebPid = {w1, w2}
    Script = {s1, s2}
    Drip = {}
    Trouble = {"parent"}
INVARIANT ServerKept
CHECK_DEADLOCK FALSE
