\* DevMachine: two scripts, two requests, a drip, and whatever may go
\* wrong, except that pnpm does not end before the server below it.
SPECIFICATION MachineSpec
CONSTANTS
    Nobody = Nobody
    Foreign = Foreign
    Request = {r1, r2}
    Pid = {n1, n2}
    WebPid = {w1, w2}
    Script = {s1, s2}
    Drip = {d1}
    Trouble <- MCTrouble
INVARIANT LoneNodeKept ServerKept FaucetTold
PROPERTY Answered
CHECK_DEADLOCK FALSE
