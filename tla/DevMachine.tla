----------------------------- MODULE DevMachine -----------------------------
(***************************************************************************)
(* A developer's machine: scripts/server.sh, which starts and stops the    *)
(* dev server of the web app, the server's routes localnet and faucet, the  *)
(* page that calls them, and demos that have an account funded.            *)
(*                                                                         *)
(* The pid in web.pid is that of pnpm; the process that listens is a child  *)
(* of it, and only if Trouble has "parent" may it outlive it.  One script   *)
(* runs at a time.  `server.sh web status` and GET of the route only read. *)
(***************************************************************************)
EXTENDS Localnet

CONSTANTS Foreign,      \* a node somebody else starts on port 9000
          Script,       \* runs of server.sh
          WebPid,       \* the dev servers they may start (bound)
          Drip          \* requests for funds

ASSUME DevMachineAssumption ==
    /\ Nobody \notin WebPid
    /\ Foreign \notin Pid \union {Nobody}

VARIABLES pidfile,      \* the pid in web.pid
          web,          \* the life of each pnpm
          child,        \* the life of the dev server below it
          script,       \* what each run of server.sh does, and where it is
          drip          \* who asked which node for funds, and how far it is

webVars     == <<pidfile, web, child, script>>
machineVars == <<file, proc, port, request, pidfile, web, child, script, drip>>

MachineInit ==
    /\ Init
    /\ pidfile = Nobody
    /\ web = [w \in WebPid |-> "unborn"]
    /\ child = [w \in WebPid |-> "unborn"]
    /\ script = [s \in Script |-> [pc |-> "idle", again |-> FALSE]]
    /\ drip = [d \in Drip |-> [pc |-> "idle", by |-> "page", node |-> Nobody, paid |-> 0]]

-----------------------------------------------------------------------------
(* kill -0                                                                 *)
WebAlive(w) == w \in WebPid /\ web[w] = "alive"

(* A dev server runs before it listens on port 3000.                       *)
Runs(w) == child[w] \in {"starting", "up"}
Serving == \E w \in WebPid : child[w] = "up"

At(s, pc)   == script[s].pc = pc
Step(s, pc) == script' = [script EXCEPT ![s] = [pc |-> pc, again |-> FALSE]]
Goes(s, pc) == script' = [script EXCEPT ![s].pc = pc]
Alone(s)    == \A t \in Script \ {s} : script[t].pc \in {"idle", "done"}

(* start and open, which starts the server unless the port is taken; stop, *)
(* and restart, which starts again.                                        *)
Begin(s) ==
    /\ At(s, "idle") /\ Alone(s)
    /\ \/ Step(s, "start")
       \/ Serving /\ Step(s, "done")
       \/ \E again \in BOOLEAN :
             script' = [script EXCEPT ![s] = [pc |-> "stop", again |-> again]]
    /\ UNCHANGED <<pidfile, web, child>>

(* Faulty: a pid file is always taken to be stale.                         *)
NeverRunning == FALSE

ServerRunning == WebAlive(pidfile)

AlreadyStarted(s) ==
    /\ At(s, "start") /\ ServerRunning
    /\ Step(s, "done")
    /\ UNCHANGED <<pidfile, web, child>>

ClearStale(s) ==
    /\ At(s, "start") /\ ~ ServerRunning
    /\ pidfile' = Nobody
    /\ Step(s, "cleared")
    /\ UNCHANGED <<web, child>>

PortTaken(s) ==
    /\ At(s, "cleared") /\ Serving
    /\ Step(s, "done")
    /\ UNCHANGED <<pidfile, web, child>>

Launch(s, w) ==
    /\ At(s, "cleared") /\ ~ Serving
    /\ web[w] = "unborn"
    /\ web' = [web EXCEPT ![w] = "alive"]
    /\ child' = [child EXCEPT ![w] = "starting"]
    /\ pidfile' = w
    /\ Step(s, "wait")

(* The port is taken, or thirty seconds are over.                          *)
Launched(s) ==
    /\ At(s, "wait")
    /\ Serving \/ "slow" \in Trouble \/ child[pidfile] # "starting"
    /\ Step(s, "done")
    /\ UNCHANGED <<pidfile, web, child>>

AfterStop(s) == Step(s, IF script[s].again THEN "start" ELSE "done")

NotStarted(s) ==
    /\ At(s, "stop") /\ ~ WebAlive(pidfile)
    /\ pidfile' = Nobody
    /\ AfterStop(s)
    /\ UNCHANGED <<web, child>>

(* SIGTERM to pnpm and its children, who may end now, as at any time.      *)
Term(s) ==
    /\ At(s, "stop") /\ WebAlive(pidfile)
    /\ Goes(s, "term")
    /\ UNCHANGED <<pidfile, web, child>>

(* The wait is for pnpm alone.                                             *)
Down(s) ==
    /\ At(s, "term") /\ ~ WebAlive(pidfile)
    /\ pidfile' = Nobody
    /\ AfterStop(s)
    /\ UNCHANGED <<web, child>>

Scripts(s) ==
    /\ \/ Begin(s) \/ AlreadyStarted(s) \/ ClearStale(s) \/ PortTaken(s)
       \/ (\E w \in WebPid : Launch(s, w)) \/ Launched(s)
       \/ NotStarted(s) \/ Term(s) \/ Down(s)
    /\ UNCHANGED <<file, proc, port, request, drip>>

-----------------------------------------------------------------------------
Listen(w) ==
    /\ child[w] = "starting" /\ ~ Serving
    /\ child' = [child EXCEPT ![w] = "up"]
    /\ UNCHANGED <<pidfile, web, script, file, proc, port, request, drip>>

(* pnpm ends when its child has, or fails before.                          *)
ParentEnds(w) ==
    /\ WebAlive(w)
    /\ ~ Runs(w) \/ "parent" \in Trouble
    /\ web' = [web EXCEPT ![w] = "gone"]
    /\ UNCHANGED <<pidfile, child, script, file, proc, port, request, drip>>

(* What becomes of a request for funds.                                    *)
Told(d, pc, node, paid) ==
    [pc |-> pc, by |-> drip[d].by, node |-> node, paid |-> paid]
Failed(d) == Told(d, "error", drip[d].node, drip[d].paid)

InProgressDrip(d) == drip[d].pc \in {"asked", "paid"}
OfPage(d)         == drip[d].by = "page"

(* A dev server ends, and its handlers with it.                            *)
ChildEnds(w) ==
    /\ child' = [child EXCEPT ![w] = "gone"]
    /\ IF child[w] = "up"
       THEN /\ request' = [r \in Request |-> IF InProgress(r)
                                             THEN [request[r] EXCEPT !.pc = "lost"]
                                             ELSE request[r]]
            /\ drip' = [d \in Drip |-> IF InProgressDrip(d) /\ OfPage(d)
                                       THEN Failed(d) ELSE drip[d]]
       ELSE UNCHANGED <<request, drip>>
    /\ UNCHANGED <<file, proc, port>>

ServerEnds(w) == Runs(w) /\ ChildEnds(w) /\ UNCHANGED <<pidfile, web, script>>

(* SIGKILL to both after three seconds, if pnpm has not ended.             *)
Killed(s) ==
    /\ At(s, "term") /\ WebAlive(pidfile) /\ "slow" \in Trouble
    /\ web' = [web EXCEPT ![pidfile] = "gone"]
    /\ ChildEnds(pidfile)
    /\ pidfile' = Nobody
    /\ AfterStop(s)

(* The route's handlers and the nodes, as long as somebody serves.         *)
Routes ==
    /\ Next
    /\ Serving \/ UNCHANGED request
    /\ UNCHANGED <<pidfile, web, child, script, drip>>

ForeignNode ==
    /\ "foreign" \in Trouble
    /\ \/ port = Nobody /\ port' = Foreign
       \/ port = Foreign /\ port' = Nobody
    /\ UNCHANGED <<file, proc, request, pidfile, web, child, script, drip>>

-----------------------------------------------------------------------------
(* dripFaucet: the page asks its server, which asks the faucet.  A demo     *)
(* asks the faucet, for an account without coins.                          *)
Ask(d, by) ==
    /\ drip[d].pc = "idle"
    /\ drip' = [drip EXCEPT ![d] = [pc |-> "asked", by |-> by, node |-> port, paid |-> 0]]

AskFaucet(d) == Serving /\ Ask(d, "page")

(* The faucet is part of the node it was asked of.  It pays even when       *)
(* nobody waits.                                                           *)
Pay(d) ==
    /\ drip[d].node = port /\ port # Nobody
    /\ drip' = [drip EXCEPT ![d] = Told(d, IF @.pc = "asked" THEN "paid" ELSE @.pc,
                                        Nobody, @.paid + 1)]

(* No faucet listens, it goes away or it refuses.                          *)
Refuse(d) ==
    /\ drip[d].pc = "asked"
    /\ drip' = [drip EXCEPT ![d] = Told(d, "error", Nobody, @.paid)]

(* The page reports what the faucet answers.  A demo then asks the node for *)
(* the balance, until there is one.                                        *)
Confirm(d) ==
    /\ drip[d].pc = "paid"
    /\ OfPage(d) \/ (port # Nobody /\ drip[d].paid > 0)
    /\ drip' = [drip EXCEPT ![d] = Told(d, "ok", @.node, @.paid)]

(* Faulty: what was not answered is asked again.                           *)
AskAgain(d) == drip' = [drip EXCEPT ![d].node = port, ![d].pc = "asked"]

(* 502, with a hint; a demo ends.                                          *)
GiveUp(d) == drip' = [drip EXCEPT ![d] = Failed(d)]

(* The route waits eight seconds, a demo for forty balances; a node that is *)
(* gone tells none.                                                        *)
FaucetSlow(d) ==
    /\ InProgressDrip(d)
    /\ "slow" \in Trouble \/ (port = Nobody /\ ~ OfPage(d))
    /\ GiveUp(d)

Drips(d) ==
    /\ \/ AskFaucet(d) \/ Ask(d, "demo")
       \/ Pay(d) \/ Refuse(d) \/ Confirm(d) \/ FaucetSlow(d)
    /\ UNCHANGED <<file, proc, port, request, pidfile, web, child, script>>

MachineNext ==
    \/ Routes \/ ForeignNode
    \/ \E s \in Script : Scripts(s) \/ Killed(s)
    \/ \E w \in WebPid : Listen(w) \/ ParentEnds(w) \/ ServerEnds(w)
    \/ \E d \in Drip : Drips(d)

MachineSpec ==
    /\ MachineInit /\ [][MachineNext]_machineVars
    /\ \A r \in Request : WF_vars(Handle(r) /\ Routes)

-----------------------------------------------------------------------------
(* ServerKept: no dev server is lost track of: one that runs is the one     *)
(* below the process in web.pid, the only one `server.sh web stop` reaches, *)
(* whatever was started and stopped before and whoever failed, as long as   *)
(* no pnpm ends before the server below it.                                *)
ServerKept == \A w \in WebPid : Runs(w) => pidfile = w

(* FaucetTold: whoever asks for funds is paid at most once, though the     *)
(* faucet may pay when the route, or the demo, has given up; the page       *)
(* confirms a drip, and a demo goes on, only when it was paid.             *)
FaucetTold == \A d \in Drip : drip[d].paid <= 1 /\ (drip[d].pc = "ok" => drip[d].paid = 1)

(* The inductive invariants behind them.                                   *)
Phase == {"idle", "start", "cleared", "wait", "stop", "term", "done"}

OneScript ==
    \A s, t \in Script :
        script[s].pc \notin {"idle", "done"} /\ script[t].pc \notin {"idle", "done"}
            => s = t

UnderParent == \A w \in WebPid : Runs(w) => WebAlive(w)

ClearedIsNobody == \A s \in Script : At(s, "cleared") => pidfile = Nobody

ServerInv ==
    /\ script \in [Script -> [pc: Phase, again: BOOLEAN]]
    /\ web \in [WebPid -> {"unborn", "alive", "gone"}]
    /\ child \in [WebPid -> {"unborn", "starting", "up", "gone"}]
    /\ ServerKept /\ UnderParent /\ OneScript /\ ClearedIsNobody

Drops == [pc: {"idle", "asked", "paid", "ok", "error"}, by: {"page", "demo"},
          node: Pid \union {Foreign, Nobody}, paid: {0, 1}]

DripInv ==
    /\ drip \in [Drip -> Drops]
    /\ port \in Pid \union {Foreign, Nobody}
    /\ \A d \in Drip : /\ drip[d].node # Nobody => drip[d].paid = 0
                       /\ drip[d].pc \in {"paid", "ok"} => drip[d].paid = 1
=============================================================================
