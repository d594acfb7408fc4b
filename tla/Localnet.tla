------------------------------ MODULE Localnet ------------------------------
(***************************************************************************)
(* apps/web/src/app/api/localnet/route.ts: POST spawns `sui start`         *)
(* detached and records its pid in a state file, DELETE signals the        *)
(* recorded process and removes the file.                                  *)
(*                                                                         *)
(* The handlers run in one Node.js process, so what is between two awaits  *)
(* is one step; at every await other handlers and the node processes come  *)
(* in between.  GET only reads.  DevMachine adds the dev server the         *)
(* handlers run in, which the nodes and the file outlive.                  *)
(*                                                                         *)
(* Trouble says what the environment may do:                               *)
(*   "overlap"  - a request comes while another is in progress             *)
(*   "slow"     - a node takes longer to come up or to exit, or to answer  *)
(*                a probe, than the handlers wait                          *)
(*   "foreign"  - somebody else starts a node on port 9000 (DevMachine)    *)
(*   "parent"   - pnpm ends before the server below it does (DevMachine)   *)
(***************************************************************************)
EXTENDS Naturals

CONSTANTS Request,      \* the POST and DELETE requests
          Pid,          \* the processes the route may spawn (bound)
          Nobody,       \* no process
          Trouble       \* see above

ASSUME LocalnetAssumption ==
    /\ Trouble \subseteq {"overlap", "slow", "foreign", "parent"}
    /\ Nobody \notin Pid

VARIABLES file,         \* the pid in STATE_FILE
          proc,         \* the life of each spawned process
          port,         \* who listens on port 9000
          request       \* the handlers

vars == <<file, proc, port, request>>

Life == {"unborn", "starting", "up", "stopping", "gone"}

(* pidAlive                                                                *)
Alive(p) == p \in Pid /\ proc[p] \in {"starting", "up", "stopping"}

(* The awaits of POST are probe (and closed, its negative answer) and wait *)
(* for the node to come up; the await of DELETE is term.                   *)
Place == {"idle", "probe", "closed", "wait", "term", "answered", "lost"}
Open  == {"probe", "closed", "wait", "term"}

Handler == [pc: Place, pid: Pid \union {Nobody}]

InProgress(r) == request[r].pc \in Open

Goto(r, pc, p) == request' = [request EXCEPT ![r] = [pc |-> pc, pid |-> p]]
Answer(r)      == Goto(r, "answered", request[r].pid)

-----------------------------------------------------------------------------
Init ==
    /\ file = Nobody
    /\ proc = [p \in Pid |-> "unborn"]
    /\ port = Nobody
    /\ request = [r \in Request |-> [pc |-> "idle", pid |-> Nobody]]

Arrives(r) ==
    /\ request[r].pc = "idle"
    /\ "overlap" \in Trouble \/ \A q \in Request : ~InProgress(q)

(* portOpen(9000) answers true only if somebody listens; it gives up after *)
(* 800 ms.                                                                 *)
FoundOpen   == port # Nobody
FoundClosed == port = Nobody \/ "slow" \in Trouble

Post(r) ==
    /\ Arrives(r)
    /\ Goto(r, "probe", Nobody)
    /\ UNCHANGED <<file, proc, port>>

AlreadyRunning(r) ==
    /\ request[r].pc = "probe"
    /\ FoundOpen
    /\ Answer(r)
    /\ UNCHANGED <<file, proc, port>>

NotRunning(r) ==
    /\ request[r].pc = "probe"
    /\ FoundClosed
    /\ Goto(r, "closed", Nobody)
    /\ UNCHANGED <<file, proc, port>>

(* Faulty: the pid is written before the child has one.                    *)
RecordUndefined(p) == "undefined"
(* writeState                                                              *)
Record(p) == p

Spawn(r, p) ==
    /\ request[r].pc = "closed"
    /\ proc[p] = "unborn"
    /\ proc' = [proc EXCEPT ![p] = "starting"]
    /\ file' = Record(p)
    /\ Goto(r, "wait", p)
    /\ UNCHANGED port

(* No sui binary, or no pid: 404 or 500.                                   *)
SpawnFails(r) ==
    /\ request[r].pc = "closed"
    /\ Answer(r)
    /\ UNCHANGED <<file, proc, port>>

CameUp(r) ==
    /\ request[r].pc = "wait"
    /\ FoundOpen
    /\ Answer(r)
    /\ UNCHANGED <<file, proc, port>>

(* 504, after 30 seconds.                                                  *)
DidNotComeUp(r) ==
    /\ request[r].pc = "wait"
    /\ FoundClosed
    /\ "slow" \in Trouble \/ proc[request[r].pid] # "starting"
    /\ Answer(r)
    /\ UNCHANGED <<file, proc, port>>

(* DELETE finds no file, or one that names a process that is gone.         *)
NothingToStop(r) ==
    /\ Arrives(r)
    /\ ~Alive(file)
    /\ file' = Nobody
    /\ Answer(r)
    /\ UNCHANGED <<proc, port>>

Terminate(r) ==
    /\ Arrives(r)
    /\ Alive(file)
    /\ proc' = [proc EXCEPT ![file] = "stopping"]
    /\ Goto(r, "term", file)
    /\ UNCHANGED <<file, port>>

(* Faulty: the wait has no deadline.                                       *)
WaitedForExit(p) == ~Alive(p)

(* The wait ends with the process, or after five seconds.                  *)
WaitedFor(p) == ~Alive(p) \/ "slow" \in Trouble

Stopped(r) ==
    /\ request[r].pc = "term"
    /\ WaitedFor(request[r].pid)
    /\ file' = Nobody
    /\ Answer(r)
    /\ UNCHANGED <<proc, port>>

(* The node processes.                                                     *)
Bind(p) ==
    /\ proc[p] = "starting"
    /\ port = Nobody
    /\ proc' = [proc EXCEPT ![p] = "up"]
    /\ port' = p
    /\ UNCHANGED <<file, request>>

Exit(p) ==
    /\ Alive(p)
    /\ proc' = [proc EXCEPT ![p] = "gone"]
    /\ port' = IF port = p THEN Nobody ELSE port
    /\ UNCHANGED <<file, request>>

Handle(r) ==
    \/ AlreadyRunning(r) \/ NotRunning(r)
    \/ (\E p \in Pid : Spawn(r, p)) \/ SpawnFails(r)
    \/ CameUp(r) \/ DidNotComeUp(r) \/ Stopped(r)

Next ==
    \/ \E r \in Request : Post(r) \/ NothingToStop(r) \/ Terminate(r)
    \/ \E r \in Request : Handle(r)
    \/ \E p \in Pid : Bind(p) \/ Exit(p)

(* Timers fire and promises are continued; nodes need not do anything.     *)
Spec == Init /\ [][Next]_vars /\ \A r \in Request : WF_vars(Handle(r))

-----------------------------------------------------------------------------
TypeOK ==
    /\ file \in Pid \union {Nobody}
    /\ proc \in [Pid -> Life]
    /\ port \in Pid \union {Nobody}
    /\ request \in [Request -> Handler]

(* No node is orphaned: a live process the route spawned is the one in the *)
(* state file, the only one DELETE can reach.                              *)
NoOrphan == \A p \in Pid : Alive(p) => file = p

(* LoneNodeKept: with requests that overlap a node can be lost track of, as *)
(* the file has room for one pid, but not as long as it is the only one     *)
(* that was ever spawned: until a second is, or it is told to stop, it is  *)
(* in the file, whatever comes late and whichever dev server restarts.     *)
LoneNodeKept ==
    \A p \in Pid :
        Alive(p) /\ proc[p] # "stopping" /\ (\A q \in Pid \ {p} : proc[q] = "unborn")
            => file = p

(* Every request is answered, however slow the nodes are, unless the dev   *)
(* server restarts.                                                        *)
Answered ==
    \A r \in Request : InProgress(r) ~> request[r].pc \in {"answered", "lost"}

(* The inductive invariant behind NoOrphan, for requests that come one at  *)
(* a time and nodes that are never late.  Whatever is between unborn and   *)
(* gone has its handler waiting for it or listens.                         *)
OneAtATime ==
    \A r, q \in Request : InProgress(r) /\ InProgress(q) => r = q

Attended ==
    \A p \in Pid :
        /\ proc[p] = "starting" => \E r \in Request : request[r] = [pc |-> "wait", pid |-> p]
        /\ proc[p] = "stopping" => \E r \in Request : request[r] = [pc |-> "term", pid |-> p]
        /\ proc[p] = "up" => port = p
        /\ port = p => proc[p] \in {"up", "stopping"}

NoneAtClosed ==
    \A r \in Request : request[r].pc = "closed" => \A p \in Pid : ~Alive(p)

TermOfFile ==
    \A r \in Request : request[r].pc = "term" => request[r].pid = file

(* RouteInv: of the requests that come one at a time, the one that waits    *)
(* knows the process that starts or stops, the file names the process that *)
(* lives, and after the port was found closed there is none.               *)
RouteInv ==
    TypeOK /\ NoOrphan /\ OneAtATime /\ Attended /\ NoneAtClosed /\ TermOfFile
=============================================================================
