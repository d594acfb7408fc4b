-------------------------- MODULE DevMachineProofs --------------------------
(***************************************************************************)
(* Theorems about what runs on a development machine: Localnet and         *)
(* DevMachine, for every set of requests, processes and scripts, and the   *)
(* programs of Demos, for every mix of runs and any number of calls that   *)
(* fail.                                                                   *)
(***************************************************************************)
EXTENDS DevMachine, Demos, DataTheorems

(***************************************************************************)
(* 1. The route.                                                           *)
(***************************************************************************)

(* A handler that goes on is alone in moving.                             *)
LEMMA GotoType ==
    ASSUME TypeOK, NEW r \in Request, NEW pc \in Place,
           NEW p \in Pid \union {Nobody}, Goto(r, pc, p)
    PROVE  /\ request' \in [Request -> Handler]
           /\ request'[r] = [pc |-> pc, pid |-> p]
           /\ request'[r].pc = pc /\ request'[r].pid = p
           /\ \A q \in Request \ {r} : request'[q] = request[q]
<1> DEFINE new == [pc |-> pc, pid |-> p]
<1>1. new \in Handler
  BY DEF Handler
<1>2. request \in [Request -> Handler] /\ request' = [request EXCEPT ![r] = new]
  BY DEF TypeOK, Goto
<1> HIDE DEF new
<1>3. /\ request' \in [Request -> Handler] /\ request'[r] = new
      /\ \A q \in Request \ {r} : request'[q] = request[q]
  BY <1>1, <1>2
<1> QED  BY <1>3 DEF new

(* A handler is a place and a process.                                    *)
LEMMA HandlerType ==
    ASSUME TypeOK, NEW r \in Request
    PROVE  /\ request[r] \in Handler
           /\ request[r] = [pc |-> request[r].pc, pid |-> request[r].pid]
           /\ request[r].pc \in Place /\ request[r].pid \in Pid \union {Nobody}
  BY DEF TypeOK, Handler

(* A handler that answers forgets nothing.                                *)
LEMMA AnswerType ==
    ASSUME TypeOK, NEW r \in Request, Answer(r)
    PROVE  /\ request' \in [Request -> Handler]
           /\ request'[r] = [pc |-> "answered", pid |-> request[r].pid]
           /\ request'[r].pc = "answered" /\ request'[r].pid = request[r].pid
           /\ \A q \in Request \ {r} : request'[q] = request[q]
<1>1. request[r].pid \in Pid \union {Nobody} /\ "answered" \in Place
  BY HandlerType DEF Place
<1>2. Goto(r, "answered", request[r].pid)
  BY DEF Answer
<1> QED  BY <1>1, <1>2, GotoType

(* Every variable starts in its type.                                     *)
LEMMA RouteInitType == Init => TypeOK
  BY DEF Init, TypeOK, Life, Handler, Place

(* Every step keeps the types, action by action.                          *)
LEMMA RouteStepType == TypeOK /\ [Next]_vars => TypeOK'
<1> SUFFICES ASSUME TypeOK, [Next]_vars PROVE TypeOK'
  OBVIOUS
<1>0. /\ file \in Pid \union {Nobody} /\ proc \in [Pid -> Life]
      /\ port \in Pid \union {Nobody} /\ request \in [Request -> Handler]
  BY DEF TypeOK
<1>a. /\ "probe" \in Place /\ "closed" \in Place /\ "wait" \in Place /\ "term" \in Place
      /\ "starting" \in Life /\ "stopping" \in Life /\ "up" \in Life /\ "gone" \in Life
  BY DEF Place, Life
<1>1. ASSUME NEW r \in Request, Post(r) PROVE TypeOK'
  BY <1>0, <1>a, <1>1, GotoType DEF Post, TypeOK
<1>2. ASSUME NEW r \in Request, NothingToStop(r) PROVE TypeOK'
  BY <1>0, <1>2, AnswerType DEF NothingToStop, TypeOK
<1>3. ASSUME NEW r \in Request, Terminate(r) PROVE TypeOK'
  BY <1>0, <1>a, <1>3, GotoType DEF Terminate, TypeOK, Alive
<1>4. ASSUME NEW r \in Request, Handle(r) PROVE TypeOK'
  <2>1. CASE AlreadyRunning(r) \/ SpawnFails(r) \/ CameUp(r) \/ DidNotComeUp(r)
    BY <1>0, <2>1, AnswerType DEF AlreadyRunning, SpawnFails, CameUp, DidNotComeUp, TypeOK
  <2>2. CASE NotRunning(r)
    BY <1>0, <1>a, <2>2, GotoType DEF NotRunning, TypeOK
  <2>3. ASSUME NEW p \in Pid, Spawn(r, p) PROVE TypeOK'
    BY <1>0, <1>a, <2>3, GotoType DEF Spawn, Record, TypeOK
  <2>4. CASE Stopped(r)
    BY <1>0, <2>4, AnswerType DEF Stopped, TypeOK
  <2> QED  BY <1>4, <2>1, <2>2, <2>3, <2>4 DEF Handle
<1>5. ASSUME NEW p \in Pid, Bind(p) \/ Exit(p) PROVE TypeOK'
  BY <1>0, <1>a, <1>5 DEF Bind, Exit, TypeOK
<1>6. CASE UNCHANGED vars
  BY <1>0, <1>6 DEF vars, TypeOK
<1> QED  BY <1>1, <1>2, <1>3, <1>4, <1>5, <1>6 DEF Next

(* The state file, the processes, the port and the requests have their     *)
(* types in every behaviour of the route.                                  *)
THEOREM RouteTypeCorrect == Spec => []TypeOK
  BY RouteInitType, RouteStepType, PTL DEF Spec

(* A request that waits for an exit knows a process that was signalled.    *)
TrackInv ==
    /\ file \in Pid \union {Nobody} /\ proc \in [Pid -> Life]
    /\ request \in [Request -> Handler]
    /\ \A r \in Request : request[r].pc = "term" =>
          request[r].pid \in Pid /\ proc[request[r].pid] \in {"stopping", "gone"}
    /\ LoneNodeKept

(* A handler goes to another place, and no signal is taken back.          *)
LEMMA TrackedGoto ==
    ASSUME TrackInv, NEW r \in Request, NEW pc \in Place, NEW p \in Pid \union {Nobody},
           Goto(r, pc, p), proc' \in [Pid -> Life], file' \in Pid \union {Nobody},
           \A q \in Pid : proc[q] \in {"stopping", "gone"} => proc'[q] \in {"stopping", "gone"},
           pc = "term" => p \in Pid /\ proc'[p] \in {"stopping", "gone"},
           LoneNodeKept'
    PROVE  TrackInv'
<1> DEFINE new == [pc |-> pc, pid |-> p]
<1>1. new \in Handler /\ new.pc = pc /\ new.pid = p
  BY DEF Handler
<1>2. request' = [request EXCEPT ![r] = new]
  BY DEF Goto
<1> HIDE DEF new
<1>3. /\ request' \in [Request -> Handler] /\ request'[r] = new
      /\ \A q \in Request \ {r} : request'[q] = request[q]
  BY <1>1, <1>2 DEF TrackInv
<1>4. ASSUME NEW q \in Request, request'[q].pc = "term"
      PROVE  request'[q].pid \in Pid /\ proc'[request'[q].pid] \in {"stopping", "gone"}
  <2>1. CASE q = r
    BY <1>1, <1>3, <1>4, <2>1
  <2>2. CASE q # r
    BY <1>3, <1>4, <2>2 DEF TrackInv
  <2> QED  BY <2>1, <2>2
<1> QED  BY <1>3, <1>4 DEF TrackInv

(* Every step of the route, action by action.                             *)
LEMMA TrackedRoute ==
    ASSUME TrackInv, Next
    PROVE  TrackInv'
<1>0. /\ file \in Pid \union {Nobody} /\ proc \in [Pid -> Life]
      /\ request \in [Request -> Handler] /\ LoneNodeKept /\ Nobody \notin Pid
  BY LocalnetAssumption DEF TrackInv
<1>p. /\ Place = {"idle", "probe", "closed", "wait", "term", "answered", "lost"}
      /\ {"starting", "up", "stopping", "gone"} \subseteq Life
      /\ \A r \in Request : request[r].pid \in Pid \union {Nobody}
  BY <1>0 DEF Place, Life, Handler
<1>k. file' = file /\ proc' = proc => LoneNodeKept'
  BY <1>0 DEF LoneNodeKept, Alive
<1>1. ASSUME NEW r \in Request,
             \/ Post(r) \/ AlreadyRunning(r) \/ NotRunning(r)
             \/ SpawnFails(r) \/ CameUp(r) \/ DidNotComeUp(r)
      PROVE  TrackInv'
  <2>1. PICK pc \in {"probe", "closed", "answered"}, p \in {request[r].pid, Nobody} :
            Goto(r, pc, p)
    BY <1>1 DEF Post, AlreadyRunning, NotRunning, SpawnFails, CameUp, DidNotComeUp, Answer
  <2>2. file' = file /\ proc' = proc
    BY <1>1 DEF Post, AlreadyRunning, NotRunning, SpawnFails, CameUp, DidNotComeUp
  <2> QED  BY <1>0, <1>p, <1>k, <2>1, <2>2, TrackedGoto
<1>2. ASSUME NEW r \in Request, NothingToStop(r) PROVE TrackInv'
  <2>1. /\ Goto(r, "answered", request[r].pid)
        /\ file' = Nobody /\ proc' = proc /\ ~Alive(file)
    BY <1>2 DEF NothingToStop, Answer
  <2>2. LoneNodeKept'
    BY <1>0, <2>1 DEF LoneNodeKept, Alive
  <2> QED  BY <1>0, <1>p, <2>1, <2>2, TrackedGoto
<1>3. ASSUME NEW r \in Request, Terminate(r) PROVE TrackInv'
  <2>1. /\ Goto(r, "term", file) /\ file \in Pid /\ file' = file
        /\ proc' = [proc EXCEPT ![file] = "stopping"]
    BY <1>3 DEF Terminate, Alive
  <2>2. /\ proc' \in [Pid -> Life] /\ proc'[file] = "stopping"
        /\ \A q \in Pid \ {file} : proc'[q] = proc[q]
    BY <1>0, <1>p, <2>1
  <2>3. LoneNodeKept'
    BY <2>1, <2>2 DEF LoneNodeKept
  <2> QED  BY <1>0, <1>p, <2>1, <2>2, <2>3, TrackedGoto
<1>4. ASSUME NEW r \in Request, NEW p \in Pid, Spawn(r, p) PROVE TrackInv'
  <2>1. /\ Goto(r, "wait", p) /\ proc[p] = "unborn" /\ file' = p
        /\ proc' = [proc EXCEPT ![p] = "starting"]
    BY <1>4 DEF Spawn, Record
  <2>2. /\ proc' \in [Pid -> Life] /\ proc'[p] = "starting"
        /\ \A q \in Pid \ {p} : proc'[q] = proc[q]
    BY <1>0, <1>p, <2>1
  <2>3. LoneNodeKept'
    BY <2>1, <2>2 DEF LoneNodeKept
  <2> QED  BY <1>0, <1>p, <2>1, <2>2, <2>3, TrackedGoto
(* The file is cleared after a signal: the process that was signalled, if  *)
(* no other, was spawned besides any that lives on.                        *)
<1>5. ASSUME NEW r \in Request, Stopped(r) PROVE TrackInv'
  <2>1. /\ Goto(r, "answered", request[r].pid) /\ request[r].pc = "term"
        /\ file' = Nobody /\ proc' = proc
    BY <1>5 DEF Stopped, Answer
  <2>2. request[r].pid \in Pid /\ proc[request[r].pid] \in {"stopping", "gone"}
    BY <2>1 DEF TrackInv
  <2>3. LoneNodeKept'
    BY <2>1, <2>2 DEF LoneNodeKept, Alive
  <2> QED  BY <1>0, <1>p, <2>1, <2>3, TrackedGoto
<1>6. ASSUME NEW p \in Pid, Bind(p) \/ Exit(p) PROVE TrackInv'
  <2>1. /\ file' = file /\ request' = request /\ proc' \in [Pid -> Life]
        /\ \A q \in Pid \ {p} : proc'[q] = proc[q]
        /\ \/ proc[p] = "starting" /\ proc'[p] = "up"
           \/ Alive(p) /\ proc'[p] = "gone"
    BY <1>0, <1>p, <1>6 DEF Bind, Exit
  <2>2. \A q \in Pid : /\ proc'[q] = "unborn" <=> proc[q] = "unborn"
                       /\ proc[q] \in {"stopping", "gone"} => proc'[q] \in {"stopping", "gone"}
                       /\ Alive(q)' /\ proc'[q] # "stopping" => Alive(q) /\ proc[q] # "stopping"
    BY <2>1 DEF Alive
  <2>3. LoneNodeKept'
    BY <1>0, <2>1, <2>2 DEF LoneNodeKept
  <2> QED  BY <2>1, <2>2, <2>3 DEF TrackInv
<1> QED  BY <1>1, <1>2, <1>3, <1>4, <1>5, <1>6 DEF Next, Handle

(* The rest of the machine: handlers are lost with the server that runs    *)
(* them.                                                                   *)
LEMMA TrackedStep ==
    ASSUME TrackInv, [MachineNext]_machineVars
    PROVE  TrackInv'
<1>1. CASE Routes
  BY <1>1, TrackedRoute DEF Routes
<1>2. ASSUME file' = file, proc' = proc, request' \in [Request -> Handler],
             \A r \in Request : request'[r].pc = "term" => request'[r] = request[r]
      PROVE  TrackInv'
  BY <1>2 DEF TrackInv, LoneNodeKept, Alive
<1>3. CASE UNCHANGED <<file, proc, request>>
  BY <1>2, <1>3 DEF TrackInv
<1>4. ASSUME NEW w, ChildEnds(w) PROVE TrackInv'
  <2>1. CASE child[w] = "up"
    <3>1. ASSUME NEW r \in Request
          PROVE  /\ [request[r] EXCEPT !.pc = "lost"] \in Handler
                 /\ [request[r] EXCEPT !.pc = "lost"].pc = "lost"
      BY DEF TrackInv, Handler, Place
    <3>2. request' = [r \in Request |-> IF InProgress(r)
                                        THEN [request[r] EXCEPT !.pc = "lost"]
                                        ELSE request[r]]
      BY <1>4, <2>1 DEF ChildEnds
    <3>3. file' = file /\ proc' = proc
      BY <1>4 DEF ChildEnds
    <3> QED  BY <1>2, <3>1, <3>2, <3>3 DEF TrackInv
  <2>2. CASE child[w] # "up"
    BY <1>3, <1>4, <2>2 DEF ChildEnds
  <2> QED  BY <2>1, <2>2
<1>5. ASSUME NEW s \in Script, Killed(s) PROVE TrackInv'
  BY <1>4, <1>5 DEF Killed
<1>6. ASSUME NEW w \in WebPid, ServerEnds(w) PROVE TrackInv'
  BY <1>4, <1>6 DEF ServerEnds
<1>7. \/ Routes \/ UNCHANGED <<file, proc, request>>
      \/ (\E s \in Script : Killed(s)) \/ (\E w \in WebPid : ServerEnds(w))
  BY DEF MachineNext, ForeignNode, Drips, Scripts, Listen, ParentEnds, machineVars
<1> QED  BY <1>1, <1>3, <1>5, <1>6, <1>7

(* However requests overlap, nodes are late and dev servers restart: as    *)
(* long as the route has spawned one node only, the state file names it    *)
(* until a DELETE tells it to stop.                                        *)
THEOREM LoneNodeKeptHolds == MachineSpec => []LoneNodeKept
<1>1. MachineInit => TrackInv
  BY DEF MachineInit, Init, TrackInv, LoneNodeKept, Alive, Life, Handler, Place
<1>2. TrackInv /\ [MachineNext]_machineVars => TrackInv'
  BY TrackedStep
<1>3. TrackInv => LoneNodeKept
  BY DEF TrackInv
<1> QED  BY <1>1, <1>2, <1>3, PTL DEF MachineSpec

(* No process runs at first.                                              *)
LEMMA RouteInitInv == Init => RouteInv
  BY RouteInitType, LocalnetAssumption
   DEF Init, RouteInv, NoOrphan, OneAtATime, Attended, NoneAtClosed,
     TermOfFile, Alive, InProgress, Open

(* Every step of a calm route keeps the invariant, action by action.      *)
LEMMA RouteStepInv ==
    ASSUME "slow" \notin Trouble, "overlap" \notin Trouble,
           RouteInv, [Next]_vars
    PROVE  RouteInv'
<1>0. /\ TypeOK /\ NoOrphan /\ OneAtATime /\ Attended /\ NoneAtClosed /\ TermOfFile
      /\ proc \in [Pid -> Life] /\ port \in Pid \union {Nobody}
      /\ file \in Pid \union {Nobody} /\ Nobody \notin Pid
  BY LocalnetAssumption DEF RouteInv, TypeOK
<1>t. TypeOK'
  BY <1>0, RouteStepType
<1> DEFINE Good == NoOrphan' /\ OneAtATime' /\ Attended' /\ NoneAtClosed' /\ TermOfFile'
<1> SUFFICES Good
  BY <1>t DEF RouteInv
<1>w. \A p \in Pid :
         /\ proc[p] = "starting" => \E r \in Request :
                 InProgress(r) /\ request[r].pc = "wait" /\ request[r].pid = p
         /\ proc[p] = "stopping" => \E r \in Request :
                 InProgress(r) /\ request[r].pc = "term" /\ request[r].pid = p
         /\ proc[p] = "up" => port = p
         /\ port = p => proc[p] \in {"up", "stopping"}
  <2> SUFFICES ASSUME NEW p \in Pid
               PROVE  /\ proc[p] = "starting" => \E r \in Request :
                           InProgress(r) /\ request[r].pc = "wait" /\ request[r].pid = p
                      /\ proc[p] = "stopping" => \E r \in Request :
                           InProgress(r) /\ request[r].pc = "term" /\ request[r].pid = p
                      /\ proc[p] = "up" => port = p
                      /\ port = p => proc[p] \in {"up", "stopping"}
    OBVIOUS
  <2>1. \A r \in Request : /\ request[r] = [pc |-> "wait", pid |-> p]
                                => InProgress(r) /\ request[r].pc = "wait" /\ request[r].pid = p
                           /\ request[r] = [pc |-> "term", pid |-> p]
                                => InProgress(r) /\ request[r].pc = "term" /\ request[r].pid = p
    BY DEF InProgress, Open
  <2>2. /\ proc[p] = "starting" => \E r \in Request : request[r] = [pc |-> "wait", pid |-> p]
        /\ proc[p] = "stopping" => \E r \in Request : request[r] = [pc |-> "term", pid |-> p]
        /\ proc[p] = "up" => port = p
        /\ port = p => proc[p] \in {"up", "stopping"}
    BY <1>0 DEF Attended
  <2> QED  BY <2>1, <2>2
(* A request arrives only when no other is in progress: nobody waits for a *)
(* process that starts or stops, so there is none.                         *)
<1>a. ASSUME NEW r \in Request, Arrives(r)
      PROVE  /\ \A q \in Request : ~InProgress(q)
             /\ \A p \in Pid : proc[p] # "starting" /\ proc[p] # "stopping"
  BY <1>0, <1>a, <1>w DEF Arrives
(* While a request is in progress it is the only one.                      *)
<1>b. ASSUME NEW r \in Request, InProgress(r), NEW q \in Request \ {r}
      PROVE  ~InProgress(q)
  BY <1>0, <1>b DEF OneAtATime
(* Answering ends the one request there is.                                *)
<1>c. ASSUME NEW r \in Request, InProgress(r), Answer(r), proc' = proc, port' = port,
             \A p \in Pid : proc[p] # "starting" /\ proc[p] # "stopping",
             \A p \in Pid : Alive(p) => file' = p
      PROVE  Good
  <2>1. \A q \in Request : ~InProgress(q)'
    BY <1>0, <1>b, <1>c, AnswerType DEF InProgress, Open
  <2> QED  BY <1>0, <1>c, <2>1 DEF NoOrphan, Alive, OneAtATime, Attended, NoneAtClosed,
              TermOfFile, InProgress, Open
<1>1. ASSUME NEW r \in Request, Post(r) PROVE Good
  <2>1. /\ request'[r].pc = "probe" /\ file' = file /\ proc' = proc /\ port' = port
        /\ \A q \in Request \ {r} : request'[q] = request[q]
    BY <1>0, <1>1, GotoType DEF Post, Place
  <2>2. /\ \A q \in Request : ~InProgress(q)
        /\ \A p \in Pid : proc[p] # "starting" /\ proc[p] # "stopping"
    BY <1>1, <1>a DEF Post
  <2> QED  BY <1>0, <2>1, <2>2 DEF NoOrphan, Alive, OneAtATime, Attended, NoneAtClosed,
              TermOfFile, InProgress, Open
<1>2. ASSUME NEW r \in Request, NothingToStop(r) PROVE Good
  <2>1. /\ \A q \in Request : ~InProgress(q)
        /\ \A p \in Pid : proc[p] # "starting" /\ proc[p] # "stopping"
    BY <1>2, <1>a DEF NothingToStop
  <2>2. /\ request'[r].pc = "answered" /\ proc' = proc /\ port' = port
        /\ \A q \in Request \ {r} : request'[q] = request[q]
    BY <1>0, <1>2, AnswerType DEF NothingToStop
  <2>3. \A p \in Pid : ~Alive(p)
    BY <1>0, <1>2 DEF NothingToStop, NoOrphan
  <2>4. \A q \in Request : ~InProgress(q)'
    BY <2>1, <2>2 DEF InProgress, Open
  <2> QED  BY <1>0, <2>1, <2>2, <2>3, <2>4 DEF NoOrphan, Alive, OneAtATime, Attended,
              NoneAtClosed, TermOfFile, InProgress, Open
<1>3. ASSUME NEW r \in Request, Terminate(r) PROVE Good
  <2>1. /\ \A q \in Request : ~InProgress(q)
        /\ \A p \in Pid : proc[p] # "starting" /\ proc[p] # "stopping"
    BY <1>3, <1>a DEF Terminate
  <2>2. /\ file \in Pid /\ file' = file /\ port' = port
        /\ proc' = [proc EXCEPT ![file] = "stopping"]
        /\ request'[r] = [pc |-> "term", pid |-> file]
        /\ request'[r].pc = "term" /\ request'[r].pid = file
        /\ \A q \in Request \ {r} : request'[q] = request[q]
    BY <1>0, <1>3, GotoType DEF Terminate, Place, Alive
  <2>3. /\ proc'[file] = "stopping"
        /\ \A p \in Pid \ {file} : proc'[p] = proc[p]
    BY <1>0, <2>2
  <2>4. NoOrphan'
    BY <1>0, <2>2, <2>3 DEF NoOrphan, Alive
  <2>5. OneAtATime' /\ NoneAtClosed' /\ TermOfFile'
    BY <1>0, <2>1, <2>2 DEF OneAtATime, NoneAtClosed, TermOfFile, InProgress, Open
  <2>6. Attended'
    BY <1>0, <2>1, <2>2, <2>3 DEF Attended
  <2> QED  BY <2>4, <2>5, <2>6
<1>4. ASSUME NEW r \in Request, AlreadyRunning(r) \/ SpawnFails(r) PROVE Good
  <2>1. /\ request[r].pc \in {"probe", "closed"} /\ InProgress(r) /\ Answer(r)
        /\ file' = file /\ proc' = proc /\ port' = port
    BY <1>4 DEF AlreadyRunning, SpawnFails, InProgress, Open
  <2>2. \A p \in Pid : proc[p] # "starting" /\ proc[p] # "stopping"
    BY <1>0, <1>b, <1>w, <2>1
  <2> QED  BY <1>0, <1>c, <2>1, <2>2 DEF NoOrphan
<1>5. ASSUME NEW r \in Request, NotRunning(r) PROVE Good
  <2>1. /\ request[r].pc = "probe" /\ InProgress(r) /\ port = Nobody
        /\ file' = file /\ proc' = proc /\ port' = port
        /\ request'[r].pc = "closed"
        /\ \A q \in Request \ {r} : request'[q] = request[q]
    BY <1>0, <1>5, GotoType DEF NotRunning, FoundClosed, InProgress, Open, Place
  <2>2. \A p \in Pid : proc[p] # "starting" /\ proc[p] # "stopping" /\ proc[p] # "up"
    BY <1>0, <1>b, <1>w, <2>1
  <2>3. \A q \in Request \ {r} : ~InProgress(q)
    BY <1>b, <2>1
  <2> QED  BY <1>0, <2>1, <2>2, <2>3 DEF NoOrphan, Alive, OneAtATime, Attended,
              NoneAtClosed, TermOfFile, InProgress, Open
<1>6. ASSUME NEW r \in Request, NEW p \in Pid, Spawn(r, p) PROVE Good
  <2>1. /\ request[r].pc = "closed" /\ InProgress(r) /\ file' = p /\ port' = port
        /\ proc' = [proc EXCEPT ![p] = "starting"]
        /\ request'[r] = [pc |-> "wait", pid |-> p]
        /\ request'[r].pc = "wait"
        /\ \A q \in Request \ {r} : request'[q] = request[q]
    BY <1>0, <1>6, GotoType DEF Spawn, Record, InProgress, Open, Place
  <2>2. \A u \in Pid : ~Alive(u)
    BY <1>0, <2>1 DEF NoneAtClosed
  <2>3. proc'[p] = "starting" /\ \A u \in Pid \ {p} : proc'[u] = proc[u]
    BY <1>0, <2>1
  <2>4. \A q \in Request \ {r} : ~InProgress(q)
    BY <1>b, <2>1
  <2>5. NoOrphan' /\ Attended'
    BY <1>0, <2>1, <2>2, <2>3 DEF NoOrphan, Alive, Attended
  <2>6. OneAtATime' /\ NoneAtClosed' /\ TermOfFile'
    BY <1>0, <2>1, <2>4 DEF OneAtATime, NoneAtClosed, TermOfFile, InProgress, Open
  <2> QED  BY <2>5, <2>6
<1>7. ASSUME NEW r \in Request, CameUp(r) \/ DidNotComeUp(r) PROVE Good
  <2>1. /\ request[r].pc = "wait" /\ InProgress(r) /\ Answer(r)
        /\ file' = file /\ proc' = proc /\ port' = port
    BY <1>7 DEF CameUp, DidNotComeUp, InProgress, Open
  <2>2. \A q \in Request : InProgress(q) => q = r
    BY <1>b, <2>1
  <2>3. \A p \in Pid : proc[p] # "stopping"
    BY <1>w, <2>1, <2>2
  <2>4. \A p \in Pid : proc[p] = "starting" => p = request[r].pid
    BY <1>w, <2>2
  <2>5. \A p \in Pid : proc[p] # "starting"
    <3>1. CASE CameUp(r)
      BY <1>0, <1>w, <3>1 DEF CameUp, FoundOpen, NoOrphan, Alive
    <3>2. CASE DidNotComeUp(r)
      BY <2>4, <3>2 DEF DidNotComeUp
    <3> QED  BY <1>7, <3>1, <3>2
  <2> QED  BY <1>0, <1>c, <2>1, <2>3, <2>5 DEF NoOrphan
<1>8. ASSUME NEW r \in Request, Stopped(r) PROVE Good
  <2>1. /\ request[r].pc = "term" /\ InProgress(r) /\ Answer(r)
        /\ proc' = proc /\ port' = port /\ ~Alive(request[r].pid)
        /\ request[r].pid = file
    BY <1>0, <1>8 DEF Stopped, WaitedFor, InProgress, Open, TermOfFile
  <2>2. \A p \in Pid : ~Alive(p)
    BY <1>0, <2>1 DEF NoOrphan
  <2> QED  BY <1>0, <1>c, <2>1, <2>2 DEF Alive
<1>9. ASSUME NEW p \in Pid, Bind(p) PROVE Good
  <2>1. /\ proc[p] = "starting" /\ port' = p /\ port = Nobody
        /\ file' = file /\ request' = request
        /\ proc'[p] = "up" /\ \A u \in Pid \ {p} : proc'[u] = proc[u]
    BY <1>0, <1>9 DEF Bind
  <2>2. NoOrphan' /\ Attended'
    BY <1>0, <2>1 DEF NoOrphan, Alive, Attended
  <2>3. OneAtATime' /\ NoneAtClosed' /\ TermOfFile'
    BY <1>0, <2>1 DEF OneAtATime, NoneAtClosed, TermOfFile, InProgress, Open, Alive
  <2> QED  BY <2>2, <2>3
<1>10. ASSUME NEW p \in Pid, Exit(p) PROVE Good
  <2>1. /\ port' = IF port = p THEN Nobody ELSE port
        /\ file' = file /\ request' = request
        /\ proc'[p] = "gone" /\ \A u \in Pid \ {p} : proc'[u] = proc[u]
    BY <1>0, <1>10 DEF Exit
  <2>2. NoOrphan' /\ Attended'
    BY <1>0, <2>1 DEF NoOrphan, Alive, Attended
  <2>3. OneAtATime' /\ NoneAtClosed' /\ TermOfFile'
    BY <1>0, <2>1 DEF OneAtATime, NoneAtClosed, TermOfFile, InProgress, Open, Alive
  <2> QED  BY <2>2, <2>3
<1>11. CASE UNCHANGED vars
  BY <1>0, <1>11 DEF vars, NoOrphan, Alive, OneAtATime, Attended, NoneAtClosed,
     TermOfFile, InProgress, Open
<1> QED
  BY <1>1, <1>2, <1>3, <1>4, <1>5, <1>6, <1>7, <1>8, <1>9, <1>10, <1>11 DEF Next, Handle

(* If requests come one at a time and no node is late, a live process the  *)
(* route spawned is always the one in the state file, and what makes it so *)
(* holds after every await of every request.                               *)
THEOREM RouteInvariance ==
    ASSUME "slow" \notin Trouble, "overlap" \notin Trouble
    PROVE  Spec => []RouteInv
<1>1. RouteInv /\ [Next]_vars => RouteInv'
  BY RouteStepInv
<1> QED  BY <1>1, RouteInitInv, PTL DEF Spec

(* So the route never loses track of a node.                               *)
THEOREM NoOrphanHolds ==
    ASSUME "slow" \notin Trouble, "overlap" \notin Trouble
    PROVE  Spec => []NoOrphan
<1>1. RouteInv => NoOrphan
  BY DEF RouteInv
<1> QED  BY <1>1, RouteInvariance, PTL

-----------------------------------------------------------------------------
(***************************************************************************)
(* 2. The scripts.                                                         *)
(***************************************************************************)

(* No dev server and no script runs at first.                             *)
LEMMA ServerInitInv == MachineInit => ServerInv
  BY DEF MachineInit, ServerInv, ServerKept, UnderParent, OneScript, ClearedIsNobody,
     At, Runs, Phase

(* Every step of the machine keeps the invariant, action by action.       *)
LEMMA ServerStepInv ==
    ASSUME "parent" \notin Trouble, ServerInv, [MachineNext]_machineVars
    PROVE  ServerInv'
<1> DEFINE Parents  == [WebPid -> {"unborn", "alive", "gone"}]
           Children == [WebPid -> {"unborn", "starting", "up", "gone"}]
           Doing    == [pc: Phase, again: BOOLEAN]
           Servers  == /\ web' \in Parents /\ child' \in Children
                       /\ ServerKept' /\ UnderParent'
<1>0. /\ script \in [Script -> Doing] /\ web \in Parents /\ child \in Children
      /\ ServerKept /\ UnderParent /\ OneScript /\ ClearedIsNobody
      /\ Nobody \notin WebPid
  BY DevMachineAssumption DEF ServerInv
<1> SUFFICES /\ script' \in [Script -> Doing] /\ Servers
             /\ OneScript' /\ ClearedIsNobody'
  BY DEF ServerInv
<1> DEFINE Good == /\ script' \in [Script -> Doing] /\ Servers
                   /\ OneScript' /\ ClearedIsNobody'
<1> SUFFICES Good
  OBVIOUS
(* Whatever leaves the servers and the pid file alone.                     *)
<1>k. UNCHANGED <<pidfile, web, child>> => Servers
  BY <1>0 DEF ServerKept, UnderParent, Runs, WebAlive
(* What is below a process that is gone is gone.                           *)
<1>n. ~ WebAlive(pidfile) => \A w \in WebPid : ~ Runs(w)
  BY <1>0 DEF ServerKept, UnderParent
<1>f. ASSUME ~ WebAlive(pidfile), UNCHANGED <<web, child>>, pidfile' = Nobody
      PROVE  Servers
  BY <1>0, <1>f, <1>n DEF ServerKept, UnderParent, Runs, WebAlive
(* A script takes a step: it is the only one that is doing something.      *)
<1>a. ASSUME NEW s \in Script, NEW pc \in Phase, NEW again \in BOOLEAN,
             script' = [script EXCEPT ![s] = [pc |-> pc, again |-> again]],
             \A t \in Script \ {s} : script[t].pc \in {"idle", "done"},
             Servers, pc = "cleared" => pidfile' = Nobody
      PROVE  Good
  <2> DEFINE new == [pc |-> pc, again |-> again]
  <2>1. new \in Doing /\ new.pc = pc
    OBVIOUS
  <2> HIDE DEF new
  <2>2. /\ script' \in [Script -> Doing]
        /\ script'[s].pc = pc
        /\ \A t \in Script \ {s} : script'[t] = script[t]
    <3>1. script' = [script EXCEPT ![s] = new]
      BY <1>a DEF new
    <3> QED  BY <1>0, <2>1, <3>1
  <2>3. OneScript'
    BY <1>a, <2>2 DEF OneScript
  <2>4. ClearedIsNobody'
    BY <1>a, <2>2 DEF ClearedIsNobody, At
  <2> QED  BY <1>a, <2>2, <2>3, <2>4
(* The script that is doing something is alone.                            *)
<1>b. ASSUME NEW s \in Script, script[s].pc \notin {"idle", "done"}
      PROVE  \A t \in Script \ {s} : script[t].pc \in {"idle", "done"}
  BY <1>0, <1>b DEF OneScript
<1>p. {"idle", "start", "cleared", "wait", "stop", "term", "done"} \subseteq Phase
  BY DEF Phase
(* The end of a stop: what was in web.pid is gone.                         *)
<1>c. ASSUME NEW s \in Script, AfterStop(s), script[s].pc \in {"stop", "term"}, Servers
      PROVE  Good
  <2>1. PICK pc \in {"start", "done"} :
            script' = [script EXCEPT ![s] = [pc |-> pc, again |-> FALSE]]
    BY <1>c DEF AfterStop, Step
  <2> HIDE DEF Good, Servers
  <2> QED  BY <1>a, <1>b, <1>c, <1>p, <2>1
<1> HIDE DEF Good, Servers, Parents, Children
<1>1. ASSUME NEW s \in Script, Begin(s) PROVE Good
  <2>1. PICK pc \in {"start", "done", "stop"}, again \in BOOLEAN :
            script' = [script EXCEPT ![s] = [pc |-> pc, again |-> again]]
    BY <1>1 DEF Begin, Step
  <2>2. UNCHANGED <<pidfile, web, child>> /\ Alone(s)
    BY <1>1 DEF Begin
  <2> QED  BY <1>a, <1>k, <1>p, <2>1, <2>2 DEF Alone
<1>2. ASSUME NEW s \in Script, AlreadyStarted(s) \/ PortTaken(s) \/ Launched(s) PROVE Good
  <2>1. /\ script' = [script EXCEPT ![s] = [pc |-> "done", again |-> FALSE]]
        /\ script[s].pc \in {"start", "cleared", "wait"}
        /\ UNCHANGED <<pidfile, web, child>>
    BY <1>2 DEF AlreadyStarted, PortTaken, Launched, Step, At
  <2> QED  BY <1>a, <1>b, <1>k, <1>p, <2>1
<1>3. ASSUME NEW s \in Script, ClearStale(s) PROVE Good
  <2>1. /\ script' = [script EXCEPT ![s] = [pc |-> "cleared", again |-> FALSE]]
        /\ script[s].pc = "start"
        /\ UNCHANGED <<web, child>> /\ pidfile' = Nobody /\ ~ WebAlive(pidfile)
    BY <1>3 DEF ClearStale, ServerRunning, Step, At
  <2> QED  BY <1>a, <1>b, <1>f, <1>p, <2>1
(* A server is launched when none runs.                                    *)
<1>4. ASSUME NEW s \in Script, NEW w \in WebPid, Launch(s, w) PROVE Good
  <2>1. /\ script' = [script EXCEPT ![s] = [pc |-> "wait", again |-> FALSE]]
        /\ script[s].pc = "cleared"
        /\ web' = [web EXCEPT ![w] = "alive"] /\ pidfile' = w
        /\ child' = [child EXCEPT ![w] = "starting"]
    BY <1>4 DEF Launch, Step, At
  <2>2. \A v \in WebPid : ~ Runs(v)
    BY <1>0, <1>n, <2>1 DEF ClearedIsNobody, At, WebAlive
  <2>3. /\ web' \in Parents /\ web'[w] = "alive"
        /\ child' \in Children /\ \A v \in WebPid \ {w} : child'[v] = child[v]
    BY <1>0, <2>1 DEF Parents, Children
  <2>4. Servers
    BY <2>1, <2>2, <2>3 DEF Servers, ServerKept, UnderParent, Runs, WebAlive
  <2> QED  BY <1>a, <1>b, <1>p, <2>1, <2>4
<1>5. ASSUME NEW s \in Script, NotStarted(s) \/ Down(s) PROVE Good
  <2>1. /\ AfterStop(s) /\ script[s].pc \in {"stop", "term"}
        /\ UNCHANGED <<web, child>> /\ pidfile' = Nobody /\ ~ WebAlive(pidfile)
    BY <1>5 DEF NotStarted, Down, At
  <2> QED  BY <1>c, <1>f, <2>1
<1>6. ASSUME NEW s \in Script, Term(s) PROVE Good
  <2>1. /\ script[s].pc = "stop" /\ script' = [script EXCEPT ![s].pc = "term"]
        /\ UNCHANGED <<pidfile, web, child>>
    BY <1>6 DEF Term, At, Goes
  <2>2. PICK again \in BOOLEAN :
            script' = [script EXCEPT ![s] = [pc |-> "term", again |-> again]]
    <3>1. \A x \in Doing : [x EXCEPT !.pc = "term"] = [pc |-> "term", again |-> x.again]
      OBVIOUS
    <3>2. script[s] \in Doing /\ script[s].again \in BOOLEAN
      BY <1>0
    <3>3. script' = [script EXCEPT ![s] = [script[s] EXCEPT !.pc = "term"]]
      BY <2>1
    <3> QED  BY <3>1, <3>2, <3>3
  <2>3. \A t \in Script \ {s} : script[t].pc \in {"idle", "done"}
    BY <1>b, <2>1
  <2>4. "term" \in Phase /\ Servers
    BY <1>k, <2>1 DEF Phase
  <2> QED  BY <1>a, <2>2, <2>3, <2>4
(* The one that is killed is the only one that can run.                    *)
<1>7. ASSUME NEW s \in Script, Killed(s) PROVE Good
  <2>1. /\ script[s].pc = "term" /\ AfterStop(s) /\ pidfile' = Nobody
        /\ pidfile \in WebPid
        /\ web' = [web EXCEPT ![pidfile] = "gone"]
        /\ child' = [child EXCEPT ![pidfile] = "gone"]
    BY <1>7 DEF Killed, ChildEnds, At, WebAlive
  <2>2. /\ web' \in Parents /\ child' \in Children /\ child'[pidfile] = "gone"
        /\ \A v \in WebPid \ {pidfile} : child'[v] = child[v]
    BY <1>0, <2>1 DEF Parents, Children
  <2>3. \A v \in WebPid : ~ Runs(v)'
    BY <1>0, <2>2 DEF ServerKept, Runs
  <2>4. Servers
    BY <2>2, <2>3 DEF Servers, ServerKept, UnderParent
  <2> QED  BY <1>c, <2>1, <2>4
(* What happens to a server while no script moves.                         *)
<1>d. ASSUME script' = script, pidfile' = pidfile, Servers PROVE Good
  BY <1>0, <1>d DEF Good, OneScript, ClearedIsNobody, At
<1>8. ASSUME NEW w \in WebPid, Listen(w) \/ ServerEnds(w) PROVE Good
  <2>1. /\ script' = script /\ pidfile' = pidfile /\ web' = web /\ Runs(w)
        /\ child' \in Children /\ \A v \in WebPid \ {w} : child'[v] = child[v]
    BY <1>0, <1>8 DEF Listen, ServerEnds, ChildEnds, Runs, Children
  <2>2. \A v \in WebPid : Runs(v)' => Runs(v)
    BY <2>1 DEF Runs
  <2>3. Servers
    BY <1>0, <2>1, <2>2 DEF Servers, ServerKept, UnderParent, WebAlive
  <2> QED  BY <1>d, <2>1, <2>3
<1>9. ASSUME NEW w \in WebPid, ParentEnds(w) PROVE Good
  <2>1. /\ script' = script /\ pidfile' = pidfile /\ child' = child /\ ~ Runs(w)
        /\ web' \in Parents /\ \A v \in WebPid \ {w} : web'[v] = web[v]
    BY <1>0, <1>9 DEF ParentEnds, Parents
  <2>2. Servers
    BY <1>0, <2>1 DEF Servers, ServerKept, UnderParent, WebAlive, Runs
  <2> QED  BY <1>d, <2>1, <2>2
<1>10. CASE UNCHANGED <<pidfile, web, child, script>>
  BY <1>d, <1>k, <1>10
<1>11. \/ UNCHANGED <<pidfile, web, child, script>>
       \/ \E w \in WebPid : Listen(w) \/ ParentEnds(w) \/ ServerEnds(w)
       \/ \E s \in Script : Scripts(s) \/ Killed(s)
  BY DEF MachineNext, Routes, ForeignNode, Drips, machineVars
<1> QED  BY <1>1, <1>2, <1>3, <1>4, <1>5, <1>6, <1>7, <1>8, <1>9, <1>10, <1>11
            DEF Scripts

(* However server.sh starts, stops and restarts the dev server, and        *)
(* whoever fails meanwhile: if pnpm does not end before the server below   *)
(* it, a server that runs is the one below the process in web.pid.         *)
THEOREM ServerKeptHolds ==
    ASSUME "parent" \notin Trouble
    PROVE  MachineSpec => []ServerKept
<1>1. ServerInv /\ [MachineNext]_machineVars => ServerInv'
  BY ServerStepInv
<1>2. ServerInv => ServerKept
  BY DEF ServerInv
<1> QED  BY <1>1, <1>2, ServerInitInv, PTL DEF MachineSpec

-----------------------------------------------------------------------------
(***************************************************************************)
(* 3. The faucet.                                                          *)
(***************************************************************************)

(* One request for funds is set to new, and the others are left alone.     *)
LEMMA DripSet ==
    ASSUME DripInv, NEW d \in Drip, NEW new \in Drops,
           new.node # Nobody => new.paid = 0,
           new.pc \in {"paid", "ok"} => new.paid = 1,
           drip' = [drip EXCEPT ![d] = new],
           port' = port
    PROVE  DripInv'
<1>1. /\ drip' \in [Drip -> Drops] /\ drip'[d] = new
      /\ \A e \in Drip \ {d} : drip'[e] = drip[e]
  BY DEF DripInv
<1> QED  BY <1>1 DEF DripInv

(* Every step keeps what is said of a drip, action by action.             *)
LEMMA DripStepInv ==
    ASSUME DripInv, [MachineNext]_machineVars
    PROVE  DripInv'
<1>0. /\ drip \in [Drip -> Drops] /\ port \in Pid \union {Foreign, Nobody}
      /\ \A d \in Drip : /\ drip[d].node # Nobody => drip[d].paid = 0
                         /\ drip[d].pc \in {"paid", "ok"} => drip[d].paid = 1
  BY DEF DripInv
<1>1. ASSUME NEW d \in Drip, NEW by \in {"page", "demo"}, Ask(d, by), port' = port
      PROVE  DripInv'
  <2> DEFINE new == [pc |-> "asked", by |-> by, node |-> port, paid |-> 0]
  <2>1. new \in Drops /\ new.paid = 0 /\ new.pc = "asked"
    BY <1>0 DEF Drops
  <2>2. drip' = [drip EXCEPT ![d] = new]
    BY <1>1 DEF Ask
  <2> HIDE DEF new
  <2> QED  BY <1>1, <2>1, <2>2, DripSet
<1>2. ASSUME NEW d \in Drip, Pay(d), port' = port PROVE DripInv'
  <2> DEFINE pc  == IF drip[d].pc = "asked" THEN "paid" ELSE drip[d].pc
             new == [pc |-> pc, by |-> drip[d].by, node |-> Nobody, paid |-> 1]
  <2>1. drip[d].node # Nobody
    BY <1>2 DEF Pay
  <2>2. drip[d].paid = 0 /\ drip[d].pc \notin {"paid", "ok"} /\ drip[d] \in Drops
    BY <1>0, <2>1
  <2>3. new \in Drops /\ new.node = Nobody /\ new.paid = 1
    BY <2>2 DEF Drops
  <2>4. drip' = [drip EXCEPT ![d] = new]
    BY <1>2, <2>2 DEF Pay, Told
  <2>5. (new.node # Nobody => new.paid = 0) /\ (new.pc \in {"paid", "ok"} => new.paid = 1)
    BY <2>3
  <2> HIDE DEF new
  <2> QED  BY ONLY DripInv, <1>2, <2>3, <2>4, <2>5, DripSet
(* A request that ends with an error, or with what it was already told.    *)
<1>3. ASSUME NEW d \in Drip, NEW pc \in {"error", "ok"}, port' = port,
             pc = "ok" => drip[d].paid = 1, NEW node \in {drip[d].node, Nobody},
             drip' = [drip EXCEPT ![d] = Told(d, pc, node, drip[d].paid)]
      PROVE  DripInv'
  <2> DEFINE new == Told(d, pc, node, drip[d].paid)
  <2>1. drip[d] \in Drops
    BY <1>0
  <2>2. /\ new \in Drops
        /\ new.node # Nobody => new.paid = 0
        /\ new.pc \in {"paid", "ok"} => new.paid = 1
    BY <1>0, <1>3, <2>1 DEF Drops, Told
  <2> HIDE DEF new
  <2>3. drip' = [drip EXCEPT ![d] = new]
    BY <1>3 DEF new
  <2> QED  BY ONLY DripInv, <1>3, <2>2, <2>3, DripSet
<1>5. ASSUME drip' = drip, port' \in Pid \union {Foreign, Nobody} PROVE DripInv'
  BY <1>0, <1>5 DEF DripInv
<1>4. ASSUME NEW w, ChildEnds(w) PROVE DripInv'
  <2>0. CASE child[w] # "up"
    BY <1>0, <1>4, <1>5, <2>0 DEF ChildEnds
  <2> SUFFICES ASSUME child[w] = "up" PROVE DripInv'
    BY <2>0
  <2>1. /\ port' = port
        /\ drip' = [d \in Drip |-> IF InProgressDrip(d) /\ OfPage(d)
                                   THEN Failed(d) ELSE drip[d]]
    BY <1>4 DEF ChildEnds
  <2>2. ASSUME NEW d \in Drip
        PROVE  /\ Failed(d) \in Drops /\ Failed(d).pc = "error"
               /\ Failed(d).node = drip[d].node /\ Failed(d).paid = drip[d].paid
    BY <1>0 DEF Drops, Failed, Told
  <2>3. ASSUME NEW d \in Drip
        PROVE  /\ drip'[d] \in Drops
               /\ drip'[d].node # Nobody => drip'[d].paid = 0
               /\ drip'[d].pc \in {"paid", "ok"} => drip'[d].paid = 1
    <3>1. drip'[d] = drip[d] \/ drip'[d] = Failed(d)
      BY <2>1
    <3> QED  BY <1>0, <2>2, <3>1
  <2>4. drip' \in [Drip -> Drops]
    <3>1. drip' = [d \in Drip |-> drip'[d]]
      BY <2>1
    <3> QED  BY <2>3, <3>1
  <2> QED  BY <1>0, <2>1, <2>3, <2>4 DEF DripInv
<1>6. CASE Routes
  BY <1>0, <1>5, <1>6 DEF Routes, Next, Post, NothingToStop, Terminate, Handle,
     AlreadyRunning, NotRunning, Spawn, SpawnFails, CameUp, DidNotComeUp, Stopped, Bind, Exit
<1>7. CASE ForeignNode
  BY <1>5, <1>7 DEF ForeignNode
<1>8. ASSUME NEW d \in Drip, Drips(d) PROVE DripInv'
  <2>1. port' = port
    BY <1>8 DEF Drips
  <2>2. CASE AskFaucet(d) \/ Ask(d, "demo")
    BY <1>1, <2>1, <2>2 DEF AskFaucet
  <2>3. CASE Pay(d)
    BY <1>2, <2>1, <2>3
  <2>4. CASE Refuse(d)
    BY <1>3, <2>1, <2>4 DEF Refuse
  <2>5. CASE Confirm(d)
    BY <1>0, <1>3, <2>1, <2>5 DEF Confirm
  <2>6. CASE FaucetSlow(d)
    BY <1>3, <2>1, <2>6 DEF FaucetSlow, GiveUp, Failed
  <2> QED  BY <1>8, <2>2, <2>3, <2>4, <2>5, <2>6 DEF Drips
<1>9. CASE UNCHANGED <<drip, port>>
  BY <1>0, <1>5, <1>9
<1>10. \/ Routes \/ ForeignNode \/ UNCHANGED <<drip, port>> \/ (\E w : ChildEnds(w))
       \/ (\E d \in Drip : Drips(d))
  BY DEF MachineNext, Scripts, Killed, Listen, ParentEnds, ServerEnds, machineVars
<1> QED  BY <1>4, <1>6, <1>7, <1>8, <1>9, <1>10

(* Nobody has asked for funds at first.                                   *)
LEMMA DripInitInv == MachineInit => DripInv
  BY DEF MachineInit, Init, DripInv, Drops

(* However the nodes, the routes and the scripts fail: nobody is paid      *)
(* twice, and nobody is told of funds that were not paid.                  *)
THEOREM FaucetToldHolds == MachineSpec => []FaucetTold
<1>1. DripInv /\ [MachineNext]_machineVars => DripInv'
  BY DripStepInv
<1>2. DripInv => FaucetTold
  BY DEF DripInv, FaucetTold, Drops
<1> QED  BY <1>1, <1>2, DripInitInv, PTL DEF MachineSpec

-----------------------------------------------------------------------------
(***************************************************************************)
(* 4. What a demo program must be like.                                    *)
(***************************************************************************)

(* What a call of the program adds; a comparison adds nothing.             *)
Compared(c)   == c.do \in {"equals", "atLeast"}
Touches(c, x) == ~Compared(c) /\ x \in DOMAIN c.adds
Gain(c, x)    == IF Touches(c, x) THEN c.adds[x] ELSE 0

(* What the first k steps of a scenario add up to.                         *)
IsTotal(f, s, x) ==
    /\ f \in [0 .. Len(s.steps) -> Int] /\ f[0] = 0
    /\ \A k \in 1 .. Len(s.steps) : f[k] = f[k - 1] + Gain(s.steps[k], x)
Total(s, x) == CHOOSE f : IsTotal(f, s, x)

(* The ids that a scenario leaves in variables.                            *)
Gives(s, u) ==
    \E k \in 1 .. Len(s.steps) : s.steps[k].do = "tx" /\ u \in DOMAIN s.steps[k].adds

(* A scenario that reads no id, and so fails only by itself.               *)
Root(s) == ~s.nested /\ \A k \in 1 .. Len(s.steps) : s.steps[k].uses = {}

(* No call of the scenario may fail unnoticed.                             *)
Steady(s) == \A k \in 1 .. Len(s.steps) : s.steps[k].do # "offer"

(* The scenario that is to be refused.                                     *)
Negative(s) == s.name = "pq-guard-neg"

(* The calls of a scenario are of the kinds that Demos knows; only what is *)
(* in spent is ever taken from.                                            *)
CallsTyped(s, spent) ==
    /\ Len(s.steps) \in Nat
    /\ \A k \in 1 .. Len(s.steps) :
         /\ s.steps[k].do \in {"fund", "tx", "aborts", "offer", "query", "equals",
                               "atLeast", "offline"}
         /\ \A x \in DOMAIN s.steps[k].adds :
               /\ s.steps[k].adds[x] \in Int
               /\ ~Compared(s.steps[k]) /\ x \notin spent => s.steps[k].adds[x] >= 0
         /\ s.steps[k].do = "query" => DOMAIN s.steps[k].adds = {}

(* What it says is what its calls add up to, and what it compares is what  *)
(* they add up to so far.                                                  *)
SumsUp(s, spent) ==
    /\ \A x \in DOMAIN s.says : /\ s.says[x] \in Int /\ x \notin spent /\ Steady(s)
                                /\ Total(s, x)[Len(s.steps)] >= s.says[x]
    /\ \A k \in 1 .. Len(s.steps) :
         Compared(s.steps[k]) =>
            /\ Steady(s)
            /\ \A x \in DOMAIN s.steps[k].adds :
                  IF s.steps[k].do = "equals"
                  THEN Total(s, x)[k - 1] = s.steps[k].adds[x]
                  ELSE Total(s, x)[k - 1] >= s.steps[k].adds[x]

(* A transaction that is to abort is the only call of the negative control.*)
AbortsInControl(s) ==
    /\ \A k \in 1 .. Len(s.steps) : s.steps[k].do = "aborts" => Negative(s)
    /\ Negative(s) =>
         /\ s.nested
         /\ \A k \in 1 .. Len(s.steps) :
              /\ s.steps[k].do = "aborts"
              /\ \A x \in DOMAIN s.says : /\ x \in DOMAIN s.steps[k].adds
                                          /\ s.steps[k].adds[x] >= s.says[x]

(* No scenario before the ith changes x.                                   *)
Untouched(P, i, x) ==
    \A j \in 1 .. Len(P.scenarios) : j < i =>
       \A k \in 1 .. Len(P.scenarios[j].steps) : ~Touches(P.scenarios[j].steps[k], x)

(* Where the kth step of scenario i has the id u from.                     *)
Sourced(P, i, k, u) ==
    \/ \E m \in 1 .. k - 1 : /\ P.scenarios[i].steps[m].do = "tx"
                             /\ u \in DOMAIN P.scenarios[i].steps[m].adds
    \/ P.scenarios[i].nested /\ Gives(P.scenarios[i - 1], u)
    \/ /\ ~Negative(P.scenarios[i])
       /\ \E j \in 1 .. i - 1 : Root(P.scenarios[j]) /\ Gives(P.scenarios[j], u)

(* The setup changes nothing and reads no id.                              *)
SetupPlain(T) ==
    /\ Len(T) \in Nat
    /\ \A k \in 1 .. Len(T) :
          T[k].do \in {"query", "fund"} /\ T[k].uses = {} /\ DOMAIN T[k].adds = {}

(* What the argument needs to know of the ith scenario of a program.       *)
Fits(P, spent, i) ==
    /\ P.scenarios[i].nested \in BOOLEAN
    /\ P.scenarios[i].nested => i > 1 /\ ~P.scenarios[i - 1].nested
    /\ CallsTyped(P.scenarios[i], spent)
    /\ SumsUp(P.scenarios[i], spent)
    /\ AbortsInControl(P.scenarios[i])
    /\ \A k \in 1 .. Len(P.scenarios[i].steps) :
         /\ Compared(P.scenarios[i].steps[k]) =>
               \A x \in DOMAIN P.scenarios[i].steps[k].adds : Untouched(P, i, x)
         /\ \A u \in P.scenarios[i].steps[k].uses : Sourced(P, i, k, u)

(* Every scenario fits, after a setup that changes nothing.                *)
WellMade(P, spent) ==
    /\ SetupPlain(P.setup)
    /\ Len(P.scenarios) \in Nat
    /\ \A i \in 1 .. Len(P.scenarios) : Fits(P, spent, i)

(* The gains of typed calls are integers, so there is a table of totals.   *)
LEMMA TotalIs ==
    ASSUME NEW s, NEW spent, CallsTyped(s, spent), NEW x
    PROVE  IsTotal(Total(s, x), s, x)
<1> DEFINE n == Len(s.steps)
           G == [k \in 1 .. n |-> [v \in Int |-> v + Gain(s.steps[k], x)]]
<1>1. n \in Nat /\ \A k \in 1 .. n : Gain(s.steps[k], x) \in Int
  BY DEF CallsTyped, Gain, Touches
<1>2. ClosedUnder(Int, 0, n, G)
  BY <1>1 DEF ClosedUnder
<1>3. PICK f : Iterate(f, Int, 0, n, 0, G)
  <2>1. n \in Nat => 0 \in Nat /\ 0 <= n /\ 0 \in Int
    OBVIOUS
  <2> HIDE DEF G, n
  <2>2. n \in Nat
    BY <1>1
  <2>. QED  BY <1>2, <2>1, <2>2, Iterates
<1>4. \A k \in 1 .. n : \A v \in Int : G[k][v] = v + Gain(s.steps[k], x)
  OBVIOUS
<1>5. n \in Nat
  BY <1>1
<1> HIDE DEF G, n
<1>6. f \in [0 .. n -> Int] /\ f[0] = 0 /\ \A k \in 1 .. n : f[k] = G[k][f[k - 1]]
  BY <1>3 DEF Iterate
<1>7. \A k \in 1 .. n : k - 1 \in 0 .. n
  BY <1>5
<1>8. IsTotal(f, s, x)
  BY <1>4, <1>6, <1>7 DEF IsTotal, n
<1>. QED  BY <1>8 DEF Total

(* The totals as facts.                                                    *)
LEMMA Totals ==
    ASSUME NEW s, NEW spent, CallsTyped(s, spent), NEW x
    PROVE  /\ \A k \in 0 .. Len(s.steps) : Total(s, x)[k] \in Int
           /\ Total(s, x)[0] = 0
           /\ \A k \in 1 .. Len(s.steps) :
                 /\ Gain(s.steps[k], x) \in Int
                 /\ x \notin spent => Gain(s.steps[k], x) >= 0
                 /\ Total(s, x)[k] = Total(s, x)[k - 1] + Gain(s.steps[k], x)
<1>1. IsTotal(Total(s, x), s, x)
  BY TotalIs
<1>2. \A k \in 1 .. Len(s.steps) : /\ Gain(s.steps[k], x) \in Int
                                   /\ x \notin spent => Gain(s.steps[k], x) >= 0
  BY DEF CallsTyped, Gain, Touches
<1>. QED  BY <1>1, <1>2 DEF IsTotal

(* What there is of x once adds are added.                                 *)
LEMMA OfWith ==
    ASSUME NEW h, NEW adds, \A x \in DOMAIN h : h[x] \in Int,
           \A x \in DOMAIN adds : adds[x] \in Int
    PROVE  /\ \A x : Of(With(h, adds), x) = Of(h, x) + Of(adds, x)
           /\ \A x : Of(h, x) \in Int /\ Of(adds, x) \in Int
           /\ \A x \in DOMAIN With(h, adds) : With(h, adds)[x] \in Int
  BY DEF Of, With

(* The totals of the first steps.                                          *)
LEMMA FirstTotals ==
    ASSUME NEW s, NEW spent, CallsTyped(s, spent), NEW x
    PROVE  LET T == Total(s, x)
               g(k) == Gain(s.steps[k], x)
               n == Len(s.steps)
           IN  /\ T[0] = 0
               /\ n >= 1 => T[1] = T[0] + g(1)
               /\ n >= 2 => T[2] = T[1] + g(2)
               /\ n >= 3 => T[3] = T[2] + g(3)
               /\ n >= 4 => T[4] = T[3] + g(4)
               /\ n >= 5 => T[5] = T[4] + g(5)
               /\ n >= 6 => T[6] = T[5] + g(6)
               /\ n >= 7 => T[7] = T[6] + g(7)
               /\ n >= 8 => T[8] = T[7] + g(8)
               /\ n >= 9 => T[9] = T[8] + g(9)
<1> DEFINE n == Len(s.steps)
           T == Total(s, x)
           g(k) == Gain(s.steps[k], x)
<1>1. n \in Nat
  BY DEF CallsTyped
<1>2. T[0] = 0 /\ \A k \in 1 .. n : T[k] = T[k - 1] + g(k)
  BY Totals
<1> HIDE DEF n, T, g
<1>3. /\ n >= 1 => T[1] = T[0] + g(1)
      /\ n >= 2 => T[2] = T[1] + g(2)
      /\ n >= 3 => T[3] = T[2] + g(3)
  BY <1>1, <1>2
<1>4. /\ n >= 4 => T[4] = T[3] + g(4)
      /\ n >= 5 => T[5] = T[4] + g(5)
      /\ n >= 6 => T[6] = T[5] + g(6)
  BY <1>1, <1>2
<1>5. /\ n >= 7 => T[7] = T[6] + g(7)
      /\ n >= 8 => T[8] = T[7] + g(8)
      /\ n >= 9 => T[9] = T[8] + g(9)
  BY <1>1, <1>2
<1>. QED  BY <1>2, <1>3, <1>4, <1>5 DEF n, T, g

(* The variables that a scenario compares.                                 *)
Comparing(s, X) ==
    \A k \in 1 .. Len(s.steps) : Compared(s.steps[k]) => DOMAIN s.steps[k].adds \subseteq X

(* The ids that a scenario reads and does not make itself.                 *)
OwnIds(s, ids) ==
    \A k \in 1 .. Len(s.steps) : \A u \in s.steps[k].uses :
       \/ u \in ids
       \/ \E m \in 1 .. k - 1 : s.steps[m].do = "tx" /\ u \in DOMAIN s.steps[m].adds

(* What a scenario leaves alone.                                           *)
Spares(s, X) == \A k \in 1 .. Len(s.steps) : \A x \in X : ~Touches(s.steps[k], x)

(* What a scenario must be in any program.                                 *)
Sound(s, spent, X, ids) ==
    /\ CallsTyped(s, spent) /\ SumsUp(s, spent) /\ AbortsInControl(s)
    /\ Comparing(s, X) /\ OwnIds(s, ids)

(* A scenario of its own, and not the negative control.                    *)
Plain(s) == s.nested = FALSE /\ ~Negative(s)

-----------------------------------------------------------------------------
(***************************************************************************)
(* 5. The scenarios of the demo programs, one by one.                      *)
(***************************************************************************)

(* The vocabulary of the scripts is that of this section.                  *)
USE DEF Call, Scenario, None, Own, A, Active, Query, Equals, AtLeast, Offer, Tampered, fund,
        fundedKeypair, faucet, pqExec, run, pqRun, executeTx, publishPackage, publishWithDeps,
        publishPkg, publish, LwaTransfer, buildLwaTransfer, startWalrus, put, getText

(* A scenario without calls, or with one query, fits everywhere.           *)
LEMMA QuietMade ==
    ASSUME NEW s, NEW spent, s.steps = <<>> \/ s.steps = <<Query({})>>,
           s.says = None, ~Negative(s)
    PROVE  Sound(s, spent, {}, {}) /\ \A X : Spares(s, X)
<1>1. /\ Len(s.steps) \in {0, 1}
      /\ Len(s.steps) = 1 => s.steps[1].do = "query" /\ s.steps[1].uses = {}
                             /\ DOMAIN s.steps[1].adds = {}
      /\ DOMAIN s.says = {}
  <2>1. CASE s.steps = <<>>
    BY <2>1
  <2>2. CASE s.steps = <<Query({})>>
    BY <2>2
  <2>. QED  BY <2>1, <2>2
<1>2. \A k \in 1 .. Len(s.steps) :
         s.steps[k].do = "query" /\ s.steps[k].uses = {} /\ DOMAIN s.steps[k].adds = {}
  BY <1>1
<1>. QED  BY <1>1, <1>2 DEF Sound, CallsTyped, SumsUp, AbortsInControl, Comparing, OwnIds,
                            Spares, Compared, Touches

(* The total of a single call.                                             *)
LEMMA TotalOfOne ==
    ASSUME NEW s, NEW spent, CallsTyped(s, spent), Len(s.steps) = 1, NEW x
    PROVE  Total(s, x)[1] = Gain(s.steps[1], x)
<1>1. Total(s, x)[0] = 0 /\ Total(s, x)[1] = Total(s, x)[0] + Gain(s.steps[1], x)
  BY FirstTotals
<1>2. Gain(s.steps[1], x) \in Int
  BY DEF CallsTyped, Gain, Touches
<1>. QED  BY <1>1, <1>2

(* A scenario of one transaction that says what it adds.                   *)
LEMMA OneCallMade ==
    ASSUME NEW s, NEW spent, NEW by, NEW a, s.steps = <<Call("tx", by, {}, a)>>,
           s.says = a, ~Negative(s),
           \A x \in DOMAIN a : a[x] \in Nat /\ x \notin spent
    PROVE  /\ Sound(s, spent, {}, {})
           /\ \A X : X \cap DOMAIN a = {} => Spares(s, X)
<1>1. /\ Len(s.steps) = 1 /\ s.steps[1].do = "tx" /\ s.steps[1].uses = {}
      /\ s.steps[1].adds = a
  OBVIOUS
<1>2. \A k \in 1 .. Len(s.steps) :
         s.steps[k].do = "tx" /\ s.steps[k].uses = {} /\ s.steps[k].adds = a
  BY <1>1
<1>3. CallsTyped(s, spent)
  BY <1>1, <1>2 DEF CallsTyped
<1>4. \A x \in DOMAIN a : Total(s, x)[1] = a[x]
  <2> SUFFICES ASSUME NEW x \in DOMAIN a PROVE Total(s, x)[1] = a[x]
    OBVIOUS
  <2>1. Gain(s.steps[1], x) = a[x] /\ a[x] \in Int
    BY <1>1 DEF Gain, Touches, Compared
  <2>2. Total(s, x)[1] = Gain(s.steps[1], x)
    BY <1>1, <1>3, TotalOfOne
  <2>. QED  BY <2>1, <2>2
<1>5. SumsUp(s, spent)
  BY <1>1, <1>2, <1>4 DEF SumsUp, Compared, Steady
<1>. QED  BY <1>1, <1>2, <1>3, <1>5 DEF Sound, AbortsInControl, Comparing, OwnIds, Spares,
                                        Compared, Touches

(* transfer-sui: the recipient has what it was sent.                        *)
LEMMA TransferSuiMade ==
    /\ Sound(TransferSui, {"nft", "vault"}, {"B"}, {})
    /\ Spares(TransferSui, {"C", "counter", "nftOfB"}) /\ Plain(TransferSui)
<1>1. Len(TransferSui.steps) = 2 /\ CallsTyped(TransferSui, {"nft", "vault"})
  BY SMTT(60) DEF CallsTyped, Compared, TransferSui
<1>2. Gain(TransferSui.steps[1], "B") = 50 /\ Gain(TransferSui.steps[2], "B") = 0
  BY SMTT(60) DEF Gain, Touches, Compared, TransferSui
<1>3. Total(TransferSui, "B")[1] = 50 /\ Total(TransferSui, "B")[2] = 50
  BY <1>1, <1>2, FirstTotals, SMTT(60)
<1>4. /\ TransferSui.steps[2].do = "equals" /\ DOMAIN TransferSui.steps[2].adds = {"B"}
      /\ TransferSui.steps[2].adds["B"] = 50 /\ DOMAIN TransferSui.says = {"B"}
      /\ TransferSui.says["B"] = 50
      /\ \A k \in 1 .. 2 : Compared(TransferSui.steps[k]) => k = 2
      /\ Steady(TransferSui) /\ AbortsInControl(TransferSui) /\ Plain(TransferSui)
  BY SMTT(60) DEF Compared, Steady, AbortsInControl, Plain,
                  Negative, TransferSui
<1>5. SumsUp(TransferSui, {"nft", "vault"})
  BY <1>1, <1>3, <1>4 DEF SumsUp
<1>6. Comparing(TransferSui, {"B"})
  BY <1>1, <1>4 DEF Comparing
<1>7. OwnIds(TransferSui, {})
  BY SMTT(60) DEF OwnIds, TransferSui
<1>8. Spares(TransferSui, {"C", "counter", "nftOfB"})
  BY SMTT(60) DEF Spares, Touches, Compared, TransferSui
<1>. QED  BY <1>1, <1>4, <1>5, <1>6, <1>7, <1>8 DEF Sound

(* pay-multiple: two recipients, the second one is compared.                *)
LEMMA PayMultipleMade ==
    /\ Sound(PayMultiple, {"nft", "vault"}, {"C"}, {})
    /\ Spares(PayMultiple, {"counter", "nftOfB"}) /\ Plain(PayMultiple)
<1>1. Len(PayMultiple.steps) = 2 /\ CallsTyped(PayMultiple, {"nft", "vault"})
  BY SMTT(60) DEF CallsTyped, Compared, PayMultiple
<1>2. /\ Gain(PayMultiple.steps[1], "B") = 20 /\ Gain(PayMultiple.steps[2], "B") = 0
      /\ Gain(PayMultiple.steps[1], "C") = 30 /\ Gain(PayMultiple.steps[2], "C") = 0
  BY SMTT(60) DEF Gain, Touches, Compared, PayMultiple
<1>3. /\ Total(PayMultiple, "B")[2] = 20 /\ Total(PayMultiple, "C")[1] = 30
      /\ Total(PayMultiple, "C")[2] = 30
  <2>1. Total(PayMultiple, "B")[2] = 20
    BY <1>1, <1>2, FirstTotals, SMTT(60)
  <2>2. Total(PayMultiple, "C")[1] = 30 /\ Total(PayMultiple, "C")[2] = 30
    BY <1>1, <1>2, FirstTotals, SMTT(60)
  <2>. QED  BY <2>1, <2>2
<1>4. /\ PayMultiple.steps[2].do = "equals" /\ DOMAIN PayMultiple.steps[2].adds = {"C"}
      /\ PayMultiple.steps[2].adds["C"] = 30 /\ DOMAIN PayMultiple.says = {"B", "C"}
      /\ PayMultiple.says["B"] = 20 /\ PayMultiple.says["C"] = 30
      /\ \A k \in 1 .. 2 : Compared(PayMultiple.steps[k]) => k = 2
      /\ Steady(PayMultiple) /\ AbortsInControl(PayMultiple) /\ Plain(PayMultiple)
  BY SMTT(60) DEF Compared, Steady, AbortsInControl, Plain,
                  Negative, PayMultiple
<1>5. SumsUp(PayMultiple, {"nft", "vault"})
  BY <1>1, <1>3, <1>4 DEF SumsUp
<1>6. Comparing(PayMultiple, {"C"})
  BY <1>1, <1>4 DEF Comparing
<1>7. OwnIds(PayMultiple, {})
  BY SMTT(60) DEF OwnIds, PayMultiple
<1>8. Spares(PayMultiple, {"counter", "nftOfB"})
  BY SMTT(60) DEF Spares, Touches, Compared, PayMultiple
<1>. QED  BY <1>1, <1>4, <1>5, <1>6, <1>7, <1>8 DEF Sound

(* coin-merge: the coins are one.                                           *)
LEMMA CoinMergeMade ==
    /\ Sound(CoinMerge, {"nft", "vault"}, {}, {}) /\ Plain(CoinMerge)
    /\ Spares(CoinMerge, {"counter", "nftOfB"})
<1> DEFINE a == [merged |-> 1]
<1>1. CoinMerge.steps = <<Call("tx", A, {}, a)>> /\ CoinMerge.says = a /\ Plain(CoinMerge)
  BY DEF CoinMerge, Plain, Negative
<1>2. \A x \in DOMAIN a : a[x] \in Nat /\ x \notin {"nft", "vault"}
  OBVIOUS
<1>3. {"counter", "nftOfB"} \cap DOMAIN a = {}
  OBVIOUS
<1> HIDE DEF a
<1>. QED  BY <1>1, <1>2, <1>3, OneCallMade DEF Plain

(* publish: the package that two later scenarios use.                       *)
LEMMA PublishMade ==
    /\ Sound(Publish, {"nft", "vault"}, {}, {}) /\ Plain(Publish)
    /\ Spares(Publish, {"counter", "nftOfB"}) /\ Root(Publish)
    /\ Gives(Publish, "counterPkg")
<1> DEFINE a == [counterPkg |-> 1]
<1>1. Publish.steps = <<Call("tx", A, {}, a)>> /\ Publish.says = a /\ Plain(Publish)
  BY DEF Publish, Plain, Negative
<1>2. \A x \in DOMAIN a : a[x] \in Nat /\ x \notin {"nft", "vault"}
  OBVIOUS
<1>3. {"counter", "nftOfB"} \cap DOMAIN a = {}
  OBVIOUS
<1>4. Root(Publish) /\ Gives(Publish, "counterPkg")
  BY DEF Publish, Root, Gives
<1> HIDE DEF a
<1>. QED  BY <1>1, <1>2, <1>3, <1>4, OneCallMade DEF Plain

(* movecall: of the package that publish made; a counter, stepped once.     *)
LEMMA MoveCallMade ==
    /\ Sound(MoveCall, {"nft", "vault"}, {"counter"}, {"counterPkg"})
    /\ Spares(MoveCall, {"nftOfB"}) /\ Plain(MoveCall)
<1>1. Len(MoveCall.steps) = 3 /\ CallsTyped(MoveCall, {"nft", "vault"})
  BY SMTT(60) DEF CallsTyped, Compared, MoveCall
<1>2. /\ Gain(MoveCall.steps[1], "counter") = 1
      /\ Gain(MoveCall.steps[2], "counter") = 1
      /\ Gain(MoveCall.steps[3], "counter") = 0
  BY SMTT(60) DEF Gain, Touches, Compared, MoveCall
<1>3. Total(MoveCall, "counter")[2] = 2 /\ Total(MoveCall, "counter")[3] = 2
  BY <1>1, <1>2, FirstTotals, SMTT(60)
<1>4. /\ MoveCall.steps[3].do = "equals" /\ DOMAIN MoveCall.steps[3].adds = {"counter"}
      /\ MoveCall.steps[3].adds["counter"] = 2 /\ DOMAIN MoveCall.says = {"counter"}
      /\ MoveCall.says["counter"] = 2
      /\ \A k \in 1 .. 3 : Compared(MoveCall.steps[k]) => k = 3
      /\ Steady(MoveCall) /\ AbortsInControl(MoveCall) /\ Plain(MoveCall)
  BY SMTT(60) DEF Compared, Steady, AbortsInControl, Plain,
                  Negative, MoveCall
<1>5. SumsUp(MoveCall, {"nft", "vault"})
  BY <1>1, <1>3, <1>4 DEF SumsUp
<1>6. Comparing(MoveCall, {"counter"})
  BY <1>1, <1>4 DEF Comparing
<1>7. OwnIds(MoveCall, {"counterPkg"})
  <2>1. /\ MoveCall.steps[1].do = "tx" /\ DOMAIN MoveCall.steps[1].adds = {"counter"}
        /\ MoveCall.steps[2].do = "tx" /\ DOMAIN MoveCall.steps[2].adds = {"counter"}
        /\ MoveCall.steps[1].uses = {"counterPkg"}
        /\ MoveCall.steps[2].uses = {"counter", "counterPkg"}
        /\ \A k \in 1 .. 3 : MoveCall.steps[k].uses # {} => k = 1 \/ k = 2
    BY SMTT(60) DEF MoveCall
  <2>. QED  BY <1>1, <2>1, SMTT(60) DEF OwnIds
<1>8. Spares(MoveCall, {"nftOfB"})
  BY SMTT(60) DEF Spares, Touches, Compared, MoveCall
<1>. QED  BY <1>1, <1>4, <1>5, <1>6, <1>7, <1>8 DEF Sound

(* nft+transfer: the token is gone here, and the recipient has one.         *)
LEMMA NftTransferMade ==
    Sound(NftTransfer, {"nft", "vault"}, {"nftOfB"}, {}) /\ Plain(NftTransfer)
<1>1. Len(NftTransfer.steps) = 4 /\ CallsTyped(NftTransfer, {"nft", "vault"})
  BY SMTT(60) DEF CallsTyped, Compared, NftTransfer
<1>2. /\ Gain(NftTransfer.steps[1], "nftOfB") = 0
      /\ Gain(NftTransfer.steps[2], "nftOfB") = 0
      /\ Gain(NftTransfer.steps[3], "nftOfB") = 1
      /\ Gain(NftTransfer.steps[4], "nftOfB") = 0
  BY SMTT(60) DEF Gain, Touches, Compared, NftTransfer
<1>3. Total(NftTransfer, "nftOfB")[3] = 1 /\ Total(NftTransfer, "nftOfB")[4] = 1
  BY <1>1, <1>2, FirstTotals, SMTT(60)
<1>4. /\ NftTransfer.steps[4].do = "equals"
      /\ DOMAIN NftTransfer.steps[4].adds = {"nftOfB"}
      /\ NftTransfer.steps[4].adds["nftOfB"] = 1 /\ DOMAIN NftTransfer.says = {"nftOfB"}
      /\ NftTransfer.says["nftOfB"] = 1
      /\ \A k \in 1 .. 4 : Compared(NftTransfer.steps[k]) => k = 4
      /\ Steady(NftTransfer) /\ AbortsInControl(NftTransfer) /\ Plain(NftTransfer)
  BY SMTT(60) DEF Compared, Steady, AbortsInControl, Plain,
                  Negative, NftTransfer
<1>5. SumsUp(NftTransfer, {"nft", "vault"})
  BY <1>1, <1>3, <1>4 DEF SumsUp
<1>6. Comparing(NftTransfer, {"nftOfB"})
  BY <1>1, <1>4 DEF Comparing
<1>7. OwnIds(NftTransfer, {})
  <2>1. /\ NftTransfer.steps[1].do = "tx" /\ DOMAIN NftTransfer.steps[1].adds = {"nftPkg"}
        /\ NftTransfer.steps[2].do = "tx" /\ DOMAIN NftTransfer.steps[2].adds = {"nft"}
        /\ NftTransfer.steps[3].do = "tx" /\ DOMAIN NftTransfer.steps[3].adds = {"nft", "nftOfB"}
        /\ NftTransfer.steps[2].uses = {"nftPkg"} /\ NftTransfer.steps[3].uses = {"nft"}
        /\ \A k \in 1 .. 4 : NftTransfer.steps[k].uses # {} => k = 2 \/ k = 3
    BY SMTT(60) DEF NftTransfer
  <2>. QED  BY <1>1, <2>1, SMTT(60) DEF OwnIds
<1>. QED  BY <1>1, <1>4, <1>5, <1>6, <1>7 DEF Sound

(* coin-mint: the treasury that it publishes mints.                         *)
LEMMA CoinMintMade ==
    Sound(CoinMint, {"nft", "vault"}, {}, {}) /\ Plain(CoinMint)
<1>1. Len(CoinMint.steps) = 2 /\ CallsTyped(CoinMint, {"nft", "vault"})
  BY SMTT(60) DEF CallsTyped, Compared, CoinMint
<1>2. /\ Gain(CoinMint.steps[1], "minted") = 0
      /\ Gain(CoinMint.steps[2], "minted") = 1000
  BY SMTT(60) DEF Gain, Touches, Compared, CoinMint
<1>3. Total(CoinMint, "minted")[2] = 1000
  BY <1>1, <1>2, FirstTotals, SMTT(60)
<1>4. /\ DOMAIN CoinMint.says = {"minted"} /\ CoinMint.says["minted"] = 1000
      /\ \A k \in 1 .. 2 : Compared(CoinMint.steps[k]) => FALSE
      /\ Steady(CoinMint) /\ AbortsInControl(CoinMint) /\ Plain(CoinMint)
  BY SMTT(60) DEF Compared, Steady, AbortsInControl, Plain,
                  Negative, CoinMint
<1>5. SumsUp(CoinMint, {"nft", "vault"})
  BY <1>1, <1>3, <1>4 DEF SumsUp
<1>6. Comparing(CoinMint, {})
  BY <1>1, <1>4 DEF Comparing
<1>7. OwnIds(CoinMint, {})
  <2>1. /\ CoinMint.steps[1].do = "tx" /\ DOMAIN CoinMint.steps[1].adds = {"coinPkg", "treasury"}
        /\ CoinMint.steps[2].uses = {"coinPkg", "treasury"}
        /\ \A k \in 1 .. 2 : CoinMint.steps[k].uses # {} => k = 2
    BY SMTT(60) DEF CoinMint
  <2>. QED  BY <1>1, <2>1, SMTT(60) DEF OwnIds
<1>. QED  BY <1>1, <1>4, <1>5, <1>6, <1>7 DEF Sound

(* multi-ptb: uses the package that publish made.                           *)
LEMMA MultiPtbMade ==
    Sound(MultiPtb, {"nft", "vault"}, {}, {"counterPkg"}) /\ Plain(MultiPtb)
<1>1. Len(MultiPtb.steps) = 1 /\ CallsTyped(MultiPtb, {"nft", "vault"})
  BY SMTT(60) DEF CallsTyped, Compared, MultiPtb
<1>2. Gain(MultiPtb.steps[1], "second") = 1
  BY SMTT(60) DEF Gain, Touches, Compared, MultiPtb
<1>3. Total(MultiPtb, "second")[1] = 1
  BY <1>1, <1>2, FirstTotals, SMTT(60)
<1>4. /\ DOMAIN MultiPtb.says = {"second"} /\ MultiPtb.says["second"] = 1
      /\ \A k \in 1 .. 1 : Compared(MultiPtb.steps[k]) => FALSE
      /\ Steady(MultiPtb) /\ AbortsInControl(MultiPtb) /\ Plain(MultiPtb)
  BY SMTT(60) DEF Compared, Steady, AbortsInControl, Plain,
                  Negative, MultiPtb
<1>5. SumsUp(MultiPtb, {"nft", "vault"})
  BY <1>1, <1>3, <1>4 DEF SumsUp
<1>6. Comparing(MultiPtb, {})
  BY <1>1, <1>4 DEF Comparing
<1>7. OwnIds(MultiPtb, {"counterPkg"})
  <2>1. /\ MultiPtb.steps[1].uses = {"counterPkg"}
        /\ \A k \in 1 .. 1 : MultiPtb.steps[k].uses # {} => k = 1
    BY SMTT(60) DEF MultiPtb
  <2>. QED  BY <1>1, <2>1, SMTT(60) DEF OwnIds
<1>. QED  BY <1>1, <1>4, <1>5, <1>6, <1>7 DEF Sound

(* shared+pq-on-pq: the witness is the second change of the identity.       *)
LEMMA SharedPqOnPqMade ==
    Sound(SharedPqOnPq, {"nft", "vault"}, {}, {}) /\ Plain(SharedPqOnPq)
<1>1. Len(SharedPqOnPq.steps) = 6 /\ CallsTyped(SharedPqOnPq, {"nft", "vault"})
  BY SMTT(60) DEF CallsTyped, Compared, SharedPqOnPq
<1>2. /\ Gain(SharedPqOnPq.steps[1], "identity") = 0
      /\ Gain(SharedPqOnPq.steps[2], "identity") = 0
      /\ Gain(SharedPqOnPq.steps[3], "identity") = 1
      /\ Gain(SharedPqOnPq.steps[4], "identity") = 0
      /\ Gain(SharedPqOnPq.steps[5], "identity") = 0
      /\ Gain(SharedPqOnPq.steps[6], "identity") = 1
      /\ Gain(SharedPqOnPq.steps[1], "B") = 0 /\ Gain(SharedPqOnPq.steps[2], "B") = 0
      /\ Gain(SharedPqOnPq.steps[3], "B") = 0 /\ Gain(SharedPqOnPq.steps[4], "B") = 0
      /\ Gain(SharedPqOnPq.steps[5], "B") = 0 /\ Gain(SharedPqOnPq.steps[6], "B") = 200
  BY SMTT(60) DEF Gain, Touches, Compared, SharedPqOnPq
<1>3. Total(SharedPqOnPq, "identity")[6] = 2 /\ Total(SharedPqOnPq, "B")[6] = 200
  <2>1. Total(SharedPqOnPq, "identity")[6] = 2
    BY <1>1, <1>2, FirstTotals, SMTT(60)
  <2>2. Total(SharedPqOnPq, "B")[6] = 200
    BY <1>1, <1>2, FirstTotals, SMTT(60)
  <2>. QED  BY <2>1, <2>2
<1>4. /\ DOMAIN SharedPqOnPq.says = {"identity", "B"}
      /\ SharedPqOnPq.says["identity"] = 2 /\ SharedPqOnPq.says["B"] = 200
      /\ \A k \in 1 .. 6 : Compared(SharedPqOnPq.steps[k]) => FALSE
      /\ Steady(SharedPqOnPq) /\ AbortsInControl(SharedPqOnPq) /\ Plain(SharedPqOnPq)
  BY SMTT(60) DEF Compared, Steady, AbortsInControl, Plain,
                  Negative, SharedPqOnPq
<1>5. SumsUp(SharedPqOnPq, {"nft", "vault"})
  BY <1>1, <1>3, <1>4 DEF SumsUp
<1>6. Comparing(SharedPqOnPq, {})
  BY <1>1, <1>4 DEF Comparing
<1>7. OwnIds(SharedPqOnPq, {})
  <2>1. /\ SharedPqOnPq.steps[2].do = "tx"
        /\ DOMAIN SharedPqOnPq.steps[2].adds = {"vaultPkg", "guardPkg"}
        /\ SharedPqOnPq.steps[3].do = "tx" /\ DOMAIN SharedPqOnPq.steps[3].adds = {"identity"}
        /\ SharedPqOnPq.steps[4].do = "tx" /\ DOMAIN SharedPqOnPq.steps[4].adds = {"vault"}
        /\ SharedPqOnPq.steps[6].do = "tx"
        /\ DOMAIN SharedPqOnPq.steps[6].adds = {"identity", "vault", "B"}
        /\ SharedPqOnPq.steps[3].uses = {"guardPkg"}
        /\ SharedPqOnPq.steps[4].uses = {"vaultPkg"}
        /\ SharedPqOnPq.steps[5].uses = {"identity"}
        /\ SharedPqOnPq.steps[6].uses = {"guardPkg", "identity", "vault", "vaultPkg"}
        /\ \A k \in 1 .. 6 : SharedPqOnPq.steps[k].uses # {} => k = 3 \/ k = 4 \/ k = 5 \/ k = 6
    BY SMTT(60) DEF SharedPqOnPq
  <2>. QED  BY <1>1, <2>1, SMTT(60) DEF OwnIds
<1>. QED  BY <1>1, <1>4, <1>5, <1>6, <1>7 DEF Sound

(* counter: made and stepped once.                                          *)
LEMMA CounterMade ==
    /\ Sound(Counter, {"vault"}, {"counter"}, {}) /\ Spares(Counter, {"recipient"})
    /\ Plain(Counter)
<1>1. Len(Counter.steps) = 5 /\ CallsTyped(Counter, {"vault"})
  BY SMTT(60) DEF CallsTyped, Compared, Counter
<1>2. /\ Gain(Counter.steps[1], "counter") = 0 /\ Gain(Counter.steps[2], "counter") = 0
      /\ Gain(Counter.steps[3], "counter") = 1 /\ Gain(Counter.steps[4], "counter") = 1
      /\ Gain(Counter.steps[5], "counter") = 0
  BY SMTT(60) DEF Gain, Touches, Compared, Counter
<1>3. Total(Counter, "counter")[4] = 2 /\ Total(Counter, "counter")[5] = 2
  BY <1>1, <1>2, FirstTotals, SMTT(60)
<1>4. /\ Counter.steps[5].do = "equals" /\ DOMAIN Counter.steps[5].adds = {"counter"}
      /\ Counter.steps[5].adds["counter"] = 2 /\ DOMAIN Counter.says = {"counter"}
      /\ Counter.says["counter"] = 2
      /\ \A k \in 1 .. 5 : Compared(Counter.steps[k]) => k = 5
      /\ Steady(Counter) /\ AbortsInControl(Counter) /\ Plain(Counter)
  BY SMTT(60) DEF Compared, Steady, AbortsInControl, Plain,
                  Negative, Counter
<1>5. SumsUp(Counter, {"vault"})
  BY <1>1, <1>3, <1>4 DEF SumsUp
<1>6. Comparing(Counter, {"counter"})
  BY <1>1, <1>4 DEF Comparing
<1>7. OwnIds(Counter, {})
  <2>1. /\ Counter.steps[2].do = "tx" /\ DOMAIN Counter.steps[2].adds = {"counterPkg"}
        /\ Counter.steps[3].do = "tx" /\ DOMAIN Counter.steps[3].adds = {"counter"}
        /\ Counter.steps[4].do = "tx" /\ DOMAIN Counter.steps[4].adds = {"counter"}
        /\ Counter.steps[3].uses = {"counterPkg"}
        /\ Counter.steps[4].uses = {"counter", "counterPkg"}
        /\ \A k \in 1 .. 5 : Counter.steps[k].uses # {} => k = 3 \/ k = 4
    BY SMTT(60) DEF Counter
  <2>. QED  BY <1>1, <2>1, SMTT(60) DEF OwnIds
<1>8. Spares(Counter, {"recipient"})
  BY SMTT(60) DEF Spares, Touches, Compared, Counter
<1>. QED  BY <1>1, <1>4, <1>5, <1>6, <1>7, <1>8 DEF Sound

(* pq-guard: the identity is made and its nonce stepped.                    *)
LEMMA PqGuardDemoMade ==
    /\ Sound(PqGuardDemo, {"vault"}, {}, {}) /\ Spares(PqGuardDemo, {"recipient"})
    /\ Plain(PqGuardDemo)
<1>1. Len(PqGuardDemo.steps) = 5 /\ CallsTyped(PqGuardDemo, {"vault"})
  BY SMTT(60) DEF CallsTyped, Compared, PqGuardDemo
<1>2. /\ Gain(PqGuardDemo.steps[1], "identity") = 0
      /\ Gain(PqGuardDemo.steps[2], "identity") = 0
      /\ Gain(PqGuardDemo.steps[3], "identity") = 1
      /\ Gain(PqGuardDemo.steps[4], "identity") = 0
      /\ Gain(PqGuardDemo.steps[5], "identity") = 1
  BY SMTT(60) DEF Gain, Touches, Compared, PqGuardDemo
<1>3. Total(PqGuardDemo, "identity")[5] = 2
  BY <1>1, <1>2, FirstTotals, SMTT(60)
<1>4. /\ DOMAIN PqGuardDemo.says = {"identity"} /\ PqGuardDemo.says["identity"] = 2
      /\ \A k \in 1 .. 5 : Compared(PqGuardDemo.steps[k]) => FALSE
      /\ Steady(PqGuardDemo) /\ AbortsInControl(PqGuardDemo) /\ Plain(PqGuardDemo)
  BY SMTT(60) DEF Compared, Steady, AbortsInControl, Plain,
                  Negative, PqGuardDemo
<1>5. SumsUp(PqGuardDemo, {"vault"})
  BY <1>1, <1>3, <1>4 DEF SumsUp
<1>6. Comparing(PqGuardDemo, {})
  BY <1>1, <1>4 DEF Comparing
<1>7. OwnIds(PqGuardDemo, {})
  <2>1. /\ PqGuardDemo.steps[2].do = "tx" /\ DOMAIN PqGuardDemo.steps[2].adds = {"guardPkg"}
        /\ PqGuardDemo.steps[3].do = "tx" /\ DOMAIN PqGuardDemo.steps[3].adds = {"identity"}
        /\ PqGuardDemo.steps[5].do = "tx" /\ DOMAIN PqGuardDemo.steps[5].adds = {"identity"}
        /\ PqGuardDemo.steps[3].uses = {"guardPkg"}
        /\ PqGuardDemo.steps[4].uses = {"identity"}
        /\ PqGuardDemo.steps[5].uses = {"guardPkg", "identity"}
        /\ \A k \in 1 .. 5 : PqGuardDemo.steps[k].uses # {} => k = 3 \/ k = 4 \/ k = 5
    BY SMTT(60) DEF PqGuardDemo
  <2>. QED  BY <1>1, <2>1, SMTT(60) DEF OwnIds
<1>8. Spares(PqGuardDemo, {"recipient"})
  BY SMTT(60) DEF Spares, Touches, Compared, PqGuardDemo
<1>. QED  BY <1>1, <1>4, <1>5, <1>6, <1>7, <1>8 DEF Sound

(* pq-guard-neg: nothing but a transaction that is to abort.                *)
LEMMA PqGuardNegMade ==
    /\ Sound(PqGuardNeg, {"vault"}, {}, {"guardPkg", "identity"})
    /\ Spares(PqGuardNeg, {"recipient"}) /\ PqGuardNeg.nested = TRUE
    /\ Negative(PqGuardNeg)
<1>1. Len(PqGuardNeg.steps) = 1 /\ CallsTyped(PqGuardNeg, {"vault"})
  BY SMTT(60) DEF CallsTyped, Compared, PqGuardNeg
<1>2. Gain(PqGuardNeg.steps[1], "aborted") = 1
  BY SMTT(60) DEF Gain, Touches, Compared, PqGuardNeg
<1>3. Total(PqGuardNeg, "aborted")[1] = 1
  BY <1>1, <1>2, FirstTotals, SMTT(60)
<1>4. /\ DOMAIN PqGuardNeg.says = {"aborted"} /\ PqGuardNeg.says["aborted"] = 1
      /\ \A k \in 1 .. 1 : Compared(PqGuardNeg.steps[k]) => FALSE
      /\ Steady(PqGuardNeg) /\ AbortsInControl(PqGuardNeg) /\ PqGuardNeg.nested = TRUE
      /\ Negative(PqGuardNeg)
  BY SMTT(60) DEF Compared, Steady, AbortsInControl, Plain,
                  Negative, PqGuardNeg
<1>5. SumsUp(PqGuardNeg, {"vault"})
  BY <1>1, <1>3, <1>4 DEF SumsUp
<1>6. Comparing(PqGuardNeg, {})
  BY <1>1, <1>4 DEF Comparing
<1>7. OwnIds(PqGuardNeg, {"guardPkg", "identity"})
  <2>1. /\ PqGuardNeg.steps[1].uses = {"guardPkg", "identity"}
        /\ \A k \in 1 .. 1 : PqGuardNeg.steps[k].uses # {} => k = 1
    BY SMTT(60) DEF PqGuardNeg
  <2>. QED  BY <1>1, <2>1, SMTT(60) DEF OwnIds
<1>8. Spares(PqGuardNeg, {"recipient"})
  BY SMTT(60) DEF Spares, Touches, Compared, PqGuardNeg
<1>. QED  BY <1>1, <1>4, <1>5, <1>6, <1>7, <1>8 DEF Sound

(* nft: minted of the package it publishes.                                 *)
LEMMA NftMade ==
    Sound(Nft, {"vault"}, {}, {}) /\ Spares(Nft, {"recipient"}) /\ Plain(Nft)
<1>1. Len(Nft.steps) = 3 /\ CallsTyped(Nft, {"vault"})
  BY SMTT(60) DEF CallsTyped, Compared, Nft
<1>2. /\ Gain(Nft.steps[1], "nft") = 0 /\ Gain(Nft.steps[2], "nft") = 0
      /\ Gain(Nft.steps[3], "nft") = 1
  BY SMTT(60) DEF Gain, Touches, Compared, Nft
<1>3. Total(Nft, "nft")[3] = 1
  BY <1>1, <1>2, FirstTotals, SMTT(60)
<1>4. /\ DOMAIN Nft.says = {"nft"} /\ Nft.says["nft"] = 1
      /\ \A k \in 1 .. 3 : Compared(Nft.steps[k]) => FALSE
      /\ Steady(Nft) /\ AbortsInControl(Nft) /\ Plain(Nft)
  BY SMTT(60) DEF Compared, Steady, AbortsInControl, Plain,
                  Negative, Nft
<1>5. SumsUp(Nft, {"vault"})
  BY <1>1, <1>3, <1>4 DEF SumsUp
<1>6. Comparing(Nft, {})
  BY <1>1, <1>4 DEF Comparing
<1>7. OwnIds(Nft, {})
  <2>1. /\ Nft.steps[2].do = "tx" /\ DOMAIN Nft.steps[2].adds = {"nftPkg"}
        /\ Nft.steps[3].uses = {"nftPkg"}
        /\ \A k \in 1 .. 3 : Nft.steps[k].uses # {} => k = 3
    BY SMTT(60) DEF Nft
  <2>. QED  BY <1>1, <2>1, SMTT(60) DEF OwnIds
<1>8. Spares(Nft, {"recipient"})
  BY SMTT(60) DEF Spares, Touches, Compared, Nft
<1>. QED  BY <1>1, <1>4, <1>5, <1>6, <1>7, <1>8 DEF Sound

(* coin: the treasury that it publishes mints.                              *)
LEMMA CoinMade ==
    Sound(Coin, {"vault"}, {}, {}) /\ Spares(Coin, {"recipient"}) /\ Plain(Coin)
<1>1. Len(Coin.steps) = 3 /\ CallsTyped(Coin, {"vault"})
  BY SMTT(60) DEF CallsTyped, Compared, Coin
<1>2. /\ Gain(Coin.steps[1], "minted") = 0 /\ Gain(Coin.steps[2], "minted") = 0
      /\ Gain(Coin.steps[3], "minted") = 1000
  BY SMTT(60) DEF Gain, Touches, Compared, Coin
<1>3. Total(Coin, "minted")[3] = 1000
  BY <1>1, <1>2, FirstTotals, SMTT(60)
<1>4. /\ DOMAIN Coin.says = {"minted"} /\ Coin.says["minted"] = 1000
      /\ \A k \in 1 .. 3 : Compared(Coin.steps[k]) => FALSE
      /\ Steady(Coin) /\ AbortsInControl(Coin) /\ Plain(Coin)
  BY SMTT(60) DEF Compared, Steady, AbortsInControl, Plain,
                  Negative, Coin
<1>5. SumsUp(Coin, {"vault"})
  BY <1>1, <1>3, <1>4 DEF SumsUp
<1>6. Comparing(Coin, {})
  BY <1>1, <1>4 DEF Comparing
<1>7. OwnIds(Coin, {})
  <2>1. /\ Coin.steps[1].do = "tx" /\ DOMAIN Coin.steps[1].adds = {"coinPkg", "treasury"}
        /\ Coin.steps[2].uses = {"treasury"}
        /\ Coin.steps[3].uses = {"coinPkg", "treasury"}
        /\ \A k \in 1 .. 3 : Coin.steps[k].uses # {} => k = 2 \/ k = 3
    BY SMTT(60) DEF Coin
  <2>. QED  BY <1>1, <2>1, SMTT(60) DEF OwnIds
<1>8. Spares(Coin, {"recipient"})
  BY SMTT(60) DEF Spares, Touches, Compared, Coin
<1>. QED  BY <1>1, <1>4, <1>5, <1>6, <1>7, <1>8 DEF Sound

(* pq-vault: funded by the faucet, and then from the vault.                 *)
LEMMA PqVaultDemoMade ==
    Sound(PqVaultDemo, {"vault"}, {"recipient"}, {}) /\ Plain(PqVaultDemo)
<1>1. Len(PqVaultDemo.steps) = 7 /\ CallsTyped(PqVaultDemo, {"vault"})
  BY SMTT(60) DEF CallsTyped, Compared, PqVaultDemo
<1>2. /\ Gain(PqVaultDemo.steps[1], "vaultIdentity") = 0
      /\ Gain(PqVaultDemo.steps[2], "vaultIdentity") = 1
      /\ Gain(PqVaultDemo.steps[3], "vaultIdentity") = 0
      /\ Gain(PqVaultDemo.steps[4], "vaultIdentity") = 0
      /\ Gain(PqVaultDemo.steps[5], "vaultIdentity") = 0
      /\ Gain(PqVaultDemo.steps[6], "vaultIdentity") = 1
      /\ Gain(PqVaultDemo.steps[7], "vaultIdentity") = 0
      /\ Gain(PqVaultDemo.steps[1], "recipient") = 0
      /\ Gain(PqVaultDemo.steps[2], "recipient") = 0
      /\ Gain(PqVaultDemo.steps[3], "recipient") = 0
      /\ Gain(PqVaultDemo.steps[4], "recipient") = 1000
      /\ Gain(PqVaultDemo.steps[5], "recipient") = 0
      /\ Gain(PqVaultDemo.steps[6], "recipient") = 200
      /\ Gain(PqVaultDemo.steps[7], "recipient") = 0
  BY SMTT(60) DEF Gain, Touches, Compared, PqVaultDemo
<1>3. /\ Total(PqVaultDemo, "vaultIdentity")[7] = 2
      /\ Total(PqVaultDemo, "recipient")[6] = 1200
      /\ Total(PqVaultDemo, "recipient")[7] = 1200
  <2>1. Total(PqVaultDemo, "vaultIdentity")[7] = 2
    BY <1>1, <1>2, FirstTotals, SMTT(60)
  <2>2. Total(PqVaultDemo, "recipient")[6] = 1200 /\ Total(PqVaultDemo, "recipient")[7] = 1200
    BY <1>1, <1>2, FirstTotals, SMTT(60)
  <2>. QED  BY <2>1, <2>2
<1>4. /\ PqVaultDemo.steps[7].do = "atLeast"
      /\ DOMAIN PqVaultDemo.steps[7].adds = {"recipient"}
      /\ PqVaultDemo.steps[7].adds["recipient"] = 200
      /\ DOMAIN PqVaultDemo.says = {"vaultIdentity", "recipient"}
      /\ PqVaultDemo.says["vaultIdentity"] = 2 /\ PqVaultDemo.says["recipient"] = 1200
      /\ \A k \in 1 .. 7 : Compared(PqVaultDemo.steps[k]) => k = 7
      /\ Steady(PqVaultDemo) /\ AbortsInControl(PqVaultDemo) /\ Plain(PqVaultDemo)
  BY SMTT(60) DEF Compared, Steady, AbortsInControl, Plain,
                  Negative, PqVaultDemo
<1>5. SumsUp(PqVaultDemo, {"vault"})
  BY <1>1, <1>3, <1>4 DEF SumsUp
<1>6. Comparing(PqVaultDemo, {"recipient"})
  BY <1>1, <1>4 DEF Comparing
<1>7. OwnIds(PqVaultDemo, {})
  <2>1. /\ PqVaultDemo.steps[1].do = "tx"
        /\ DOMAIN PqVaultDemo.steps[1].adds = {"vaultPkg", "vaultGuard"}
        /\ PqVaultDemo.steps[2].do = "tx" /\ DOMAIN PqVaultDemo.steps[2].adds = {"vaultIdentity"}
        /\ PqVaultDemo.steps[3].do = "tx" /\ DOMAIN PqVaultDemo.steps[3].adds = {"vault"}
        /\ PqVaultDemo.steps[6].do = "tx"
        /\ DOMAIN PqVaultDemo.steps[6].adds = {"vaultIdentity", "vault", "recipient"}
        /\ PqVaultDemo.steps[2].uses = {"vaultGuard"}
        /\ PqVaultDemo.steps[3].uses = {"vaultPkg"}
        /\ PqVaultDemo.steps[5].uses = {"vaultIdentity"}
        /\ PqVaultDemo.steps[6].uses = {"vault", "vaultGuard", "vaultIdentity", "vaultPkg"}
        /\ \A k \in 1 .. 7 : PqVaultDemo.steps[k].uses # {} => k = 2 \/ k = 3 \/ k = 5 \/ k = 6
    BY SMTT(60) DEF PqVaultDemo
  <2>. QED  BY <1>1, <2>1, SMTT(60) DEF OwnIds
<1>. QED  BY <1>1, <1>4, <1>5, <1>6, <1>7 DEF Sound

(* sdk-core: the recipient has what it was sent.                            *)
LEMMA SdkCoreMade ==
    /\ Sound(SdkCore, {"lwa"}, {}, {}) /\ Plain(SdkCore)
    /\ Spares(SdkCore, {"lwa", "blob"})
<1> DEFINE a == [recipient |-> 1]
<1>1. SdkCore.steps = <<Call("tx", Own, {}, a)>> /\ SdkCore.says = a /\ Plain(SdkCore)
  BY DEF SdkCore, Plain, Negative
<1>2. \A x \in DOMAIN a : a[x] \in Nat /\ x \notin {"lwa"}
  OBVIOUS
<1>3. {"lwa", "blob"} \cap DOMAIN a = {}
  OBVIOUS
<1> HIDE DEF a
<1>. QED  BY <1>1, <1>2, <1>3, OneCallMade DEF Plain

(* sponsored-tx: the gift arrives.                                          *)
LEMMA SponsoredTxMade ==
    /\ Sound(SponsoredTx, {"lwa"}, {}, {}) /\ Spares(SponsoredTx, {"lwa", "blob"})
    /\ Plain(SponsoredTx)
<1>1. Len(SponsoredTx.steps) = 3 /\ CallsTyped(SponsoredTx, {"lwa"})
  BY SMTT(60) DEF CallsTyped, Compared, SponsoredTx
<1>2. /\ Gain(SponsoredTx.steps[1], "gift") = 0
      /\ Gain(SponsoredTx.steps[2], "gift") = 0
      /\ Gain(SponsoredTx.steps[3], "gift") = 1
  BY SMTT(60) DEF Gain, Touches, Compared, SponsoredTx
<1>3. Total(SponsoredTx, "gift")[3] = 1
  BY <1>1, <1>2, FirstTotals, SMTT(60)
<1>4. /\ DOMAIN SponsoredTx.says = {"gift"} /\ SponsoredTx.says["gift"] = 1
      /\ \A k \in 1 .. 3 : Compared(SponsoredTx.steps[k]) => FALSE
      /\ Steady(SponsoredTx) /\ AbortsInControl(SponsoredTx) /\ Plain(SponsoredTx)
  BY SMTT(60) DEF Compared, Steady, AbortsInControl, Plain,
                  Negative, SponsoredTx
<1>5. SumsUp(SponsoredTx, {"lwa"})
  BY <1>1, <1>3, <1>4 DEF SumsUp
<1>6. Comparing(SponsoredTx, {})
  BY <1>1, <1>4 DEF Comparing
<1>7. OwnIds(SponsoredTx, {})
  BY SMTT(60) DEF OwnIds, SponsoredTx
<1>8. Spares(SponsoredTx, {"lwa", "blob"})
  BY SMTT(60) DEF Spares, Touches, Compared, SponsoredTx
<1>. QED  BY <1>1, <1>4, <1>5, <1>6, <1>7, <1>8 DEF Sound

(* lumiwave: minted, and a part of it transferred.                          *)
LEMMA LumiwaveMade ==
    /\ Sound(Lumiwave, {"lwa"}, {"lwa"}, {}) /\ Spares(Lumiwave, {"blob"})
    /\ Plain(Lumiwave)
<1>1. Len(Lumiwave.steps) = 5 /\ CallsTyped(Lumiwave, {"lwa"})
  BY SMTT(60) DEF CallsTyped, Compared, Lumiwave
<1>2. /\ Gain(Lumiwave.steps[1], "lwaOfRecipient") = 0
      /\ Gain(Lumiwave.steps[2], "lwaOfRecipient") = 0
      /\ Gain(Lumiwave.steps[3], "lwaOfRecipient") = 0
      /\ Gain(Lumiwave.steps[4], "lwaOfRecipient") = 250
      /\ Gain(Lumiwave.steps[5], "lwaOfRecipient") = 0
      /\ Gain(Lumiwave.steps[1], "lwa") = 0 /\ Gain(Lumiwave.steps[2], "lwa") = 1000
  BY SMTT(60) DEF Gain, Touches, Compared, Lumiwave
<1>3. Total(Lumiwave, "lwaOfRecipient")[5] = 250 /\ Total(Lumiwave, "lwa")[2] = 1000
  <2>1. Total(Lumiwave, "lwaOfRecipient")[5] = 250
    BY <1>1, <1>2, FirstTotals, SMTT(60)
  <2>2. Total(Lumiwave, "lwa")[2] = 1000
    BY <1>1, <1>2, FirstTotals, SMTT(60)
  <2>. QED  BY <2>1, <2>2
<1>4. /\ Lumiwave.steps[3].do = "atLeast" /\ DOMAIN Lumiwave.steps[3].adds = {"lwa"}
      /\ Lumiwave.steps[3].adds["lwa"] = 1 /\ DOMAIN Lumiwave.says = {"lwaOfRecipient"}
      /\ Lumiwave.says["lwaOfRecipient"] = 250
      /\ \A k \in 1 .. 5 : Compared(Lumiwave.steps[k]) => k = 3
      /\ Steady(Lumiwave) /\ AbortsInControl(Lumiwave) /\ Plain(Lumiwave)
  BY SMTT(60) DEF Compared, Steady, AbortsInControl, Plain,
                  Negative, Lumiwave
<1>5. SumsUp(Lumiwave, {"lwa"})
  BY <1>1, <1>3, <1>4 DEF SumsUp
<1>6. Comparing(Lumiwave, {"lwa"})
  BY <1>1, <1>4 DEF Comparing
<1>7. OwnIds(Lumiwave, {})
  <2>1. /\ Lumiwave.steps[1].do = "tx" /\ DOMAIN Lumiwave.steps[1].adds = {"lwaPkg", "cap"}
        /\ Lumiwave.steps[2].uses = {"cap", "lwaPkg"}
        /\ \A k \in 1 .. 5 : Lumiwave.steps[k].uses # {} => k = 2
    BY SMTT(60) DEF Lumiwave
  <2>. QED  BY <1>1, <2>1, SMTT(60) DEF OwnIds
<1>8. Spares(Lumiwave, {"blob"})
  BY SMTT(60) DEF Spares, Touches, Compared, Lumiwave
<1>. QED  BY <1>1, <1>4, <1>5, <1>6, <1>7, <1>8 DEF Sound

(* walrus-client: what was put comes back.                                  *)
LEMMA WalrusClientMade ==
    Sound(WalrusClient, {"lwa"}, {"blob"}, {}) /\ Plain(WalrusClient)
<1>1. Len(WalrusClient.steps) = 2 /\ CallsTyped(WalrusClient, {"lwa"})
  BY SMTT(60) DEF CallsTyped, Compared, WalrusClient
<1>2. /\ Gain(WalrusClient.steps[1], "blob") = 1
      /\ Gain(WalrusClient.steps[2], "blob") = 0
  BY SMTT(60) DEF Gain, Touches, Compared, WalrusClient
<1>3. Total(WalrusClient, "blob")[1] = 1 /\ Total(WalrusClient, "blob")[2] = 1
  BY <1>1, <1>2, FirstTotals, SMTT(60)
<1>4. /\ WalrusClient.steps[2].do = "equals"
      /\ DOMAIN WalrusClient.steps[2].adds = {"blob"}
      /\ WalrusClient.steps[2].adds["blob"] = 1 /\ DOMAIN WalrusClient.says = {"blob"}
      /\ WalrusClient.says["blob"] = 1
      /\ \A k \in 1 .. 2 : Compared(WalrusClient.steps[k]) => k = 2
      /\ Steady(WalrusClient) /\ AbortsInControl(WalrusClient) /\ Plain(WalrusClient)
  BY SMTT(60) DEF Compared, Steady, AbortsInControl, Plain,
                  Negative, WalrusClient
<1>5. SumsUp(WalrusClient, {"lwa"})
  BY <1>1, <1>3, <1>4 DEF SumsUp
<1>6. Comparing(WalrusClient, {"blob"})
  BY <1>1, <1>4 DEF Comparing
<1>7. OwnIds(WalrusClient, {})
  BY SMTT(60) DEF OwnIds, WalrusClient
<1>. QED  BY <1>1, <1>4, <1>5, <1>6, <1>7 DEF Sound

(* seal-client: a member on an allowlist of its package.                    *)
LEMMA SealClientMade ==
    Sound(SealClient, {"lwa"}, {}, {}) /\ Plain(SealClient)
<1>1. Len(SealClient.steps) = 3 /\ CallsTyped(SealClient, {"lwa"})
  BY SMTT(60) DEF CallsTyped, Compared, SealClient
<1>2. /\ Gain(SealClient.steps[1], "member") = 0
      /\ Gain(SealClient.steps[2], "member") = 0
      /\ Gain(SealClient.steps[3], "member") = 1
  BY SMTT(60) DEF Gain, Touches, Compared, SealClient
<1>3. Total(SealClient, "member")[3] = 1
  BY <1>1, <1>2, FirstTotals, SMTT(60)
<1>4. /\ DOMAIN SealClient.says = {"member"} /\ SealClient.says["member"] = 1
      /\ \A k \in 1 .. 3 : Compared(SealClient.steps[k]) => FALSE
      /\ Steady(SealClient) /\ AbortsInControl(SealClient) /\ Plain(SealClient)
  BY SMTT(60) DEF Compared, Steady, AbortsInControl, Plain,
                  Negative, SealClient
<1>5. SumsUp(SealClient, {"lwa"})
  BY <1>1, <1>3, <1>4 DEF SumsUp
<1>6. Comparing(SealClient, {})
  BY <1>1, <1>4 DEF Comparing
<1>7. OwnIds(SealClient, {})
  <2>1. /\ SealClient.steps[1].do = "tx" /\ DOMAIN SealClient.steps[1].adds = {"sealPkg"}
        /\ SealClient.steps[2].do = "tx" /\ DOMAIN SealClient.steps[2].adds = {"allowlist"}
        /\ SealClient.steps[2].uses = {"sealPkg"}
        /\ SealClient.steps[3].uses = {"allowlist", "sealPkg"}
        /\ \A k \in 1 .. 3 : SealClient.steps[k].uses # {} => k = 2 \/ k = 3
    BY SMTT(60) DEF SealClient
  <2>. QED  BY <1>1, <2>1, SMTT(60) DEF OwnIds
<1>. QED  BY <1>1, <1>4, <1>5, <1>6, <1>7 DEF Sound

(* kiosk: there is one.                                                     *)
LEMMA KioskMade ==
    Sound(Kiosk, {"lwa"}, {}, {}) /\ Plain(Kiosk)
<1> DEFINE a == [kiosk |-> 1]
<1>1. Kiosk.steps = <<Call("tx", Own, {}, a)>> /\ Kiosk.says = a /\ Plain(Kiosk)
  BY DEF Kiosk, Plain, Negative
<1>2. \A x \in DOMAIN a : a[x] \in Nat /\ x \notin {"lwa"}
  OBVIOUS
<1> HIDE DEF a
<1>. QED  BY <1>1, <1>2, OneCallMade DEF Plain

(* pq-deepbook.ts: a pool, and one order.                                   *)
LEMMA DeepBookMade ==
    Sound(DeepBook, {}, {}, {}) /\ Plain(DeepBook)
<1>1. Len(DeepBook.steps) = 7 /\ CallsTyped(DeepBook, {})
  BY SMTT(60) DEF CallsTyped, Compared, DeepBook
<1>2. /\ Gain(DeepBook.steps[1], "pool") = 0 /\ Gain(DeepBook.steps[2], "pool") = 0
      /\ Gain(DeepBook.steps[3], "pool") = 0 /\ Gain(DeepBook.steps[4], "pool") = 0
      /\ Gain(DeepBook.steps[5], "pool") = 0 /\ Gain(DeepBook.steps[6], "pool") = 1
      /\ Gain(DeepBook.steps[7], "pool") = 0 /\ Gain(DeepBook.steps[1], "manager") = 0
      /\ Gain(DeepBook.steps[2], "manager") = 0
      /\ Gain(DeepBook.steps[3], "manager") = 0
      /\ Gain(DeepBook.steps[4], "manager") = 0
      /\ Gain(DeepBook.steps[5], "manager") = 0
      /\ Gain(DeepBook.steps[6], "manager") = 0
      /\ Gain(DeepBook.steps[7], "manager") = 1 /\ Gain(DeepBook.steps[1], "order") = 0
      /\ Gain(DeepBook.steps[2], "order") = 0 /\ Gain(DeepBook.steps[3], "order") = 0
      /\ Gain(DeepBook.steps[4], "order") = 0 /\ Gain(DeepBook.steps[5], "order") = 0
      /\ Gain(DeepBook.steps[6], "order") = 0 /\ Gain(DeepBook.steps[7], "order") = 1
  BY SMTT(60) DEF Gain, Touches, Compared, DeepBook
<1>3. /\ Total(DeepBook, "pool")[7] = 1 /\ Total(DeepBook, "manager")[7] = 1
      /\ Total(DeepBook, "order")[7] = 1
  <2>1. Total(DeepBook, "pool")[7] = 1
    BY <1>1, <1>2, FirstTotals, SMTT(60)
  <2>2. Total(DeepBook, "manager")[7] = 1
    BY <1>1, <1>2, FirstTotals, SMTT(60)
  <2>3. Total(DeepBook, "order")[7] = 1
    BY <1>1, <1>2, FirstTotals, SMTT(60)
  <2>. QED  BY <2>1, <2>2, <2>3
<1>4. /\ DOMAIN DeepBook.says = {"pool", "manager", "order"}
      /\ DeepBook.says["pool"] = 1 /\ DeepBook.says["manager"] = 1
      /\ DeepBook.says["order"] = 1
      /\ \A k \in 1 .. 7 : Compared(DeepBook.steps[k]) => FALSE
      /\ Steady(DeepBook) /\ AbortsInControl(DeepBook) /\ Plain(DeepBook)
  BY SMTT(60) DEF Compared, Steady, AbortsInControl, Plain,
                  Negative, DeepBook
<1>5. SumsUp(DeepBook, {})
  BY <1>1, <1>3, <1>4 DEF SumsUp
<1>6. Comparing(DeepBook, {})
  BY <1>1, <1>4 DEF Comparing
<1>7. OwnIds(DeepBook, {})
  <2>1. /\ DeepBook.steps[4].do = "tx" /\ DOMAIN DeepBook.steps[4].adds = {"demoPkg"}
        /\ DeepBook.steps[5].do = "tx"
        /\ DOMAIN DeepBook.steps[5].adds = {"deepbookPkg", "registry", "adminCap"}
        /\ DeepBook.steps[6].do = "tx" /\ DOMAIN DeepBook.steps[6].adds = {"pool"}
        /\ DeepBook.steps[6].uses = {"adminCap", "deepbookPkg", "demoPkg", "registry"}
        /\ DeepBook.steps[7].uses = {"deepbookPkg", "demoPkg", "pool"}
        /\ \A k \in 1 .. 7 : DeepBook.steps[k].uses # {} => k = 6 \/ k = 7
    BY SMTT(60) DEF DeepBook
  <2>. QED  BY <1>1, <2>1, SMTT(60) DEF OwnIds
<1>. QED  BY <1>1, <1>4, <1>5, <1>6, <1>7 DEF Sound

(* pq-mnemonic.ts: one transfer.                                            *)
LEMMA MnemonicMade ==
    Sound(Mnemonic, {}, {}, {}) /\ Plain(Mnemonic)
<1>1. Len(Mnemonic.steps) = 5 /\ CallsTyped(Mnemonic, {})
  BY SMTT(60) DEF CallsTyped, Compared, Mnemonic
<1>2. /\ Gain(Mnemonic.steps[1], "recipient") = 0
      /\ Gain(Mnemonic.steps[2], "recipient") = 0
      /\ Gain(Mnemonic.steps[3], "recipient") = 0
      /\ Gain(Mnemonic.steps[4], "recipient") = 1
      /\ Gain(Mnemonic.steps[5], "recipient") = 0
  BY SMTT(60) DEF Gain, Touches, Compared, Mnemonic
<1>3. Total(Mnemonic, "recipient")[5] = 1
  BY <1>1, <1>2, FirstTotals, SMTT(60)
<1>4. /\ DOMAIN Mnemonic.says = {"recipient"} /\ Mnemonic.says["recipient"] = 1
      /\ \A k \in 1 .. 5 : Compared(Mnemonic.steps[k]) => FALSE
      /\ Steady(Mnemonic) /\ AbortsInControl(Mnemonic) /\ Plain(Mnemonic)
  BY SMTT(60) DEF Compared, Steady, AbortsInControl, Plain,
                  Negative, Mnemonic
<1>5. SumsUp(Mnemonic, {})
  BY <1>1, <1>3, <1>4 DEF SumsUp
<1>6. Comparing(Mnemonic, {})
  BY <1>1, <1>4 DEF Comparing
<1>7. OwnIds(Mnemonic, {})
  BY SMTT(60) DEF OwnIds, Mnemonic
<1>. QED  BY <1>1, <1>4, <1>5, <1>6, <1>7 DEF Sound

(* pq-services.ts: a blob, and tokens minted and transferred in part.       *)
LEMMA ServicesMade ==
    Sound(Services, {"lwa"}, {"blob", "lwa"}, {}) /\ Plain(Services)
<1>1. Len(Services.steps) = 9 /\ CallsTyped(Services, {"lwa"})
  BY SMTT(60) DEF CallsTyped, Compared, Services
<1>2. /\ Gain(Services.steps[1], "blob") = 0 /\ Gain(Services.steps[2], "blob") = 0
      /\ Gain(Services.steps[3], "blob") = 1 /\ Gain(Services.steps[4], "blob") = 0
      /\ Gain(Services.steps[5], "blob") = 0 /\ Gain(Services.steps[6], "blob") = 0
      /\ Gain(Services.steps[7], "blob") = 0 /\ Gain(Services.steps[8], "blob") = 0
      /\ Gain(Services.steps[9], "blob") = 0
      /\ Gain(Services.steps[1], "lwaOfRecipient") = 0
      /\ Gain(Services.steps[2], "lwaOfRecipient") = 0
      /\ Gain(Services.steps[3], "lwaOfRecipient") = 0
      /\ Gain(Services.steps[4], "lwaOfRecipient") = 0
      /\ Gain(Services.steps[5], "lwaOfRecipient") = 0
      /\ Gain(Services.steps[6], "lwaOfRecipient") = 0
      /\ Gain(Services.steps[7], "lwaOfRecipient") = 0
      /\ Gain(Services.steps[8], "lwaOfRecipient") = 1000
      /\ Gain(Services.steps[9], "lwaOfRecipient") = 0
      /\ Gain(Services.steps[1], "lwa") = 0 /\ Gain(Services.steps[2], "lwa") = 0
      /\ Gain(Services.steps[3], "lwa") = 0 /\ Gain(Services.steps[4], "lwa") = 0
      /\ Gain(Services.steps[5], "lwa") = 0 /\ Gain(Services.steps[6], "lwa") = 5000
  BY SMTT(60) DEF Gain, Touches, Compared, Services
<1>3. /\ Total(Services, "blob")[3] = 1 /\ Total(Services, "blob")[9] = 1
      /\ Total(Services, "lwaOfRecipient")[9] = 1000 /\ Total(Services, "lwa")[6] = 5000
  <2>1. Total(Services, "blob")[3] = 1 /\ Total(Services, "blob")[9] = 1
    BY <1>1, <1>2, FirstTotals, SMTT(60)
  <2>2. Total(Services, "lwaOfRecipient")[9] = 1000
    BY <1>1, <1>2, FirstTotals, SMTT(60)
  <2>3. Total(Services, "lwa")[6] = 5000
    BY <1>1, <1>2, FirstTotals, SMTT(60)
  <2>. QED  BY <2>1, <2>2, <2>3
<1>4. /\ Services.steps[4].do = "equals" /\ DOMAIN Services.steps[4].adds = {"blob"}
      /\ Services.steps[4].adds["blob"] = 1 /\ Services.steps[7].do = "atLeast"
      /\ DOMAIN Services.steps[7].adds = {"lwa"} /\ Services.steps[7].adds["lwa"] = 1
      /\ DOMAIN Services.says = {"blob", "lwaOfRecipient"} /\ Services.says["blob"] = 1
      /\ Services.says["lwaOfRecipient"] = 1000
      /\ \A k \in 1 .. 9 : Compared(Services.steps[k]) => k = 4 \/ k = 7
      /\ Steady(Services) /\ AbortsInControl(Services) /\ Plain(Services)
  BY SMTT(60) DEF Compared, Steady, AbortsInControl, Plain,
                  Negative, Services
<1>5. SumsUp(Services, {"lwa"})
  BY <1>1, <1>3, <1>4 DEF SumsUp
<1>6. Comparing(Services, {"blob", "lwa"})
  BY <1>1, <1>4 DEF Comparing
<1>7. OwnIds(Services, {})
  <2>1. /\ Services.steps[5].do = "tx" /\ DOMAIN Services.steps[5].adds = {"lwaPkg", "cap"}
        /\ Services.steps[6].uses = {"cap", "lwaPkg"}
        /\ \A k \in 1 .. 9 : Services.steps[k].uses # {} => k = 6
    BY SMTT(60) DEF Services
  <2>. QED  BY <1>1, <2>1, SMTT(60) DEF OwnIds
<1>. QED  BY <1>1, <1>4, <1>5, <1>6, <1>7 DEF Sound

(* pq-seal.ts: the gate is asked once there is a member.                    *)
LEMMA SealMade ==
    Sound(Seal, {}, {"member"}, {}) /\ Plain(Seal)
<1>1. Len(Seal.steps) = 7 /\ CallsTyped(Seal, {})
  BY SMTT(60) DEF CallsTyped, Compared, Seal
<1>2. /\ Gain(Seal.steps[1], "member") = 0 /\ Gain(Seal.steps[2], "member") = 0
      /\ Gain(Seal.steps[3], "member") = 0 /\ Gain(Seal.steps[4], "member") = 0
      /\ Gain(Seal.steps[5], "member") = 1 /\ Gain(Seal.steps[6], "member") = 0
      /\ Gain(Seal.steps[7], "member") = 0
  BY SMTT(60) DEF Gain, Touches, Compared, Seal
<1>3. Total(Seal, "member")[5] = 1 /\ Total(Seal, "member")[7] = 1
  BY <1>1, <1>2, FirstTotals, SMTT(60)
<1>4. /\ Seal.steps[6].do = "equals" /\ DOMAIN Seal.steps[6].adds = {"member"}
      /\ Seal.steps[6].adds["member"] = 1 /\ DOMAIN Seal.says = {"member"}
      /\ Seal.says["member"] = 1
      /\ \A k \in 1 .. 7 : Compared(Seal.steps[k]) => k = 6
      /\ Steady(Seal) /\ AbortsInControl(Seal) /\ Plain(Seal)
  BY SMTT(60) DEF Compared, Steady, AbortsInControl, Plain,
                  Negative, Seal
<1>5. SumsUp(Seal, {})
  BY <1>1, <1>3, <1>4 DEF SumsUp
<1>6. Comparing(Seal, {"member"})
  BY <1>1, <1>4 DEF Comparing
<1>7. OwnIds(Seal, {})
  <2>1. /\ Seal.steps[3].do = "tx" /\ DOMAIN Seal.steps[3].adds = {"sealPkg"}
        /\ Seal.steps[4].do = "tx" /\ DOMAIN Seal.steps[4].adds = {"allowlist"}
        /\ Seal.steps[4].uses = {"sealPkg"}
        /\ Seal.steps[5].uses = {"allowlist", "sealPkg"}
        /\ Seal.steps[7].uses = {"allowlist"}
        /\ \A k \in 1 .. 7 : Seal.steps[k].uses # {} => k = 4 \/ k = 5 \/ k = 7
    BY SMTT(60) DEF Seal
  <2>. QED  BY <1>1, <2>1, SMTT(60) DEF OwnIds
<1>. QED  BY <1>1, <1>4, <1>5, <1>6, <1>7 DEF Sound

(* pq-only-account.ts: an offer, of which nothing is said.                  *)
LEMMA OnlyAccountMade ==
    Sound(OnlyAccount, {}, {}, {}) /\ Plain(OnlyAccount)
<1>1. Len(OnlyAccount.steps) = 2 /\ CallsTyped(OnlyAccount, {})
  BY SMTT(60) DEF CallsTyped, Compared, OnlyAccount
<1>2. /\ DOMAIN OnlyAccount.says = {}
      /\ \A k \in 1 .. 2 : Compared(OnlyAccount.steps[k]) => FALSE
      /\ AbortsInControl(OnlyAccount) /\ Plain(OnlyAccount)
  BY SMTT(60) DEF Compared, Steady, AbortsInControl, Plain,
                  Negative, OnlyAccount
<1>3. SumsUp(OnlyAccount, {})
  BY <1>1, <1>2 DEF SumsUp
<1>4. Comparing(OnlyAccount, {})
  BY <1>1, <1>2 DEF Comparing
<1>5. OwnIds(OnlyAccount, {})
  BY SMTT(60) DEF OwnIds, OnlyAccount
<1>. QED  BY <1>1, <1>2, <1>3, <1>4, <1>5 DEF Sound

(* pq-only-native.ts: a transaction that pays for itself.                   *)
LEMMA OnlyNativeMade ==
    Sound(OnlyNative, {}, {}, {}) /\ Plain(OnlyNative)
<1>1. Len(OnlyNative.steps) = 3 /\ CallsTyped(OnlyNative, {})
  BY SMTT(60) DEF CallsTyped, Compared, OnlyNative
<1>2. /\ Gain(OnlyNative.steps[1], "selfPaid") = 0
      /\ Gain(OnlyNative.steps[2], "selfPaid") = 0
      /\ Gain(OnlyNative.steps[3], "selfPaid") = 1
  BY SMTT(60) DEF Gain, Touches, Compared, OnlyNative
<1>3. Total(OnlyNative, "selfPaid")[3] = 1
  BY <1>1, <1>2, FirstTotals, SMTT(60)
<1>4. /\ DOMAIN OnlyNative.says = {"selfPaid"} /\ OnlyNative.says["selfPaid"] = 1
      /\ \A k \in 1 .. 3 : Compared(OnlyNative.steps[k]) => FALSE
      /\ Steady(OnlyNative) /\ AbortsInControl(OnlyNative) /\ Plain(OnlyNative)
  BY SMTT(60) DEF Compared, Steady, AbortsInControl, Plain,
                  Negative, OnlyNative
<1>5. SumsUp(OnlyNative, {})
  BY <1>1, <1>3, <1>4 DEF SumsUp
<1>6. Comparing(OnlyNative, {})
  BY <1>1, <1>4 DEF Comparing
<1>7. OwnIds(OnlyNative, {})
  BY SMTT(60) DEF OwnIds, OnlyNative
<1>. QED  BY <1>1, <1>4, <1>5, <1>6, <1>7 DEF Sound

HIDE DEF Call, Scenario, None, Own, A, Active, Query, Equals, AtLeast, Offer, Tampered, fund,
         fundedKeypair, faucet, pqExec, run, pqRun, executeTx, publishPackage, publishWithDeps,
         publishPkg, publish, LwaTransfer, buildLwaTransfer, startWalrus, put, getText

-----------------------------------------------------------------------------
(***************************************************************************)
(* 6. The demo programs.                                                   *)
(***************************************************************************)

(* Where what a scenario reads comes from outside of it.                   *)
Unseen(P, i, X) == \A x \in X : Untouched(P, i, x)

(* The ids that come from an earlier scenario that reads none.             *)
Rooted(P, i, ids) ==
    \A u \in ids : \E j \in 1 .. i - 1 : Root(P.scenarios[j]) /\ Gives(P.scenarios[j], u)

(* A plain scenario fits in a program when no earlier one changes what it  *)
(* compares, and the ids it reads are its own or come from a root.         *)
LEMMA PlainFits ==
    ASSUME NEW P, NEW i, NEW s, P.scenarios[i] = s,
           NEW spent, NEW X, NEW ids, Sound(s, spent, X, ids), Plain(s),
           Unseen(P, i, X), Rooted(P, i, ids)
    PROVE  Fits(P, spent, i)
<1>1. /\ P.scenarios[i].nested = FALSE /\ ~Negative(P.scenarios[i])
      /\ CallsTyped(P.scenarios[i], spent) /\ SumsUp(P.scenarios[i], spent)
      /\ AbortsInControl(P.scenarios[i])
  BY DEF Sound, Plain
<1>2. ASSUME NEW k \in 1 .. Len(P.scenarios[i].steps)
      PROVE  /\ Compared(P.scenarios[i].steps[k]) =>
                   \A x \in DOMAIN P.scenarios[i].steps[k].adds : Untouched(P, i, x)
             /\ \A u \in P.scenarios[i].steps[k].uses : Sourced(P, i, k, u)
  BY <1>1 DEF Sound, Comparing, OwnIds, Sourced, Unseen, Rooted
<1>. QED  BY <1>1, <1>2 DEF Fits

(* Nothing is compared, or nothing is read that is not a scenario's own.    *)
LEMMA NoneUnseen ==
    ASSUME NEW P, NEW i
    PROVE  Unseen(P, i, {}) /\ Rooted(P, i, {})
  BY DEF Unseen, Rooted

(* pq-exhaustive.ts: the package of publish serves two later scenarios.    *)
LEMMA ExhaustiveMade == WellMade(Exhaustive, {"nft", "vault"})
<1> DEFINE P == Exhaustive
           spent == {"nft", "vault"}
           Q == P.scenarios
<1>1. SetupPlain(P.setup)
  BY DEF SetupPlain, Exhaustive, Query, fund, A, Call, None
<1>2. /\ Len(Q) = 9 /\ Q[1] = TransferSui /\ Q[2] = PayMultiple /\ Q[3] = CoinMerge
      /\ Q[4] = Publish /\ Q[5] = MoveCall /\ Q[6] = NftTransfer /\ Q[7] = CoinMint
      /\ Q[8] = MultiPtb /\ Q[9] = SharedPqOnPq
  BY DEF Exhaustive
<1> HIDE DEF P, Q
<1>3. /\ Unseen(P, 1, {"B"}) /\ Unseen(P, 2, {"C"}) /\ Unseen(P, 5, {"counter"})
      /\ Unseen(P, 6, {"nftOfB"})
  <2>1. \A j \in 1 .. 9 : /\ ~(j < 1)
                          /\ j < 2 => j = 1
                          /\ j < 5 => j = 1 \/ j = 2 \/ j = 3 \/ j = 4
                          /\ j < 6 => j = 1 \/ j = 2 \/ j = 3 \/ j = 4 \/ j = 5
    OBVIOUS
  <2>. QED  BY <1>2, <2>1, TransferSuiMade, PayMultipleMade, CoinMergeMade, PublishMade,
               MoveCallMade DEF Unseen, Untouched, Spares, Q
<1>4. Rooted(P, 5, {"counterPkg"}) /\ Rooted(P, 8, {"counterPkg"})
  <2>1. 4 \in 1 .. 5 - 1 /\ 4 \in 1 .. 8 - 1
    OBVIOUS
  <2>. QED  BY <1>2, <2>1, PublishMade DEF Rooted, Q
<1>5. \A i : Unseen(P, i, {}) /\ Rooted(P, i, {})
  BY NoneUnseen
<1>6. Fits(P, spent, 1) /\ Fits(P, spent, 2) /\ Fits(P, spent, 3)
  BY <1>2, <1>3, <1>5, TransferSuiMade, PayMultipleMade, CoinMergeMade, PlainFits DEF Q
<1>7. Fits(P, spent, 4) /\ Fits(P, spent, 5) /\ Fits(P, spent, 6)
  BY <1>2, <1>3, <1>4, <1>5, PublishMade, MoveCallMade, NftTransferMade, PlainFits DEF Q
<1>8. Fits(P, spent, 7) /\ Fits(P, spent, 8) /\ Fits(P, spent, 9)
  BY <1>2, <1>4, <1>5, CoinMintMade, MultiPtbMade, SharedPqOnPqMade, PlainFits DEF Q
<1>9. Len(Q) \in Nat /\ \A i \in 1 .. Len(Q) : i \in {1, 2, 3, 4, 5, 6, 7, 8, 9}
  BY <1>2
<1>10. WellMade(P, spent)
  BY <1>1, <1>6, <1>7, <1>8, <1>9 DEF WellMade, Q
<1>. QED  BY <1>10 DEF P

(* run.ts: the negative control uses what the scenario around it made.     *)
LEMMA RunMade == WellMade(Run, {"vault"})
<1> DEFINE P == Run
           spent == {"vault"}
           Q == P.scenarios
<1>1. SetupPlain(P.setup)
  BY DEF SetupPlain, Run, Query, Call, None
<1>2. /\ Len(Q) = 8 /\ Q[1] = PqcCore /\ Q[2] = Counter /\ Q[3] = PqGuardDemo
      /\ Q[4] = PqGuardNeg /\ Q[5] = Nft /\ Q[6] = Coin /\ Q[7] = PqVaultDemo
      /\ Q[8] = EventQuery
  BY DEF Run
<1> HIDE DEF P, Q
<1>3. /\ Sound(PqcCore, spent, {}, {}) /\ Sound(EventQuery, spent, {}, {})
      /\ \A X : Spares(PqcCore, X)
      /\ Plain(PqcCore) /\ Plain(EventQuery)
  <2>1. /\ PqcCore.steps = <<>> /\ PqcCore.says = None /\ Plain(PqcCore)
        /\ EventQuery.steps = <<>> /\ EventQuery.says = None /\ Plain(EventQuery)
    BY DEF PqcCore, EventQuery, Scenario, Plain, Negative
  <2> HIDE DEF spent
  <2>. QED  BY <2>1, QuietMade DEF Plain
<1>4. Unseen(P, 2, {"counter"}) /\ Unseen(P, 7, {"recipient"})
  <2>1. \A j \in 1 .. 8 : /\ j < 2 => j = 1
                          /\ j < 7 => j = 1 \/ j = 2 \/ j = 3 \/ j = 4 \/ j = 5 \/ j = 6
    OBVIOUS
  <2>2. Spares(PqcCore, {"counter"}) /\ Spares(PqcCore, {"recipient"})
    BY <1>3
  <2>. QED  BY <1>2, <2>1, <2>2, CounterMade, PqGuardDemoMade, PqGuardNegMade, NftMade, CoinMade
            DEF Unseen, Untouched, Spares, Q
<1>5. \A i : Unseen(P, i, {}) /\ Rooted(P, i, {})
  BY NoneUnseen
<1>6. Fits(P, spent, 1) /\ Fits(P, spent, 2) /\ Fits(P, spent, 3)
  BY <1>2, <1>3, <1>4, <1>5, CounterMade, PqGuardDemoMade, PlainFits DEF Q
<1>7. Fits(P, spent, 4)
  <2>1. Gives(Q[3], "guardPkg") /\ Gives(Q[3], "identity")
    <3>1. /\ Len(PqGuardDemo.steps) = 5
          /\ PqGuardDemo.steps[2].do = "tx" /\ "guardPkg" \in DOMAIN PqGuardDemo.steps[2].adds
          /\ PqGuardDemo.steps[3].do = "tx" /\ "identity" \in DOMAIN PqGuardDemo.steps[3].adds
      BY DEF PqGuardDemo, Scenario, fundedKeypair, publishPackage, run, Query, Call
    <3>2. 2 \in 1 .. 5 /\ 3 \in 1 .. 5
      OBVIOUS
    <3>. QED  BY <1>2, <3>1, <3>2 DEF Gives
  <2>2. 4 - 1 = 3 /\ 4 > 1 /\ Q[3].nested = FALSE
    BY <1>2, PqGuardDemoMade DEF Plain
  <2>3. ASSUME NEW k \in 1 .. Len(Q[4].steps), NEW u \in Q[4].steps[k].uses
        PROVE  Sourced(P, 4, k, u)
    <3>1. Q[4].nested = TRUE
      BY <1>2, PqGuardNegMade
    <3>2. \/ u \in {"guardPkg", "identity"}
          \/ \E m \in 1 .. k - 1 : Q[4].steps[m].do = "tx" /\ u \in DOMAIN Q[4].steps[m].adds
      BY <1>2, PqGuardNegMade DEF Sound, OwnIds
    <3>. QED  BY <2>1, <2>2, <3>1, <3>2 DEF Sourced, Q
  <2>4. \A k \in 1 .. Len(Q[4].steps) : Compared(Q[4].steps[k]) => DOMAIN Q[4].steps[k].adds = {}
    BY <1>2, PqGuardNegMade DEF Sound, Comparing
  <2>5. /\ Q[4].nested = TRUE /\ CallsTyped(Q[4], spent)
        /\ SumsUp(Q[4], spent) /\ AbortsInControl(Q[4])
    BY <1>2, PqGuardNegMade DEF Sound
  <2>. QED  BY <2>2, <2>3, <2>4, <2>5 DEF Fits, Q
<1>8. Fits(P, spent, 5) /\ Fits(P, spent, 6)
  BY <1>2, <1>5, NftMade, CoinMade, PlainFits DEF Q
<1>9. Fits(P, spent, 7) /\ Fits(P, spent, 8)
  BY <1>2, <1>3, <1>4, <1>5, PqVaultDemoMade, PlainFits DEF Q
<1>10. Len(Q) \in Nat /\ \A i \in 1 .. Len(Q) : i \in {1, 2, 3, 4, 5, 6, 7, 8}
  BY <1>2
<1>11. WellMade(P, spent)
  BY <1>1, <1>6, <1>7, <1>8, <1>9, <1>10 DEF WellMade, Q
<1>. QED  BY <1>11 DEF P

(* pq-ecosystem.ts: no scenario reads what another made.                   *)
LEMMA EcosystemMade == WellMade(Ecosystem, {"lwa"})
<1> DEFINE P == Ecosystem
           spent == {"lwa"}
           Q == P.scenarios
           quiet == {PqcEngine, WalletKit, IndexerPkg, ZkLogin, Oracles, DeepBookPkg, Bridge}
<1>1. SetupPlain(P.setup)
  BY DEF SetupPlain, Ecosystem, Query, faucet, Own, Call, None
<1>2. /\ Len(Q) = 13 /\ Q[1] = PqcEngine /\ Q[2] = SdkCore /\ Q[3] = WalletKit
      /\ Q[4] = SponsoredTx /\ Q[5] = Lumiwave /\ Q[6] = IndexerPkg /\ Q[7] = WalrusClient
      /\ Q[8] = SealClient /\ Q[9] = Kiosk /\ Q[10] = ZkLogin /\ Q[11] = Oracles
      /\ Q[12] = DeepBookPkg /\ Q[13] = Bridge
  BY DEF Ecosystem
<1> HIDE DEF P, Q
<1>3. \A s \in quiet : Sound(s, spent, {}, {}) /\ Plain(s) /\ \A X : Spares(s, X)
  <2>1. \A s \in quiet : /\ s.steps = <<>> \/ s.steps = <<Query({})>>
                         /\ s.says = None /\ Plain(s)
    BY DEF PqcEngine, WalletKit, IndexerPkg, ZkLogin, Oracles, DeepBookPkg, Bridge, Scenario,
           Plain, Negative
  <2> HIDE DEF spent, quiet
  <2>. QED  BY <2>1, QuietMade DEF Plain
<1>4. Unseen(P, 5, {"lwa"}) /\ Unseen(P, 7, {"blob"})
  <2>1. \A j \in 1 .. 13 : /\ j < 5 => j = 1 \/ j = 2 \/ j = 3 \/ j = 4
                           /\ j < 7 => j = 1 \/ j = 2 \/ j = 3 \/ j = 4 \/ j = 5 \/ j = 6
    OBVIOUS
  <2>2. \A s \in {PqcEngine, WalletKit, IndexerPkg} : Spares(s, {"lwa"}) /\ Spares(s, {"blob"})
    BY <1>3
  <2>. QED  BY <1>2, <2>1, <2>2, SdkCoreMade, SponsoredTxMade, LumiwaveMade
            DEF Unseen, Untouched, Spares, Q
<1>5. \A i : Unseen(P, i, {}) /\ Rooted(P, i, {})
  BY NoneUnseen
<1>6. \A i \in {1, 3, 6, 10, 11, 12, 13} : Q[i] \in quiet
  BY <1>2
<1>7. \A i \in {1, 3, 6, 10, 11, 12, 13} : Fits(P, spent, i)
  <2> HIDE DEF quiet
  <2>. QED  BY <1>3, <1>5, <1>6, PlainFits DEF Q
<1>8. Fits(P, spent, 2) /\ Fits(P, spent, 4) /\ Fits(P, spent, 5)
  BY <1>2, <1>4, <1>5, SdkCoreMade, SponsoredTxMade, LumiwaveMade, PlainFits DEF Q
<1>9. Fits(P, spent, 7) /\ Fits(P, spent, 8) /\ Fits(P, spent, 9)
  BY <1>2, <1>4, <1>5, WalrusClientMade, SealClientMade, KioskMade, PlainFits DEF Q
<1>10. Len(Q) \in Nat /\ \A i \in 1 .. Len(Q) : i \in {1, 2, 3, 4, 5, 6, 7, 8, 9, 10, 11, 12, 13}
  BY <1>2
<1>11. WellMade(P, spent)
  BY <1>1, <1>7, <1>8, <1>9, <1>10 DEF WellMade, Q
<1>. QED  BY <1>11 DEF P

(* A program of one scenario.                                              *)
LEMMA SingleMade ==
    ASSUME NEW s, NEW spent, NEW X, Sound(s, spent, X, {}), Plain(s)
    PROVE  WellMade(Single(s), spent)
<1> DEFINE P == Single(s)
<1>1. /\ Len(P.scenarios) = 1 /\ P.scenarios[1] = s /\ P.setup = <<>>
  BY DEF Single
<1> HIDE DEF P
<1>2. Unseen(P, 1, X) /\ Rooted(P, 1, {})
  <2>1. \A j \in 1 .. 1 : ~(j < 1)
    OBVIOUS
  <2>. QED  BY <1>1, <2>1 DEF Unseen, Untouched, Rooted
<1>3. Fits(P, spent, 1)
  BY <1>1, <1>2, PlainFits
<1>4. SetupPlain(P.setup)
  BY <1>1 DEF SetupPlain
<1>5. WellMade(P, spent)
  BY <1>1, <1>3, <1>4 DEF WellMade
<1>. QED  BY <1>5 DEF P

(* Every program is well made.                                             *)
LEMMA ProgramsMade == \A name \in ProgramName : \E spent : WellMade(Program(name), spent)
<1>1. /\ \E spent : WellMade(Single(DeepBook), spent)
      /\ \E spent : WellMade(Single(Mnemonic), spent)
      /\ \E spent : WellMade(Single(Services), spent)
      /\ \E spent : WellMade(Single(Seal), spent)
      /\ \E spent : WellMade(Single(OnlyAccount), spent)
      /\ \E spent : WellMade(Single(OnlyNative), spent)
  BY SingleMade, DeepBookMade, MnemonicMade, ServicesMade, SealMade, OnlyAccountMade,
     OnlyNativeMade
<1>2. /\ Program("pq-exhaustive") = Exhaustive /\ Program("run") = Run
      /\ Program("pq-ecosystem") = Ecosystem /\ Program("pq-deepbook") = Single(DeepBook)
      /\ Program("pq-mnemonic") = Single(Mnemonic) /\ Program("pq-services") = Single(Services)
      /\ Program("pq-seal") = Single(Seal) /\ Program("pq-only-account") = Single(OnlyAccount)
      /\ Program("pq-only-native") = Single(OnlyNative)
  BY DEF Program
<1>. QED  BY <1>1, <1>2, ExhaustiveMade, RunMade, EcosystemMade DEF ProgramName

-----------------------------------------------------------------------------
(***************************************************************************)
(* 7. What a run of a demo program is at, and what it changes.             *)
(***************************************************************************)

(* The report: one row per scenario that ended.                            *)
RowSeq == Seq([of : Nat, ok : BOOLEAN])

(* The ids that the calls of a program may leave in variables.             *)
IdsIn(P) == UNION {UNION {DOMAIN P.scenarios[i].steps[k].adds :
                                       k \in 1 .. Len(P.scenarios[i].steps)} :
                               i \in 1 .. Len(P.scenarios)}

(* What a run is at, knows and recorded.                                   *)
DemoType(P) ==
    [scenario : Nat, step : Nat \ {0}, built : BOOLEAN, stale : BOOLEAN,
     known : SUBSET IdsIn(P), rows : RowSeq, hurt : SUBSET Nat,
     exit : {"running", "0", "1"}]

(* Changes of fields that keep their types.                                *)
LEMMA DemoMoves ==
    ASSUME NEW P, NEW d \in DemoType(P), NEW k \in Nat \ {0}, NEW known \in SUBSET IdsIn(P)
    PROVE  [d EXCEPT !.step = k, !.built = FALSE, !.known = known] \in DemoType(P)
  BY DEF DemoType

(* So does a row for the scenario that ended.                              *)
LEMMA DemoRecords ==
    ASSUME NEW P, NEW d \in DemoType(P), NEW rows \in RowSeq, NEW j \in Nat, NEW hurt \in SUBSET Nat
    PROVE  [d EXCEPT !.rows = rows, !.scenario = j, !.step = 1, !.built = FALSE,
                     !.hurt = hurt] \in DemoType(P)
<1> 1 \in Nat \ {0}
  OBVIOUS
<1>. QED  BY DEF DemoType

(* Amounts are integers.                                                   *)
HasType(h) == \A x \in DOMAIN h : h[x] \in Int

(* One of the scenarios, and not the setup or the end.                     *)
In(P, i) == i \in 1 .. Len(P.scenarios)

(* A run is in the setup, in a scenario, or through.                       *)
PlaceInv(P, i, k) ==
    /\ i \in 0 .. Len(P.scenarios) + 1
    /\ In(P, i) => k <= Len(P.scenarios[i].steps) + 1

(* What the report says of a scenario, and whether it has a failure.       *)
RowOf(rows, j)     == \E n \in 1 .. Len(rows) : rows[n].of = j
PassedRow(rows, j) == \E n \in 1 .. Len(rows) : rows[n].of = j /\ rows[n].ok
FailedRow(rows)    == \E n \in 1 .. Len(rows) : ~rows[n].ok

(* Each scenario that is over has a row, or was skipped after a failure;   *)
(* one that is nested is entered only after the one it is nested in passed.*)
RowsInv(P, i, rows) ==
    /\ \A n \in 1 .. Len(rows) : In(P, rows[n].of) /\ rows[n].of < i
    /\ \A j \in 1 .. Len(P.scenarios) :
          j < i => RowOf(rows, j) \/ (P.scenarios[j].nested /\ FailedRow(rows))
    /\ In(P, i) /\ P.scenarios[i].nested => PassedRow(rows, i - 1)

(* The ids that were made are in variables.                                *)
KnownInv(P, i, k, rows, known) ==
    /\ In(P, i) => \A m \in 1 .. k - 1 :
          P.scenarios[i].steps[m].do = "tx"
             => DOMAIN P.scenarios[i].steps[m].adds \subseteq known
    /\ \A n \in 1 .. Len(rows) : rows[n].ok =>
          \A u : Gives(P.scenarios[rows[n].of], u) => u \in known

(* How much there is: what nothing takes from is at least what this        *)
(* scenario added, and what no earlier one touched is exactly that.        *)
AmountInv(P, spent, i, k, h) ==
    /\ \A x : x \notin spent => Of(h, x) >= 0
    /\ \A x : Untouched(P, i + 1, x) => Of(h, x) = 0
    /\ In(P, i) /\ Steady(P.scenarios[i]) => \A x :
          /\ x \notin spent => Of(h, x) >= Total(P.scenarios[i], x)[k - 1]
          /\ Untouched(P, i, x) => Of(h, x) = Total(P.scenarios[i], x)[k - 1]

(* What RowsTrue says of one scenario.                                     *)
Happens(P, hurt, h, i) ==
    \/ \A x \in DOMAIN P.scenarios[i].says : Of(h, x) >= P.scenarios[i].says[x]
    \/ Negative(P.scenarios[i]) /\ i \in hurt

(* What RowsTrue says of the whole report.                                 *)
TrueInv(P, rows, hurt, h) ==
    \A n \in 1 .. Len(rows) : rows[n].ok => Happens(P, hurt, h, rows[n].of)

(* What FailureIsDue says of one scenario.                                 *)
MadeIn(P, i) == UNION {DOMAIN c.adds : c \in {P.scenarios[i].steps[k] :
                                          k \in 1 .. Len(P.scenarios[i].steps)}}

(* The ids that the calls of a scenario read.                              *)
UsedIn(P, i) == UNION {c.uses : c \in {P.scenarios[i].steps[k] :
                                          k \in 1 .. Len(P.scenarios[i].steps)}}

(* The scenario was hurt, or one that it reads from.                       *)
Due(P, hurt, i) ==
    i \in hurt \/ \E j \in hurt : j < i /\ MadeIn(P, j) \cap UsedIn(P, i) # {}

(* What FailureIsDue says of the whole report.                             *)
DueInv(P, rows, hurt) ==
    \A n \in 1 .. Len(rows) : rows[n].ok \/ Due(P, hurt, rows[n].of)

(* What ExitTold says of the exit code.                                    *)
ToldInv(P, exit, hurt, h) ==
    /\ exit = "0" => \A i \in 1 .. Len(P.scenarios) : Happens(P, hurt, h, i)
    /\ exit = "1" => hurt # {}

(* All that is known of one run.                                           *)
RunInv(P, spent, d, h) ==
    /\ d \in DemoType(P) /\ HasType(h)
    /\ PlaceInv(P, d.scenario, d.step)
    /\ RowsInv(P, d.scenario, d.rows)
    /\ KnownInv(P, d.scenario, d.step, d.rows, d.known)
    /\ AmountInv(P, spent, d.scenario, d.step, h)
    /\ TrueInv(P, d.rows, d.hurt, h)
    /\ DueInv(P, d.rows, d.hurt)
    /\ ToldInv(P, d.exit, d.hurt, h)

(* What a call may do to what there is: nothing, or what it adds.          *)
Same(h, m)      == \A x : Of(m, x) = Of(h, x)
Gained(c, h, m) == \A x : Of(m, x) = Of(h, x) + Gain(c, x)

(* Typed amounts are integers.                                             *)
LEMMA OfType ==
    ASSUME NEW h, HasType(h)
    PROVE  \A x : Of(h, x) \in Int
  BY DEF Of, HasType

(* A call of a program is typed.                                           *)
LEMMA CallOf ==
    ASSUME NEW P, NEW spent, WellMade(P, spent), NEW i, In(P, i),
           NEW k \in 1 .. Len(P.scenarios[i].steps)
    PROVE  LET c == P.scenarios[i].steps[k]
           IN  /\ c.do \in {"fund", "tx", "aborts", "offer", "query", "equals",
                            "atLeast", "offline"}
               /\ DOMAIN c.adds \subseteq IdsIn(P)
               /\ \A x \in DOMAIN c.adds : c.adds[x] \in Int
               /\ \A x : Gain(c, x) \in Int /\ (x \notin spent => Gain(c, x) >= 0)
               /\ c.do = "query" => DOMAIN c.adds = {}
<1>1. i \in 1 .. Len(P.scenarios) /\ CallsTyped(P.scenarios[i], spent)
  BY DEF WellMade, Fits, In
<1>2. DOMAIN P.scenarios[i].steps[k].adds \subseteq IdsIn(P)
  BY <1>1 DEF IdsIn
<1>3. LET c == P.scenarios[i].steps[k]
      IN  /\ c.do \in {"fund", "tx", "aborts", "offer", "query", "equals",
                       "atLeast", "offline"}
          /\ \A x \in DOMAIN c.adds : c.adds[x] \in Int
          /\ \A x : Gain(c, x) \in Int /\ (x \notin spent => Gain(c, x) >= 0)
          /\ c.do = "query" => DOMAIN c.adds = {}
  BY <1>1 DEF CallsTyped, Gain, Touches
<1>. QED  BY <1>2, <1>3

(* With adds what the call gains.                                          *)
LEMMA WithGains ==
    ASSUME NEW h, HasType(h), NEW c, ~Compared(c), \A x \in DOMAIN c.adds : c.adds[x] \in Int
    PROVE  Gained(c, h, With(h, c.adds)) /\ HasType(With(h, c.adds))
<1>1. \A x : Of(c.adds, x) = Gain(c, x)
  BY DEF Of, Gain, Touches
<1>2. \A x \in DOMAIN h : h[x] \in Int
  BY DEF HasType
<1>3. /\ \A x : Of(With(h, c.adds), x) = Of(h, x) + Of(c.adds, x)
      /\ \A x \in DOMAIN With(h, c.adds) : With(h, c.adds)[x] \in Int
  BY <1>2, OfWith
<1>. QED  BY <1>1, <1>3 DEF Gained, HasType

(* A call that adds nothing.                                               *)
LEMMA GainsNothing ==
    ASSUME NEW h, HasType(h), NEW m, NEW c, Same(h, m), \A x : ~Touches(c, x)
    PROVE  Gained(c, h, m)
<1>1. \A x : Gain(c, x) = 0
  BY DEF Gain
<1>. QED  BY <1>1, OfType DEF Same, Gained

(* The next step of a scenario.                                            *)
LEMMA AmountNext ==
    ASSUME NEW P, NEW spent, WellMade(P, spent), NEW i, In(P, i),
           NEW k \in 1 .. Len(P.scenarios[i].steps), NEW h, HasType(h), NEW m,
           AmountInv(P, spent, i, k, h),
           Gained(P.scenarios[i].steps[k], h, m)
              \/ (P.scenarios[i].steps[k].do = "offer" /\ Same(h, m))
    PROVE  AmountInv(P, spent, i, k + 1, m)
<1> DEFINE s == P.scenarios[i]
           c == s.steps[k]
<1>1. CallsTyped(s, spent) /\ Len(P.scenarios) \in Nat /\ i \in Nat /\ k \in Nat
  BY DEF WellMade, Fits, In, CallsTyped
<1>2. \A x : Of(h, x) \in Int
  BY OfType
<1>3. \A x : Gain(c, x) \in Int /\ (x \notin spent => Gain(c, x) >= 0)
  BY CallOf
<1>4. \A x : x \notin spent => Of(m, x) >= 0
  BY <1>2, <1>3 DEF AmountInv, Gained, Same
<1>5. ASSUME NEW x, Untouched(P, i + 1, x) PROVE Of(m, x) = 0
  <2>1. Of(h, x) = 0
    BY <1>5 DEF AmountInv
  <2>2. ~Touches(c, x)
    BY <1>1, <1>5 DEF Untouched, In
  <2>3. Gain(c, x) = 0
    BY <2>2 DEF Gain
  <2>. QED  BY <2>1, <2>3 DEF Gained, Same
<1>6. ASSUME Steady(s), NEW x
      PROVE  /\ x \notin spent => Of(m, x) >= Total(s, x)[k + 1 - 1]
             /\ Untouched(P, i, x) => Of(m, x) = Total(s, x)[k + 1 - 1]
  <2>1. c.do # "offer"
    BY <1>6 DEF Steady
  <2>2. Of(m, x) = Of(h, x) + Gain(c, x)
    BY <2>1 DEF Gained
  <2>3. /\ x \notin spent => Of(h, x) >= Total(s, x)[k - 1]
        /\ Untouched(P, i, x) => Of(h, x) = Total(s, x)[k - 1]
    BY <1>6 DEF AmountInv
  <2>4. Total(s, x)[k] = Total(s, x)[k - 1] + Gain(c, x)
        /\ Total(s, x)[k] \in Int /\ Total(s, x)[k - 1] \in Int
    <3>1. k \in 0 .. Len(s.steps) /\ k - 1 \in 0 .. Len(s.steps)
      BY <1>1 DEF CallsTyped
    <3>. QED  BY <1>1, <3>1, Totals
  <2>5. k + 1 - 1 = k
    BY <1>1
  <2> HIDE DEF s, c
  <2>. QED  BY <1>2, <1>3, <2>2, <2>3, <2>4, <2>5
<1>. QED  BY <1>4, <1>5, <1>6 DEF AmountInv

(* Another scenario.                                                       *)
LEMMA AmountLeaves ==
    ASSUME NEW P, NEW spent, WellMade(P, spent), NEW i \in 0 .. Len(P.scenarios),
           NEW k, NEW h, HasType(h), NEW m,
           AmountInv(P, spent, i, k, h),
           \/ Same(h, m)
           \/ In(P, i) /\ \E n \in 1 .. Len(P.scenarios[i].steps) :
                             Gained(P.scenarios[i].steps[n], h, m),
           NEW j \in Nat, j > i
    PROVE  /\ AmountInv(P, spent, j, 1, m)
           /\ \A x : x \notin spent => Of(m, x) >= Of(h, x)
<1>1. Len(P.scenarios) \in Nat /\ i \in Nat
  BY DEF WellMade
<1>2. \A x : Of(h, x) \in Int
  BY OfType
<1>3. \A x : x \notin spent => Of(m, x) >= Of(h, x)
  BY <1>2, CallOf DEF Gained, Same
<1>4. \A x : x \notin spent => Of(m, x) >= 0
  <2>1. CASE Same(h, m)
    BY <2>1 DEF Same, AmountInv
  <2>2. CASE ~Same(h, m)
    <3>1. PICK n \in 1 .. Len(P.scenarios[i].steps) : Gained(P.scenarios[i].steps[n], h, m)
      BY <2>2
    <3>2. \A x : /\ Gain(P.scenarios[i].steps[n], x) \in Int
                 /\ x \notin spent => Gain(P.scenarios[i].steps[n], x) >= 0
      BY <2>2, CallOf
    <3>. QED  BY <1>2, <3>1, <3>2 DEF Gained, AmountInv
  <2>. QED  BY <2>1, <2>2
<1>5. ASSUME NEW x, Untouched(P, i + 1, x) PROVE Of(m, x) = 0
  <2>1. Of(h, x) = 0
    BY <1>5 DEF AmountInv
  <2>2. In(P, i) => \A n \in 1 .. Len(P.scenarios[i].steps) : Gain(P.scenarios[i].steps[n], x) = 0
    BY <1>1, <1>5 DEF Untouched, In, Gain
  <2>. QED  BY <2>1, <2>2 DEF Gained, Same
<1>6. \A x : Untouched(P, j, x) \/ Untouched(P, j + 1, x) => Untouched(P, i + 1, x)
  <2>1. \A n \in 1 .. Len(P.scenarios) : n < i + 1 => n < j /\ n < j + 1
    BY <1>1
  <2>. QED  BY <2>1 DEF Untouched
<1>7. ASSUME In(P, j), NEW x
      PROVE  /\ x \notin spent => Of(m, x) >= Total(P.scenarios[j], x)[1 - 1]
             /\ Untouched(P, j, x) => Of(m, x) = Total(P.scenarios[j], x)[1 - 1]
  <2>1. CallsTyped(P.scenarios[j], spent)
    BY <1>7 DEF WellMade, Fits, In
  <2>2. Total(P.scenarios[j], x)[1 - 1] = 0
    <3>1. Total(P.scenarios[j], x)[0] = 0
      BY <2>1, Totals
    <3>. QED  BY <3>1
  <2>. QED  BY <1>4, <1>5, <1>6, <2>2
<1>. QED  BY <1>3, <1>4, <1>5, <1>6, <1>7 DEF AmountInv

-----------------------------------------------------------------------------
(***************************************************************************)
(* 8. A call that is through, a scenario that ends, a run that ends.       *)
(***************************************************************************)

(* What happened stays, as nothing it speaks of is taken from.             *)
LEMMA HappensStays ==
    ASSUME NEW P, NEW spent, WellMade(P, spent), NEW hurt, NEW hurt2, hurt \subseteq hurt2,
           NEW h, NEW m, HasType(h), HasType(m),
           \A x : x \notin spent => Of(m, x) >= Of(h, x),
           NEW i, In(P, i), Happens(P, hurt, h, i)
    PROVE  Happens(P, hurt2, m, i)
<1>1. \A x : Of(h, x) \in Int /\ Of(m, x) \in Int
  BY OfType
<1>2. \A x \in DOMAIN P.scenarios[i].says :
         x \notin spent /\ P.scenarios[i].says[x] \in Int
  BY DEF WellMade, Fits, In, SumsUp
<1>. QED  BY <1>1, <1>2 DEF Happens

(* The steps of the setup, or of a scenario.                               *)
StepsAt(P, i) == IF i = 0 THEN P.setup ELSE P.scenarios[i].steps

(* The number of steps is one.                                             *)
LEMMA Counts ==
    ASSUME NEW P, NEW spent, WellMade(P, spent)
    PROVE  /\ Len(P.scenarios) \in Nat
           /\ Len(P.setup) \in Nat
           /\ \A i : In(P, i) => /\ i \in Nat \ {0} /\ Len(P.scenarios[i].steps) \in Nat
                                 /\ StepsAt(P, i) = P.scenarios[i].steps
  BY DEF WellMade, Fits, SetupPlain, In, CallsTyped, StepsAt

(* A call is through: what a run knows after it.                           *)
LEMMA ProceedsKeeps ==
    ASSUME NEW P, NEW spent, WellMade(P, spent), NEW d, NEW h, RunInv(P, spent, d, h),
           d.exit = "running", d.scenario <= Len(P.scenarios),
           d.step <= Len(StepsAt(P, d.scenario)),
           NEW ids \in SUBSET IdsIn(P), NEW m, HasType(m),
           LET c == StepsAt(P, d.scenario)[d.step]
           IN  /\ c.do = "tx" => DOMAIN c.adds \subseteq ids
               /\ Gained(c, h, m) \/ (c.do = "offer" /\ Same(h, m))
    PROVE  RunInv(P, spent, [d EXCEPT !.step = @ + 1, !.built = FALSE, !.known = @ \union ids], m)
<1> DEFINE e == [d EXCEPT !.step = @ + 1, !.built = FALSE, !.known = @ \union ids]
           i == d.scenario
           k == d.step
           c == StepsAt(P, i)[k]
<1>1. d \in DemoType(P) /\ HasType(h) /\ i \in Nat /\ k \in Nat \ {0} /\ d.known \in SUBSET IdsIn(P)
  BY DEF RunInv, DemoType
<1>2. /\ e \in DemoType(P) /\ e.scenario = i /\ e.step = k + 1 /\ e.known = d.known \union ids
      /\ e.rows = d.rows /\ e.hurt = d.hurt /\ e.exit = "running"
  <2> DEFINE st == d.step + 1
             kn == d.known \union ids
  <2>1. st \in Nat \ {0} /\ kn \in SUBSET IdsIn(P)
    <3>1. st \in Nat \ {0}
      BY <1>1
    <3>2. \A a, b \in SUBSET IdsIn(P) : a \union b \in SUBSET IdsIn(P)
      OBVIOUS
    <3>. QED  BY <1>1, <3>1, <3>2, Zenon
  <2>2. e = [d EXCEPT !.step = st, !.built = FALSE, !.known = kn]
    BY <1>1 DEF DemoType
  <2>3. /\ e.scenario = i /\ e.step = k + 1 /\ e.known = d.known \union ids
        /\ e.rows = d.rows /\ e.hurt = d.hurt /\ e.exit = "running"
    BY <1>1 DEF DemoType
  <2> HIDE DEF e, st, kn
  <2>4. e \in DemoType(P)
    BY <1>1, <2>1, <2>2, DemoMoves
  <2>. QED  BY <2>3, <2>4
<1>3. i = 0 \/ In(P, i)
  BY <1>1, Counts DEF In
<1>4. i = 0 => Same(h, m) /\ ~In(P, i)
  <2> SUFFICES ASSUME i = 0 PROVE Same(h, m)
    BY DEF In
  <2>1. c = P.setup[k] /\ k \in 1 .. Len(P.setup) /\ SetupPlain(P.setup)
    BY <1>1, Counts DEF StepsAt, WellMade
  <2>2. DOMAIN c.adds = {} /\ c.do # "offer"
    BY <2>1 DEF SetupPlain
  <2>3. \A x : Gain(c, x) = 0
    BY <2>2 DEF Gain, Touches
  <2>4. \A x : Of(h, x) \in Int
    BY <1>1, OfType
  <2> HIDE DEF c
  <2>. QED  BY <2>2, <2>3, <2>4 DEF Gained, Same, c
<1>5. In(P, i) => c = P.scenarios[i].steps[k] /\ k \in 1 .. Len(P.scenarios[i].steps)
  BY <1>1, Counts
<1>6. /\ AmountInv(P, spent, i, k + 1, m)
      /\ \A x : x \notin spent => Of(m, x) >= Of(h, x)
  <2>1. \A x : Of(h, x) \in Int
    BY <1>1, OfType
  <2>2. CASE i = 0
    <3>1. Same(h, m) /\ ~In(P, i) /\ AmountInv(P, spent, i, k, h)
      BY <1>4, <2>2 DEF RunInv
    <3>. QED  BY <2>1, <3>1 DEF AmountInv, Same
  <2>3. CASE In(P, i)
    <3>1. Gained(c, h, m) \/ (c.do = "offer" /\ Same(h, m))
      OBVIOUS
    <3>2. c = P.scenarios[i].steps[k] /\ k \in 1 .. Len(P.scenarios[i].steps)
      BY <1>5, <2>3
    <3>7. \A x : /\ Gain(P.scenarios[i].steps[k], x) \in Int
                 /\ x \notin spent => Gain(P.scenarios[i].steps[k], x) >= 0
      BY <2>3, <3>2, CallOf
    <3>3. \A x : Gain(c, x) \in Int /\ (x \notin spent => Gain(c, x) >= 0)
      BY <3>2, <3>7
    <3>4. AmountInv(P, spent, i, k, h)
      BY DEF RunInv
    <3> HIDE DEF c, i, k
    <3>5. AmountInv(P, spent, i, k + 1, m)
      BY <1>1, <2>3, <3>1, <3>2, <3>4, AmountNext
    <3>6. \A x : x \notin spent => Of(m, x) >= Of(h, x)
      BY <2>1, <3>1, <3>3 DEF Gained, Same
    <3>. QED  BY <3>5, <3>6
  <2>. QED  BY <1>3, <2>2, <2>3
<1>7. PlaceInv(P, i, k + 1)
  <2>1. PlaceInv(P, i, k) /\ (In(P, i) => k + 1 <= Len(P.scenarios[i].steps) + 1)
    BY <1>1, <1>5, Counts DEF RunInv
  <2>. QED  BY <2>1 DEF PlaceInv
<1>8. KnownInv(P, i, k + 1, d.rows, d.known \union ids)
  <2> DEFINE kn == d.known \union ids
             rs == d.rows
             k1 == k + 1
  <2>1. KnownInv(P, i, k, d.rows, d.known)
    BY DEF RunInv
  <2>2. ASSUME In(P, i), NEW n \in 1 .. k1 - 1, P.scenarios[i].steps[n].do = "tx"
        PROVE  DOMAIN P.scenarios[i].steps[n].adds \subseteq kn
    <3>1. n = k \/ n \in 1 .. k - 1
      BY <1>1
    <3>. QED  BY <1>5, <2>1, <2>2, <3>1 DEF KnownInv
  <2>3. \A n \in 1 .. Len(rs) : rs[n].ok => \A u : Gives(P.scenarios[rs[n].of], u) => u \in kn
    BY <2>1 DEF KnownInv
  <2> HIDE DEF c, i, k, k1, rs, kn
  <2>4. In(P, i) => \A n \in 1 .. k1 - 1 :
          P.scenarios[i].steps[n].do = "tx" => DOMAIN P.scenarios[i].steps[n].adds \subseteq kn
    BY <2>2
  <2>5. KnownInv(P, i, k1, rs, kn)
    BY <2>3, <2>4 DEF KnownInv
  <2>. QED  BY <2>5 DEF k1, rs, kn
<1>9. TrueInv(P, d.rows, d.hurt, m)
  <2>1. \A n \in 1 .. Len(d.rows) : In(P, d.rows[n].of)
    BY DEF RunInv, RowsInv
  <2>2. TrueInv(P, d.rows, d.hurt, h)
    BY DEF RunInv
  <2>. QED  BY <1>1, <1>6, <2>1, <2>2, HappensStays DEF TrueInv
<1>10. RowsInv(P, i, d.rows) /\ DueInv(P, d.rows, d.hurt) /\ ToldInv(P, "running", d.hurt, m)
  BY DEF RunInv, ToldInv
<1> HIDE DEF e
<1>11. RunInv(P, spent, e, m)
  BY <1>2, <1>6, <1>7, <1>8, <1>9, <1>10 DEF RunInv
<1>. QED  BY <1>11 DEF e

(* The scenario after one that ended.                                      *)
AfterOf(P, i, ok) ==
    IF ~ok /\ i + 1 <= Len(P.scenarios) /\ P.scenarios[i + 1].nested THEN i + 2 ELSE i + 1

(* A scenario ends: what its row must be for the invariant to stay.        *)
LEMMA RecordsKeeps ==
    ASSUME NEW P, NEW spent, WellMade(P, spent), NEW d, NEW h, RunInv(P, spent, d, h),
           d.exit = "running", In(P, d.scenario), NEW ok \in BOOLEAN,
           NEW hurt, d.hurt \subseteq hurt, hurt \subseteq d.hurt \union {d.scenario},
           NEW m, HasType(m),
           Same(h, m) \/ \E n \in 1 .. Len(P.scenarios[d.scenario].steps) :
                            Gained(P.scenarios[d.scenario].steps[n], h, m),
           ok => /\ Happens(P, hurt, m, d.scenario)
                 /\ \A u : Gives(P.scenarios[d.scenario], u) => u \in d.known,
           ~ok => Due(P, hurt, d.scenario)
    PROVE  RunInv(P, spent,
              [d EXCEPT !.rows = Append(@, [of |-> d.scenario, ok |-> ok]),
                        !.scenario = AfterOf(P, d.scenario, ok),
                        !.step = 1, !.built = FALSE, !.hurt = hurt], m)
<1> DEFINE i == d.scenario
           j == AfterOf(P, i, ok)
           rows == Append(d.rows, [of |-> i, ok |-> ok])
           e == [d EXCEPT !.rows = Append(@, [of |-> d.scenario, ok |-> ok]),
                        !.scenario = AfterOf(P, d.scenario, ok),
                        !.step = 1, !.built = FALSE, !.hurt = hurt]
<1>1. d \in DemoType(P) /\ HasType(h) /\ i \in Nat \ {0} /\ d.hurt \in SUBSET Nat
      /\ d.rows \in RowSeq /\ i <= Len(P.scenarios)
      /\ Len(P.scenarios) \in Nat
  BY Counts DEF RunInv, DemoType, In
<1>2. j \in {i + 1, i + 2} /\ j \in Nat \ {0} /\ j <= Len(P.scenarios) + 1 /\ j > i
      /\ (j = i + 2 => ~ok /\ In(P, i + 1) /\ P.scenarios[i + 1].nested)
      /\ (j = i + 1 /\ In(P, j) /\ P.scenarios[j].nested => ok)
  BY <1>1 DEF AfterOf, In
<1>3. /\ Len(rows) = Len(d.rows) + 1 /\ Len(d.rows) \in Nat
      /\ rows \in RowSeq
      /\ \A n \in 1 .. Len(d.rows) : rows[n] = d.rows[n]
      /\ rows[Len(d.rows) + 1].of = i /\ rows[Len(d.rows) + 1].ok = ok
  BY <1>1 DEF RowSeq
<1> HIDE DEF rows, j
<1>4. /\ e \in DemoType(P) /\ e.scenario = j /\ e.step = 1 /\ e.known = d.known
      /\ e.rows = rows /\ e.hurt = hurt /\ e.exit = "running"
  <2>1. hurt \in SUBSET Nat
    BY <1>1
  <2>2. e = [d EXCEPT !.rows = rows, !.scenario = j, !.step = 1, !.built = FALSE, !.hurt = hurt]
    BY <1>1 DEF rows, j, DemoType
  <2>3. /\ e.scenario = j /\ e.step = 1 /\ e.known = d.known
        /\ e.rows = rows /\ e.hurt = hurt /\ e.exit = "running"
    BY <1>1, <2>2 DEF DemoType
  <2>4. j \in Nat
    BY <1>2
  <2> HIDE DEF e
  <2>5. e \in DemoType(P)
    BY <1>1, <1>3, <2>1, <2>2, <2>4, DemoRecords
  <2>. QED  BY <2>3, <2>5
<1>5. PlaceInv(P, j, 1)
  <2>1. In(P, j) => 1 <= Len(P.scenarios[j].steps) + 1
    BY Counts
  <2>2. j \in 0 .. Len(P.scenarios) + 1
    BY <1>1, <1>2
  <2>. QED  BY <2>1, <2>2 DEF PlaceInv
<1>6. /\ AmountInv(P, spent, j, 1, m)
      /\ \A x : x \notin spent => Of(m, x) >= Of(h, x)
  <2>1. AmountInv(P, spent, i, d.step, h) /\ i \in 0 .. Len(P.scenarios)
    BY <1>1 DEF RunInv
  <2>. QED  BY <1>1, <1>2, <2>1, AmountLeaves
<1>7. \A n \in 1 .. Len(rows) :
        \/ n \in 1 .. Len(d.rows) /\ rows[n] = d.rows[n]
        \/ n = Len(d.rows) + 1 /\ rows[n].of = i /\ rows[n].ok = ok
  <2>1. \A n \in 1 .. Len(rows) : n \in 1 .. Len(d.rows) \/ n = Len(d.rows) + 1
    BY <1>3
  <2>2. \A n \in 1 .. Len(d.rows) : rows[n] = d.rows[n]
    BY <1>3
  <2>3. rows[Len(d.rows) + 1].of = i /\ rows[Len(d.rows) + 1].ok = ok
    BY <1>3
  <2>. QED  BY <2>1, <2>2, <2>3, Zenon
<1>8. Len(d.rows) + 1 \in 1 .. Len(rows) /\ \A n \in 1 .. Len(d.rows) : n \in 1 .. Len(rows)
  BY <1>3
<1>9. RowsInv(P, j, rows)
  <2>1. RowsInv(P, i, d.rows)
    BY DEF RunInv
  <2>2. \A n \in 1 .. Len(rows) : In(P, rows[n].of) /\ rows[n].of < j
    <3>1. \A n \in 1 .. Len(d.rows) : In(P, d.rows[n].of) /\ d.rows[n].of < i
      BY <2>1 DEF RowsInv
    <3>2. \A l : In(P, l) /\ l < i => l < j
      BY <1>1, <1>2 DEF In
    <3>3. i < j
      BY <1>1, <1>2
    <3>. QED  BY <1>7, <3>1, <3>2, <3>3
  <2>3. ASSUME NEW l \in 1 .. Len(P.scenarios), l < j
        PROVE  RowOf(rows, l) \/ (P.scenarios[l].nested /\ FailedRow(rows))
    <3>1. l < i \/ l = i \/ (l = i + 1 /\ j = i + 2)
      BY <1>1, <1>2, <2>3
    <3>2. CASE l < i
      BY <1>3, <1>8, <2>1, <3>2 DEF RowsInv, RowOf, FailedRow
    <3>3. CASE l = i
      BY <1>3, <1>8, <3>3 DEF RowOf
    <3>4. CASE l = i + 1 /\ j = i + 2
      BY <1>2, <1>3, <1>8, <3>4 DEF FailedRow
    <3>. QED  BY <3>1, <3>2, <3>3, <3>4
  <2>4. ASSUME In(P, j), P.scenarios[j].nested PROVE PassedRow(rows, j - 1)
    <3>1. j # i + 2
      <4> SUFFICES ASSUME j = i + 2 PROVE FALSE
        OBVIOUS
      <4>1. ~P.scenarios[j - 1].nested /\ j - 1 = i + 1
        BY <1>1, <2>4 DEF WellMade, Fits, In
      <4>. QED  BY <1>2, <4>1
    <3>2. j = i + 1 /\ ok /\ j - 1 = i
      BY <1>1, <1>2, <2>4, <3>1
    <3>. QED  BY <1>3, <1>8, <3>2 DEF PassedRow
  <2>. QED  BY <2>2, <2>3, <2>4 DEF RowsInv
<1>10. KnownInv(P, j, 1, rows, d.known)
  <2>1. KnownInv(P, i, d.step, d.rows, d.known)
    BY DEF RunInv
  <2>2. \A n \in 1 .. 1 - 1 : FALSE
    OBVIOUS
  <2>. QED  BY <1>7, <2>1, <2>2 DEF KnownInv
<1>11. TrueInv(P, rows, hurt, m)
  <2>1. \A n \in 1 .. Len(d.rows) : In(P, d.rows[n].of)
    BY DEF RunInv, RowsInv
  <2>2. TrueInv(P, d.rows, d.hurt, h)
    BY DEF RunInv
  <2>3. \A n \in 1 .. Len(d.rows) : d.rows[n].ok => Happens(P, hurt, m, d.rows[n].of)
    BY <1>1, <1>6, <2>1, <2>2, HappensStays DEF TrueInv
  <2>. QED  BY <1>7, <2>3 DEF TrueInv
<1>12. DueInv(P, rows, hurt)
  <2>1. DueInv(P, d.rows, d.hurt)
    BY DEF RunInv
  <2>2. \A n \in 1 .. Len(d.rows) : d.rows[n].ok \/ Due(P, hurt, d.rows[n].of)
    BY <2>1 DEF DueInv, Due
  <2>. QED  BY <1>7, <2>2 DEF DueInv
<1> HIDE DEF e
<1>13. RunInv(P, spent, e, m)
  BY <1>4, <1>5, <1>6, <1>9, <1>10, <1>11, <1>12 DEF RunInv, ToldInv
<1>. QED  BY <1>13 DEF e

(* A call of the setup or of a scenario.                                   *)
LEMMA CallAt ==
    ASSUME NEW P, NEW spent, WellMade(P, spent), NEW i \in 0 .. Len(P.scenarios),
           NEW k \in Nat \ {0}, k <= Len(StepsAt(P, i))
    PROVE  LET c == StepsAt(P, i)[k]
           IN  /\ DOMAIN c.adds \subseteq IdsIn(P)
               /\ \A x \in DOMAIN c.adds : c.adds[x] \in Int
               /\ c.do = "query" => DOMAIN c.adds = {}
               /\ i = 0 => c.do \in {"query", "fund"} /\ c.uses = {}
               /\ i # 0 => /\ In(P, i) /\ k \in 1 .. Len(P.scenarios[i].steps)
                           /\ c = P.scenarios[i].steps[k]
<1>1. CASE i = 0
  <2>1. StepsAt(P, i) = P.setup /\ k \in 1 .. Len(P.setup)
    BY <1>1, Counts DEF StepsAt
  <2>2. /\ P.setup[k].do \in {"query", "fund"} /\ P.setup[k].uses = {}
        /\ DOMAIN P.setup[k].adds = {}
    BY <2>1 DEF WellMade, SetupPlain
  <2>. QED  BY <1>1, <2>1, <2>2
<1>2. CASE i # 0
  <2>1. In(P, i) /\ StepsAt(P, i) = P.scenarios[i].steps
    BY <1>2, Counts DEF In, StepsAt
  <2>2. k \in 1 .. Len(P.scenarios[i].steps)
    BY <2>1, Counts
  <2>3. LET c == P.scenarios[i].steps[k]
        IN  /\ DOMAIN c.adds \subseteq IdsIn(P)
            /\ \A x \in DOMAIN c.adds : c.adds[x] \in Int
            /\ c.do = "query" => DOMAIN c.adds = {}
    BY <2>1, <2>2, CallOf
  <2>. QED  BY <1>2, <2>1, <2>2, <2>3
<1>. QED  BY <1>1, <1>2

(* The transaction's own flags say nothing of the invariant.               *)
LEMMA FlagsKeep ==
    ASSUME NEW P, NEW spent, NEW d, NEW h, RunInv(P, spent, d, h),
           NEW b \in BOOLEAN, NEW s \in BOOLEAN
    PROVE  /\ RunInv(P, spent, [d EXCEPT !.stale = s], h)
           /\ RunInv(P, spent, [d EXCEPT !.built = b, !.stale = s], h)
<1>1. d \in DemoType(P)
  BY DEF RunInv
<1>2. ASSUME NEW e \in DemoType(P), e.scenario = d.scenario, e.step = d.step, e.known = d.known,
             e.rows = d.rows, e.hurt = d.hurt, e.exit = d.exit
      PROVE  RunInv(P, spent, e, h)
  BY <1>2 DEF RunInv
<1> DEFINE e == [d EXCEPT !.stale = s]
           g == [d EXCEPT !.built = b, !.stale = s]
<1>3. e \in DemoType(P) /\ g \in DemoType(P)
  BY <1>1 DEF DemoType
<1>4. /\ e.scenario = d.scenario /\ e.step = d.step /\ e.known = d.known
      /\ e.rows = d.rows /\ e.hurt = d.hurt /\ e.exit = d.exit
  BY <1>1 DEF DemoType
<1>5. /\ g.scenario = d.scenario /\ g.step = d.step /\ g.known = d.known
      /\ g.rows = d.rows /\ g.hurt = d.hurt /\ g.exit = d.exit
  BY <1>1 DEF DemoType
<1> HIDE DEF e, g
<1>6. RunInv(P, spent, e, h) /\ RunInv(P, spent, g, h)
  BY <1>2, <1>3, <1>4, <1>5
<1>. QED  BY <1>6 DEF e, g

(* A comparison finds what the program expects.                            *)
LEMMA ComparesWell ==
    ASSUME NEW P, NEW spent, WellMade(P, spent), NEW i, In(P, i),
           NEW k \in 1 .. Len(P.scenarios[i].steps), NEW h, HasType(h),
           AmountInv(P, spent, i, k, h), Compared(P.scenarios[i].steps[k]),
           NEW x \in DOMAIN P.scenarios[i].steps[k].adds
    PROVE  IF P.scenarios[i].steps[k].do = "equals"
           THEN Of(h, x) = P.scenarios[i].steps[k].adds[x]
           ELSE Of(h, x) >= P.scenarios[i].steps[k].adds[x]
<1>1. Steady(P.scenarios[i]) /\ Untouched(P, i, x)
  BY DEF WellMade, Fits, In, SumsUp
<1>2. Of(h, x) = Total(P.scenarios[i], x)[k - 1]
  BY <1>1 DEF AmountInv
<1>3. IF P.scenarios[i].steps[k].do = "equals"
      THEN Total(P.scenarios[i], x)[k - 1] = P.scenarios[i].steps[k].adds[x]
      ELSE Total(P.scenarios[i], x)[k - 1] >= P.scenarios[i].steps[k].adds[x]
  BY DEF WellMade, Fits, In, SumsUp
<1>. QED  BY <1>2, <1>3

(* A call that fails throws: the scenario's row has its failure.           *)
LEMMA ThrowsKeeps ==
    ASSUME NEW P, NEW spent, WellMade(P, spent), NEW d, NEW h, RunInv(P, spent, d, h),
           d.exit = "running", In(P, d.scenario),
           NEW m, HasType(m),
           Same(h, m) \/ \E n \in 1 .. Len(P.scenarios[d.scenario].steps) :
                            Gained(P.scenarios[d.scenario].steps[n], h, m)
    PROVE  RunInv(P, spent,
              [d EXCEPT !.rows = Append(@, [of |-> d.scenario,
                                            ok |-> Negative(P.scenarios[d.scenario])]),
                        !.scenario = AfterOf(P, d.scenario, Negative(P.scenarios[d.scenario])),
                        !.step = 1, !.built = FALSE,
                        !.hurt = d.hurt \union {d.scenario}], m)
<1> DEFINE i == d.scenario
           ok == Negative(P.scenarios[i])
           hurt == d.hurt \union {i}
<1>1. ok \in BOOLEAN
  BY DEF Negative
<1>2. d.hurt \subseteq hurt /\ hurt \subseteq d.hurt \union {i} /\ i \in hurt
  OBVIOUS
<1>3. ok => Happens(P, hurt, m, i)
  BY <1>2 DEF Happens
<1>4. ok => \A u : ~Gives(P.scenarios[i], u)
  BY DEF WellMade, Fits, In, AbortsInControl, Gives
<1>5. Due(P, hurt, i)
  BY <1>2 DEF Due
<1> HIDE DEF ok, hurt
<1>6. RunInv(P, spent,
              [d EXCEPT !.rows = Append(@, [of |-> d.scenario, ok |-> ok]),
                        !.scenario = AfterOf(P, d.scenario, ok),
                        !.step = 1, !.built = FALSE, !.hurt = hurt], m)
  BY <1>1, <1>2, <1>3, <1>4, <1>5, RecordsKeeps
<1>. QED  BY <1>6 DEF ok, hurt

(* Outside of a scenario it ends the run.                                  *)
LEMMA SetupThrows ==
    ASSUME NEW P, NEW spent, NEW d, NEW h, RunInv(P, spent, d, h), d.scenario = 0
    PROVE  RunInv(P, spent, [d EXCEPT !.exit = "1", !.hurt = d.hurt \union {0}], h)
<1> DEFINE hurt == d.hurt \union {0}
           e == [d EXCEPT !.exit = "1", !.hurt = hurt]
<1>1. d \in DemoType(P) /\ d.hurt \in SUBSET Nat
  BY DEF RunInv, DemoType
<1>2. hurt \in SUBSET Nat /\ d.hurt \subseteq hurt /\ hurt # {}
  BY <1>1
<1>3. \A n \in 1 .. Len(d.rows) : FALSE
  <2>1. \A n \in 1 .. Len(d.rows) : In(P, d.rows[n].of) /\ d.rows[n].of < 0
    BY DEF RunInv, RowsInv
  <2>. QED  BY <2>1 DEF In
<1> HIDE DEF hurt
<1>4. /\ e \in DemoType(P) /\ e.scenario = d.scenario /\ e.step = d.step /\ e.known = d.known
      /\ e.rows = d.rows /\ e.hurt = hurt /\ e.exit = "1"
  BY <1>1, <1>2 DEF DemoType
<1> HIDE DEF e
<1>5. TrueInv(P, d.rows, hurt, h) /\ DueInv(P, d.rows, hurt) /\ ToldInv(P, "1", hurt, h)
  BY <1>2, <1>3 DEF TrueInv, DueInv, ToldInv
<1>6. RunInv(P, spent, e, h)
  BY <1>4, <1>5 DEF RunInv
<1>. QED  BY <1>6 DEF e, hurt

(* An id that is missing was not made by a scenario that failed by itself. *)
LEMMA MissingId ==
    ASSUME NEW P, NEW spent, WellMade(P, spent), NEW d, NEW h, RunInv(P, spent, d, h),
           In(P, d.scenario), NEW k, k = d.step, k \in 1 .. Len(P.scenarios[d.scenario].steps),
           NEW u \in P.scenarios[d.scenario].steps[k].uses, u \notin d.known
    PROVE  ~Negative(P.scenarios[d.scenario]) /\ Due(P, d.hurt, d.scenario)
<1> DEFINE i == d.scenario
<1>1. Sourced(P, i, k, u) /\ i \in Nat /\ Len(P.scenarios) \in Nat
  BY DEF WellMade, Fits, In
<1>2. /\ RowsInv(P, i, d.rows) /\ KnownInv(P, i, k, d.rows, d.known) /\ DueInv(P, d.rows, d.hurt)
  BY DEF RunInv
<1>3. ~ \E m \in 1 .. k - 1 : /\ P.scenarios[i].steps[m].do = "tx"
                              /\ u \in DOMAIN P.scenarios[i].steps[m].adds
  BY <1>2 DEF KnownInv
<1>4. \A j : PassedRow(d.rows, j) => ~Gives(P.scenarios[j], u)
  BY <1>2 DEF KnownInv, PassedRow
<1>5. ~(P.scenarios[i].nested /\ Gives(P.scenarios[i - 1], u))
  BY <1>2, <1>4 DEF RowsInv
<1>6. ~Negative(P.scenarios[i])
      /\ \E j \in 1 .. i - 1 : Root(P.scenarios[j]) /\ Gives(P.scenarios[j], u)
  BY <1>1, <1>3, <1>5 DEF Sourced
<1>7. PICK j \in 1 .. i - 1 : Root(P.scenarios[j]) /\ Gives(P.scenarios[j], u)
  BY <1>6
<1>8. j \in 1 .. Len(P.scenarios) /\ j < i
  BY <1>1 DEF In
<1>9. ~P.scenarios[j].nested
  BY <1>7 DEF Root
<1>10. PICK n \in 1 .. Len(d.rows) : d.rows[n].of = j
  BY <1>2, <1>8, <1>9 DEF RowsInv, RowOf
<1>11. ~d.rows[n].ok
  BY <1>4, <1>7, <1>10 DEF PassedRow
<1>12. Due(P, d.hurt, j)
  BY <1>2, <1>10, <1>11 DEF DueInv
<1>13. UsedIn(P, j) = {}
  BY <1>7 DEF Root, UsedIn
<1>14. j \in d.hurt
  BY <1>12, <1>13 DEF Due
<1>15. u \in MadeIn(P, j) /\ u \in UsedIn(P, i)
  <2>1. u \in MadeIn(P, j)
    BY <1>7 DEF Gives, MadeIn
  <2>2. u \in UsedIn(P, i)
    BY DEF UsedIn
  <2>. QED  BY <2>1, <2>2
<1>. QED  BY <1>6, <1>8, <1>14, <1>15 DEF Due

-----------------------------------------------------------------------------
(***************************************************************************)
(* 9. The steps of the runs.                                               *)
(***************************************************************************)

(* What the runs are at, and what they may take from.                      *)
ProgramOf(p) == Program(program[p])
SpentIn(P)   == CHOOSE spent : WellMade(P, spent)

(* The inductive invariant: every run is of a well made program, and what  *)
(* is known of one run holds of each.                                      *)
DemoInv ==
    /\ program \in [Process -> ProgramName]
    /\ DOMAIN demo = Process /\ DOMAIN has = Process
    /\ \A p \in Process : /\ WellMade(ProgramOf(p), SpentIn(ProgramOf(p)))
                          /\ RunInv(ProgramOf(p), SpentIn(ProgramOf(p)), demo[p], has[p])

(* What the other runs are at stays; some transactions become stale.       *)
LEMMA OneRun ==
    ASSUME DemoInv, NEW p \in Process, UNCHANGED program,
           DOMAIN demo' = Process, DOMAIN has' = Process,
           RunInv(ProgramOf(p), SpentIn(ProgramOf(p)), demo'[p], has'[p]),
           \A q \in Process : q # p =>
              /\ has'[q] = has[q]
              /\ demo'[q] = demo[q] \/ demo'[q] = [demo[q] EXCEPT !.stale = TRUE]
    PROVE  DemoInv'
<1>1. \A q \in Process : ProgramOf(q)' = ProgramOf(q)
  BY DEF ProgramOf
<1>2. ASSUME NEW q \in Process
      PROVE  RunInv(ProgramOf(q), SpentIn(ProgramOf(q)), demo'[q], has'[q])
  <2>1. RunInv(ProgramOf(q), SpentIn(ProgramOf(q)), demo[q], has[q])
    BY DEF DemoInv
  <2>2. RunInv(ProgramOf(q), SpentIn(ProgramOf(q)), [demo[q] EXCEPT !.stale = TRUE], has[q])
    BY <2>1, FlagsKeep
  <2>. QED  BY <2>1, <2>2
<1>. QED  BY <1>1, <1>2 DEF DemoInv

(* A step of one run that no other sees.                                   *)
LEMMA MovesAlone ==
    ASSUME DemoInv, NEW p \in Process, NEW s, NEW m, UNCHANGED program, Sets(p, s),
           has' = [has EXCEPT ![p] = m],
           RunInv(ProgramOf(p), SpentIn(ProgramOf(p)), s, m)
    PROVE  DemoInv'
<1>1. DOMAIN demo = Process /\ DOMAIN has = Process
  BY DEF DemoInv
<1>2. /\ DOMAIN demo' = Process /\ DOMAIN has' = Process
      /\ demo'[p] = s /\ has'[p] = m
      /\ \A q \in Process : q # p => demo'[q] = demo[q] /\ has'[q] = has[q]
  BY <1>1 DEF Sets
<1>. QED  BY <1>2, OneRun

(* A step of one run that changes nothing of what there is.                *)
LEMMA LooksOnly ==
    ASSUME DemoInv, NEW p \in Process, NEW s, UNCHANGED <<program, has>>, Sets(p, s),
           RunInv(ProgramOf(p), SpentIn(ProgramOf(p)), s, has[p])
    PROVE  DemoInv'
<1>1. DOMAIN demo = Process /\ DOMAIN has = Process
  BY DEF DemoInv
<1>2. /\ DOMAIN demo' = Process /\ DOMAIN has' = Process
      /\ demo'[p] = s /\ has'[p] = has[p]
      /\ \A q \in Process : q # p => demo'[q] = demo[q] /\ has'[q] = has[q]
  BY <1>1 DEF Sets
<1>. QED  BY <1>2, OneRun

(* A step of one run that spends a gas coin.                               *)
LEMMA Spending ==
    ASSUME DemoInv, NEW p \in Process, NEW s, NEW m, UNCHANGED program, SpendsGas(p, s),
           has' = [has EXCEPT ![p] = m],
           RunInv(ProgramOf(p), SpentIn(ProgramOf(p)), s, m)
    PROVE  DemoInv'
<1>1. DOMAIN has = Process
  BY DEF DemoInv
<1>2. DOMAIN demo' = Process /\ DOMAIN has' = Process /\ demo'[p] = s /\ has'[p] = m
  BY <1>1 DEF SpendsGas
<1>3. \A q \in Process : q # p =>
         /\ has'[q] = has[q]
         /\ demo'[q] = demo[q] \/ demo'[q] = [demo[q] EXCEPT !.stale = TRUE]
  BY <1>1 DEF SpendsGas
<1>. QED  BY <1>2, <1>3, OneRun

(* Where a run is that has a call to make.                                 *)
LEMMA AtCall ==
    ASSUME DemoInv, NEW p \in Process, Calling(p)
    PROVE  LET P == ProgramOf(p)
               d == demo[p]
           IN  /\ WellMade(P, SpentIn(P)) /\ RunInv(P, SpentIn(P), d, has[p])
               /\ d.exit = "running" /\ d.scenario <= Len(P.scenarios)
               /\ d.scenario \in 0 .. Len(P.scenarios)
               /\ d.step \in Nat \ {0} /\ d.step <= Len(StepsAt(P, d.scenario))
               /\ Steps(p) = StepsAt(P, d.scenario)
               /\ This(p) = StepsAt(P, d.scenario)[d.step]
               /\ HasType(has[p])
<1> DEFINE P == ProgramOf(p)
           d == demo[p]
<1>1. WellMade(P, SpentIn(P)) /\ RunInv(P, SpentIn(P), d, has[p])
  BY DEF DemoInv
<1>2. /\ d.exit = "running" /\ d.scenario <= Len(P.scenarios)
      /\ Steps(p) = StepsAt(P, d.scenario) /\ d.step <= Len(StepsAt(P, d.scenario))
      /\ This(p) = StepsAt(P, d.scenario)[d.step]
  BY DEF Calling, Running, Scenarios, Steps, This, StepsAt, ProgramOf
<1>3. d.scenario \in Nat /\ d.step \in Nat \ {0} /\ HasType(has[p])
  BY <1>1 DEF RunInv, DemoType
<1>4. Len(P.scenarios) \in Nat
  BY <1>1, Counts
<1>. QED  BY <1>1, <1>2, <1>3, <1>4

(* The scenario that is next, in terms of the program alone.               *)
LEMMA AfterIs ==
    ASSUME NEW p, demo[p].scenario \in Nat, NEW ok
    PROVE  After(p, ok) = AfterOf(ProgramOf(p), demo[p].scenario, ok)
<1>1. demo[p].scenario + 1 + 1 = demo[p].scenario + 2
  OBVIOUS
<1>. QED  BY <1>1 DEF After, AfterOf, Scenarios, ProgramOf

(* A call that fails: nothing happened, or the answer is lost.             *)
LEMMA FailsKeeps ==
    ASSUME DemoInv, NEW p \in Process, Calling(p), NEW m,
           m = has[p] \/ (This(p).do \in {"tx", "offer"} /\ m = With(has[p], This(p).adds))
    PROVE  RunInv(ProgramOf(p), SpentIn(ProgramOf(p)), Fails(p), m)
<1> DEFINE P == ProgramOf(p)
           spent == SpentIn(P)
           d == demo[p]
           h == has[p]
           i == d.scenario
           c == This(p)
<1>1. /\ WellMade(P, spent) /\ RunInv(P, spent, d, h)
      /\ d.exit = "running" /\ i <= Len(P.scenarios)
      /\ i \in 0 .. Len(P.scenarios)
      /\ d.step \in Nat \ {0} /\ d.step <= Len(StepsAt(P, i))
      /\ c = StepsAt(P, i)[d.step] /\ HasType(h)
  BY AtCall
<1> HIDE DEF P, spent, d, h, i, c
<1>2. /\ \A x \in DOMAIN c.adds : c.adds[x] \in Int
      /\ i = 0 => c.do \in {"query", "fund"} /\ c.uses = {}
      /\ i # 0 => /\ In(P, i) /\ d.step \in 1 .. Len(P.scenarios[i].steps)
                  /\ c = P.scenarios[i].steps[d.step]
  BY <1>1, CallAt
<1>3. HasType(m) /\ (Same(h, m) \/ (i # 0 /\ Gained(c, h, m)))
  <2>1. CASE m = h
    BY <1>1, <2>1 DEF Same
  <2>2. CASE c.do \in {"tx", "offer"} /\ m = With(h, c.adds)
    <3>1. ~Compared(c)
      BY <2>2 DEF Compared
    <3>2. i # 0
      BY <1>2, <2>2
    <3>. QED  BY <1>1, <1>2, <2>2, <3>1, <3>2, WithGains
  <2>. QED  BY <2>1, <2>2 DEF h, c
<1>4. CASE c.do = "offer"
  <2>1. Gained(c, h, m) \/ (c.do = "offer" /\ Same(h, m))
    BY <1>3, <1>4
  <2>2. {} \in SUBSET IdsIn(P)
    OBVIOUS
  <2>3. RunInv(P, spent, [d EXCEPT !.step = @ + 1, !.built = FALSE, !.known = @ \union {}], m)
    BY <1>1, <1>3, <1>4, <2>1, <2>2, ProceedsKeeps DEF i
  <2>. QED  BY <1>4, <2>3 DEF Fails, Proceeds, c, d, P, spent
<1>5. CASE c.do # "offer" /\ i = 0
  <2>1. m = h
    BY <1>2, <1>5 DEF h, c
  <2>2. RunInv(P, spent, [d EXCEPT !.exit = "1", !.hurt = d.hurt \union {0}], h)
    BY <1>1, <1>5, SetupThrows DEF i
  <2>. QED  BY <1>5, <2>1, <2>2 DEF Fails, Throws, c, d, i, P, spent, h
<1>6. CASE c.do # "offer" /\ i # 0
  <2>1. In(P, i) /\ \E n \in 1 .. Len(P.scenarios[i].steps) : c = P.scenarios[i].steps[n]
    BY <1>2, <1>6
  <2>2. \/ Same(h, m)
        \/ \E n \in 1 .. Len(P.scenarios[i].steps) : Gained(P.scenarios[i].steps[n], h, m)
    BY <1>3, <2>1
  <2>3. RunInv(P, spent,
              [d EXCEPT !.rows = Append(@, [of |-> i, ok |-> Negative(P.scenarios[i])]),
                        !.scenario = AfterOf(P, i, Negative(P.scenarios[i])),
                        !.step = 1, !.built = FALSE, !.hurt = d.hurt \union {i}], m)
    BY <1>1, <1>3, <2>1, <2>2, ThrowsKeeps DEF i
  <2>4. Caught(p) = Negative(P.scenarios[i])
    BY DEF Caught, Negative, Scenarios, ProgramOf, P, i, d
  <2>7. After(p, Caught(p)) = AfterOf(P, i, Caught(p))
    BY <1>1, AfterIs DEF P, i, d
  <2>5. Fails(p) = Records(p, Caught(p), d.hurt \union {i})
    BY <1>6 DEF Fails, Throws, c, d, i
  <2>6. Fails(p) = [d EXCEPT !.rows = Append(@, [of |-> i, ok |-> Caught(p)]),
                             !.scenario = After(p, Caught(p)),
                             !.step = 1, !.built = FALSE, !.hurt = d.hurt \union {i}]
    BY <2>5 DEF Records, d, i
  <2>. QED  BY <2>3, <2>4, <2>6, <2>7 DEF P, spent
<1>. QED  BY <1>4, <1>5, <1>6 DEF P, spent

(* The faucet pays, or a computation off the chain is done.                *)
LEMMA FundsKeeps ==
    ASSUME DemoInv, NEW p \in Process, Funds(p)
    PROVE  DemoInv'
<1> DEFINE P == ProgramOf(p)
           d == demo[p]
           c == This(p)
           m == With(has[p], c.adds)
<1>1. Calling(p) /\ c.do \in {"fund", "offline"}
  BY DEF Funds, Does
<1>2. /\ WellMade(P, SpentIn(P)) /\ RunInv(P, SpentIn(P), d, has[p])
      /\ d.exit = "running" /\ d.scenario <= Len(P.scenarios)
      /\ d.scenario \in 0 .. Len(P.scenarios)
      /\ d.step \in Nat \ {0} /\ d.step <= Len(StepsAt(P, d.scenario))
      /\ c = StepsAt(P, d.scenario)[d.step] /\ HasType(has[p])
  BY <1>1, AtCall
<1> HIDE DEF P, d, c, m
<1>3. \A x \in DOMAIN c.adds : c.adds[x] \in Int
  BY <1>2, CallAt
<1>4. ~Compared(c) /\ c.do # "tx"
  BY <1>1 DEF Compared
<1>5. Gained(c, has[p], m) /\ HasType(m)
  BY <1>2, <1>3, <1>4, WithGains DEF m
<1>6. {} \in SUBSET IdsIn(P)
  OBVIOUS
<1>7. RunInv(P, SpentIn(P), [d EXCEPT !.step = @ + 1, !.built = FALSE, !.known = @ \union {}], m)
  BY <1>2, <1>4, <1>5, <1>6, ProceedsKeeps
<1>8. RunInv(ProgramOf(p), SpentIn(ProgramOf(p)), Proceeds(p, {}), m)
  BY <1>7 DEF Proceeds, P, d
<1>9. UNCHANGED program /\ Sets(p, Proceeds(p, {})) /\ has' = [has EXCEPT ![p] = m]
  BY DEF Funds, m, c
<1>. QED  BY <1>8, <1>9, MovesAlone

(* A transaction executes: what it adds is there, and the run knows the    *)
(* ids.                                                                    *)
LEMMA ExecutesKeeps ==
    ASSUME DemoInv, NEW p \in Process, Executes(p)
    PROVE  DemoInv'
<1> DEFINE P == ProgramOf(p)
           d == demo[p]
           c == This(p)
           m == With(has[p], c.adds)
<1>1. Calling(p) /\ c.do \in {"tx", "offer"}
  BY DEF Executes, Fresh, IsTx, Does
<1>2. /\ WellMade(P, SpentIn(P)) /\ RunInv(P, SpentIn(P), d, has[p])
      /\ d.exit = "running" /\ d.scenario <= Len(P.scenarios)
      /\ d.scenario \in 0 .. Len(P.scenarios)
      /\ d.step \in Nat \ {0} /\ d.step <= Len(StepsAt(P, d.scenario))
      /\ c = StepsAt(P, d.scenario)[d.step] /\ HasType(has[p])
  BY <1>1, AtCall
<1> HIDE DEF P, d, c, m
<1>3. DOMAIN c.adds \subseteq IdsIn(P) /\ \A x \in DOMAIN c.adds : c.adds[x] \in Int
  BY <1>2, CallAt
<1>4. ~Compared(c)
  BY <1>1 DEF Compared
<1>5. Gained(c, has[p], m) /\ HasType(m)
  BY <1>2, <1>3, <1>4, WithGains DEF m
<1>6. RunInv(P, SpentIn(P), [d EXCEPT !.step = @ + 1, !.built = FALSE,
                                      !.known = @ \union DOMAIN c.adds], m)
  BY <1>2, <1>3, <1>5, ProceedsKeeps
<1>7. RunInv(ProgramOf(p), SpentIn(ProgramOf(p)), Proceeds(p, DOMAIN c.adds), m)
  BY <1>6 DEF Proceeds, P, d
<1>8. /\ UNCHANGED program /\ SpendsGas(p, Proceeds(p, DOMAIN c.adds))
      /\ has' = [has EXCEPT ![p] = m]
  BY DEF Executes, m, c
<1>. QED  BY <1>7, <1>8, Spending

(* A query, or a comparison that finds what is expected.                   *)
LEMMA LooksKeep ==
    ASSUME DemoInv, NEW p \in Process, Calling(p),
           This(p).do \in {"query", "equals", "atLeast"},
           Sets(p, Proceeds(p, {})), UNCHANGED <<program, has>>
    PROVE  DemoInv'
<1> DEFINE P == ProgramOf(p)
           d == demo[p]
           c == This(p)
<1>1. c.do \in {"query", "equals", "atLeast"}
  OBVIOUS
<1>2. /\ WellMade(P, SpentIn(P)) /\ RunInv(P, SpentIn(P), d, has[p])
      /\ d.exit = "running" /\ d.scenario <= Len(P.scenarios)
      /\ d.scenario \in 0 .. Len(P.scenarios)
      /\ d.step \in Nat \ {0} /\ d.step <= Len(StepsAt(P, d.scenario))
      /\ c = StepsAt(P, d.scenario)[d.step] /\ HasType(has[p])
  BY AtCall
<1> HIDE DEF P, d, c
<1>3. c.do = "query" => DOMAIN c.adds = {}
  BY <1>2, CallAt
<1>4. c.do # "tx" /\ \A x : ~Touches(c, x)
  BY <1>1, <1>3 DEF Compared, Touches
<1>5. Gained(c, has[p], has[p])
  BY <1>2, <1>4, GainsNothing DEF Same
<1>6. {} \in SUBSET IdsIn(P)
  OBVIOUS
<1>7. RunInv(P, SpentIn(P),
             [d EXCEPT !.step = @ + 1, !.built = FALSE, !.known = @ \union {}], has[p])
  BY <1>2, <1>4, <1>5, <1>6, ProceedsKeeps
<1>8. RunInv(ProgramOf(p), SpentIn(ProgramOf(p)), Proceeds(p, {}), has[p])
  BY <1>7 DEF Proceeds, P, d
<1>. QED  BY <1>8, LooksOnly

(* A query answers.                                                        *)
LEMMA ReadsKeeps ==
    ASSUME DemoInv, NEW p \in Process, Reads(p)
    PROVE  DemoInv'
<1>1. Calling(p) /\ This(p).do = "query"
  BY DEF Reads, Does
<1>. QED  BY <1>1, LooksKeep DEF Reads

(* A comparison finds what it expects, so a run fails there only when the  *)
(* node does.                                                              *)
LEMMA ComparesKeeps ==
    ASSUME DemoInv, NEW p \in Process, Compares(p)
    PROVE  DemoInv'
<1> DEFINE P == ProgramOf(p)
           d == demo[p]
           c == This(p)
<1>1. Calling(p) /\ c.do \in {"equals", "atLeast"}
  BY DEF Compares, Does
<1>2. /\ WellMade(P, SpentIn(P)) /\ RunInv(P, SpentIn(P), d, has[p])
      /\ d.scenario \in 0 .. Len(P.scenarios)
      /\ d.step \in Nat \ {0} /\ d.step <= Len(StepsAt(P, d.scenario))
      /\ c = StepsAt(P, d.scenario)[d.step] /\ HasType(has[p])
  BY <1>1, AtCall
<1> HIDE DEF P, d, c
<1>3. /\ d.scenario = 0 => c.do \in {"query", "fund"}
      /\ d.scenario # 0 => /\ In(P, d.scenario)
                           /\ d.step \in 1 .. Len(P.scenarios[d.scenario].steps)
                           /\ c = P.scenarios[d.scenario].steps[d.step]
  BY <1>2, CallAt
<1>4. /\ In(P, d.scenario) /\ d.step \in 1 .. Len(P.scenarios[d.scenario].steps)
      /\ c = P.scenarios[d.scenario].steps[d.step]
  BY <1>1, <1>3
<1>5. AmountInv(P, SpentIn(P), d.scenario, d.step, has[p])
  BY <1>2 DEF RunInv
<1>6. Compared(P.scenarios[d.scenario].steps[d.step])
  BY <1>1, <1>4 DEF Compared
<1>7. \A x \in DOMAIN P.scenarios[d.scenario].steps[d.step].adds :
         IF P.scenarios[d.scenario].steps[d.step].do = "equals"
         THEN Of(has[p], x) = P.scenarios[d.scenario].steps[d.step].adds[x]
         ELSE Of(has[p], x) >= P.scenarios[d.scenario].steps[d.step].adds[x]
  BY <1>2, <1>4, <1>5, <1>6, ComparesWell
<1>8. Expected(p)
  BY <1>4, <1>7 DEF Expected, c
<1>. QED  BY <1>1, <1>8, LooksKeep DEF Compares, c

(* A transaction is built over the gas coins of now.                       *)
LEMMA BuildsKeeps ==
    ASSUME DemoInv, NEW p \in Process, Builds(p)
    PROVE  DemoInv'
<1>1. RunInv(ProgramOf(p), SpentIn(ProgramOf(p)), demo[p], has[p])
  BY DEF DemoInv
<1>2. RunInv(ProgramOf(p), SpentIn(ProgramOf(p)),
             [demo[p] EXCEPT !.built = TRUE, !.stale = FALSE], has[p])
  BY <1>1, FlagsKeep
<1>. QED  BY <1>2, LooksOnly DEF Builds

(* A call that fails by itself, with its answer lost or for a stale coin.   *)
LEMMA RefusedKeeps ==
    ASSUME DemoInv, NEW p \in Process, Refused(p) \/ CallFails(p)
    PROVE  DemoInv'
<1>1. Calling(p) /\ Sets(p, Fails(p)) /\ UNCHANGED <<program, has>>
  BY DEF Refused, CallFails, IsTx, Does
<1>2. RunInv(ProgramOf(p), SpentIn(ProgramOf(p)), Fails(p), has[p])
  BY <1>1, FailsKeeps
<1>. QED  BY <1>1, <1>2, LooksOnly

(* A transaction that executes while its answer is lost.                   *)
LEMMA AnswerLostKeeps ==
    ASSUME DemoInv, NEW p \in Process, AnswerLost(p)
    PROVE  DemoInv'
<1> DEFINE m == With(has[p], This(p).adds)
<1>1. /\ Calling(p) /\ This(p).do \in {"tx", "offer"} /\ UNCHANGED program
      /\ SpendsGas(p, Fails(p)) /\ has' = [has EXCEPT ![p] = m]
  BY DEF AnswerLost, Fresh, IsTx, Does
<1>2. m = With(has[p], This(p).adds)
  OBVIOUS
<1> HIDE DEF m
<1>3. RunInv(ProgramOf(p), SpentIn(ProgramOf(p)), Fails(p), m)
  BY <1>1, <1>2, FailsKeeps
<1>. QED  BY <1>1, <1>3, Spending

(* The id of a call is missing.                                            *)
LEMMA CannotBuildKeeps ==
    ASSUME DemoInv, NEW p \in Process, CannotBuild(p)
    PROVE  DemoInv'
<1> DEFINE P == ProgramOf(p)
           d == demo[p]
           i == d.scenario
           c == This(p)
<1>1. Calling(p) /\ \E u \in c.uses : u \notin d.known
  BY DEF CannotBuild, IsTx, Does, Unresolved, Resolves
<1>2. /\ WellMade(P, SpentIn(P)) /\ RunInv(P, SpentIn(P), d, has[p])
      /\ d.exit = "running" /\ i \in 0 .. Len(P.scenarios)
      /\ d.step \in Nat \ {0} /\ d.step <= Len(StepsAt(P, i))
      /\ c = StepsAt(P, i)[d.step] /\ HasType(has[p])
  BY <1>1, AtCall
<1> HIDE DEF P, d, i, c
<1>3. /\ i = 0 => c.uses = {}
      /\ i # 0 => /\ In(P, i) /\ d.step \in 1 .. Len(P.scenarios[i].steps)
                  /\ c = P.scenarios[i].steps[d.step]
  BY <1>2, CallAt
<1>4. /\ i # 0 /\ In(P, i) /\ d.step \in 1 .. Len(P.scenarios[i].steps)
      /\ c = P.scenarios[i].steps[d.step]
  BY <1>1, <1>3
<1>5. ~Negative(P.scenarios[i]) /\ Due(P, d.hurt, i)
  <2>1. PICK u \in P.scenarios[i].steps[d.step].uses : u \notin d.known
    BY <1>1, <1>4
  <2>. QED  BY <1>2, <1>4, <2>1, MissingId DEF i
<1>6. RunInv(P, SpentIn(P),
         [d EXCEPT !.rows = Append(@, [of |-> i, ok |-> FALSE]),
                   !.scenario = AfterOf(P, i, FALSE),
                   !.step = 1, !.built = FALSE, !.hurt = d.hurt], has[p])
  BY <1>2, <1>4, <1>5, RecordsKeeps DEF Same, i
<1>7. Caught(p) = FALSE
  BY <1>5 DEF Caught, Negative, Scenarios, ProgramOf, P, i, d
<1>8. After(p, FALSE) = AfterOf(P, i, FALSE)
  <2>1. demo[p].scenario \in Nat
    BY <1>2 DEF i, d
  <2>. QED  BY <2>1, AfterIs DEF P, i, d
<1>9. [Throws(p) EXCEPT !.hurt = d.hurt]
        = [d EXCEPT !.rows = Append(@, [of |-> i, ok |-> FALSE]),
                    !.scenario = AfterOf(P, i, FALSE),
                    !.step = 1, !.built = FALSE, !.hurt = d.hurt]
  <2>1. Throws(p) = Records(p, FALSE, d.hurt \union {i})
    BY <1>4, <1>7 DEF Throws, d, i
  <2>2. Throws(p) = [d EXCEPT !.rows = Append(@, [of |-> i, ok |-> FALSE]),
                              !.scenario = AfterOf(P, i, FALSE), !.step = 1,
                              !.built = FALSE, !.hurt = d.hurt \union {i}]
    BY <1>8, <2>1 DEF Records, d, i
  <2>3. d \in DemoType(P)
    BY <1>2 DEF RunInv
  <2>. QED  BY <2>2, <2>3 DEF DemoType
<1>10. RunInv(ProgramOf(p), SpentIn(ProgramOf(p)), [Throws(p) EXCEPT !.hurt = d.hurt], has[p])
  BY <1>6, <1>9 DEF P
<1>. QED  BY <1>10, LooksOnly DEF CannotBuild, d

(* Move aborts the transaction of the negative control, as its row says.   *)
LEMMA AbortsKeeps ==
    ASSUME DemoInv, NEW p \in Process, Aborts(p)
    PROVE  DemoInv'
<1> DEFINE P == ProgramOf(p)
           d == demo[p]
           i == d.scenario
           c == This(p)
           m == With(has[p], c.adds)
<1>1. Calling(p) /\ c.do = "aborts"
  BY DEF Aborts, Fresh, IsTx, Does
<1>2. /\ WellMade(P, SpentIn(P)) /\ RunInv(P, SpentIn(P), d, has[p])
      /\ d.exit = "running" /\ i \in 0 .. Len(P.scenarios)
      /\ d.step \in Nat \ {0} /\ d.step <= Len(StepsAt(P, i))
      /\ c = StepsAt(P, i)[d.step] /\ HasType(has[p])
  BY <1>1, AtCall
<1> HIDE DEF P, d, i, c, m
<1>3. /\ \A x \in DOMAIN c.adds : c.adds[x] \in Int
      /\ i = 0 => c.do \in {"query", "fund"}
      /\ i # 0 => /\ In(P, i) /\ d.step \in 1 .. Len(P.scenarios[i].steps)
                  /\ c = P.scenarios[i].steps[d.step]
  BY <1>2, CallAt
<1>4. /\ i # 0 /\ In(P, i) /\ d.step \in 1 .. Len(P.scenarios[i].steps)
      /\ c = P.scenarios[i].steps[d.step]
  BY <1>1, <1>3
<1>5. ~Compared(c)
  BY <1>1 DEF Compared
<1>6. Gained(c, has[p], m) /\ HasType(m)
  BY <1>2, <1>3, <1>5, WithGains DEF m
<1>7. AbortsInControl(P.scenarios[i]) /\ SumsUp(P.scenarios[i], SpentIn(P))
  BY <1>2, <1>4 DEF WellMade, Fits, In
<1>8. /\ Negative(P.scenarios[i])
      /\ \A x \in DOMAIN P.scenarios[i].says :
            x \in DOMAIN c.adds /\ c.adds[x] >= P.scenarios[i].says[x]
      /\ \A k \in 1 .. Len(P.scenarios[i].steps) : P.scenarios[i].steps[k].do = "aborts"
  BY <1>1, <1>4, <1>7 DEF AbortsInControl
<1>9. Happens(P, d.hurt, m, i)
  <2> SUFFICES ASSUME NEW x \in DOMAIN P.scenarios[i].says
               PROVE  Of(m, x) >= P.scenarios[i].says[x]
    BY DEF Happens
  <2>1. x \notin SpentIn(P) /\ P.scenarios[i].says[x] \in Int
    BY <1>7 DEF SumsUp
  <2>2. Of(has[p], x) >= 0 /\ Of(has[p], x) \in Int
    BY <1>2, <2>1, OfType DEF RunInv, AmountInv
  <2>3. Gain(c, x) = c.adds[x] /\ c.adds[x] >= P.scenarios[i].says[x] /\ c.adds[x] \in Int
    BY <1>3, <1>5, <1>8 DEF Gain, Touches
  <2>4. Of(m, x) = Of(has[p], x) + Gain(c, x)
    BY <1>6 DEF Gained
  <2>. QED  BY <2>1, <2>2, <2>3, <2>4
<1>10. \A u : ~Gives(P.scenarios[i], u)
  BY <1>8 DEF Gives
<1>11. RunInv(P, SpentIn(P),
         [d EXCEPT !.rows = Append(@, [of |-> i, ok |-> TRUE]),
                   !.scenario = AfterOf(P, i, TRUE),
                   !.step = 1, !.built = FALSE, !.hurt = d.hurt], m)
  <2>1. \E n \in 1 .. Len(P.scenarios[i].steps) : Gained(P.scenarios[i].steps[n], has[p], m)
    BY <1>4, <1>6
  <2>. QED  BY <1>2, <1>4, <1>6, <1>9, <1>10, <2>1, RecordsKeeps DEF i
<1>12. Caught(p) = TRUE
  BY <1>8 DEF Caught, Negative, Scenarios, ProgramOf, P, i, d
<1>13. After(p, TRUE) = AfterOf(P, i, TRUE)
  <2>1. demo[p].scenario \in Nat
    BY <1>2 DEF i, d
  <2>. QED  BY <2>1, AfterIs DEF P, i, d
<1>14. [Throws(p) EXCEPT !.hurt = d.hurt]
        = [d EXCEPT !.rows = Append(@, [of |-> i, ok |-> TRUE]),
                    !.scenario = AfterOf(P, i, TRUE),
                    !.step = 1, !.built = FALSE, !.hurt = d.hurt]
  <2>1. Throws(p) = Records(p, TRUE, d.hurt \union {i})
    BY <1>4, <1>12 DEF Throws, d, i
  <2>2. Throws(p) = [d EXCEPT !.rows = Append(@, [of |-> i, ok |-> TRUE]),
                              !.scenario = AfterOf(P, i, TRUE), !.step = 1,
                              !.built = FALSE, !.hurt = d.hurt \union {i}]
    BY <1>13, <2>1 DEF Records, d, i
  <2>3. d \in DemoType(P)
    BY <1>2 DEF RunInv
  <2>. QED  BY <2>2, <2>3 DEF DemoType
<1>15. RunInv(ProgramOf(p), SpentIn(ProgramOf(p)), [Throws(p) EXCEPT !.hurt = d.hurt], m)
  BY <1>11, <1>14 DEF P
<1>16. /\ UNCHANGED program /\ has' = [has EXCEPT ![p] = m]
       /\ Sets(p, [Throws(p) EXCEPT !.hurt = d.hurt])
  BY DEF Aborts, m, c, d
<1>. QED  BY <1>15, <1>16, MovesAlone

(* A scenario that is through did what it says.                            *)
LEMMA PassesKeeps ==
    ASSUME DemoInv, NEW p \in Process, Passes(p)
    PROVE  DemoInv'
<1> DEFINE P == ProgramOf(p)
           d == demo[p]
           i == d.scenario
           s == P.scenarios[i]
           h == has[p]
<1>1. /\ d.exit = "running" /\ In(P, i) /\ d.step > Len(s.steps)
      /\ Sets(p, Records(p, TRUE, d.hurt)) /\ UNCHANGED <<program, has>>
  <2>1. i # 0
    BY DEF Passes
  <2>. QED  BY <2>1 DEF Passes, Running, Scenarios, Steps, ProgramOf, In
<1>2. WellMade(P, SpentIn(P)) /\ RunInv(P, SpentIn(P), d, h)
  BY DEF DemoInv
<1>3. /\ i \in Nat /\ Len(s.steps) \in Nat /\ d.step = Len(s.steps) + 1 /\ HasType(h)
      /\ CallsTyped(s, SpentIn(P)) /\ SumsUp(s, SpentIn(P))
  <2>1. Len(s.steps) \in Nat /\ CallsTyped(s, SpentIn(P)) /\ SumsUp(s, SpentIn(P))
    BY <1>1, <1>2 DEF WellMade, Fits, In, CallsTyped
  <2>2. d.step <= Len(s.steps) + 1 /\ d.step \in Nat \ {0} /\ i \in Nat /\ HasType(h)
    BY <1>1, <1>2 DEF RunInv, PlaceInv, DemoType
  <2>. QED  BY <1>1, <2>1, <2>2
<1> HIDE DEF P, d, i, h
<1>4. Happens(P, d.hurt, h, i)
  <2> SUFFICES ASSUME NEW x \in DOMAIN s.says PROVE Of(h, x) >= s.says[x]
    BY DEF Happens
  <2>1. /\ x \notin SpentIn(P) /\ s.says[x] \in Int /\ Steady(s)
        /\ Total(s, x)[Len(s.steps)] >= s.says[x]
    BY <1>3 DEF SumsUp
  <2>2. Of(h, x) >= Total(s, x)[d.step - 1]
    BY <1>1, <1>2, <2>1 DEF RunInv, AmountInv, i
  <2>3. d.step - 1 = Len(s.steps)
    BY <1>3
  <2>4. Total(s, x)[Len(s.steps)] \in Int /\ Of(h, x) \in Int
    <3>1. Len(s.steps) \in 0 .. Len(s.steps)
      BY <1>3
    <3>2. Total(s, x)[Len(s.steps)] \in Int
      BY <1>3, <3>1, Totals
    <3>. QED  BY <1>3, <3>2, OfType
  <2> HIDE DEF s
  <2>. QED  BY <2>1, <2>2, <2>3, <2>4
<1>5. \A u : Gives(s, u) => u \in d.known
  <2>1. KnownInv(P, i, d.step, d.rows, d.known)
    BY <1>2 DEF RunInv, i
  <2>2. d.step - 1 = Len(s.steps)
    BY <1>3
  <2>. QED  BY <1>1, <2>1, <2>2 DEF KnownInv, Gives
<1>6. RunInv(P, SpentIn(P),
         [d EXCEPT !.rows = Append(@, [of |-> i, ok |-> TRUE]),
                   !.scenario = AfterOf(P, i, TRUE),
                   !.step = 1, !.built = FALSE, !.hurt = d.hurt], h)
  BY <1>1, <1>2, <1>3, <1>4, <1>5, RecordsKeeps DEF Same, i
<1>7. After(p, TRUE) = AfterOf(P, i, TRUE)
  <2>1. demo[p].scenario \in Nat
    BY <1>3 DEF i, d
  <2>. QED  BY <2>1, AfterIs DEF P, i, d
<1>8. RunInv(ProgramOf(p), SpentIn(ProgramOf(p)), Records(p, TRUE, demo[p].hurt), has[p])
  BY <1>6, <1>7 DEF Records, P, i, d, h
<1>. QED  BY <1>1, <1>8, LooksOnly DEF d

(* The setup is through: nothing is on the chain by the calls of the run.   *)
LEMMA BeginsKeeps ==
    ASSUME DemoInv, NEW p \in Process, Begins(p)
    PROVE  DemoInv'
<1> DEFINE P == ProgramOf(p)
           spent == SpentIn(P)
           d == demo[p]
           h == has[p]
           e == [d EXCEPT !.scenario = 1, !.step = 1]
<1>1. d.exit = "running" /\ d.scenario = 0 /\ Sets(p, e) /\ UNCHANGED <<program, has>>
  BY DEF Begins, Running
<1>2. WellMade(P, spent) /\ RunInv(P, spent, d, h)
  BY DEF DemoInv
<1> HIDE DEF P, d, h, spent
<1>3. d \in DemoType(P) /\ HasType(h) /\ Len(P.scenarios) \in Nat
  BY <1>2, Counts DEF RunInv
<1>4. \A n \in 1 .. Len(d.rows) : FALSE
  <2>1. \A n \in 1 .. Len(d.rows) : In(P, d.rows[n].of) /\ d.rows[n].of < 0
    BY <1>1, <1>2 DEF RunInv, RowsInv
  <2>. QED  BY <2>1 DEF In
<1>5. /\ e \in DemoType(P) /\ e.scenario = 1 /\ e.step = 1 /\ e.known = d.known
      /\ e.rows = d.rows /\ e.hurt = d.hurt /\ e.exit = "running"
  <2>1. 1 \in Nat /\ 1 \in Nat \ {0}
    OBVIOUS
  <2>2. e \in DemoType(P)
    BY <1>3, <2>1 DEF DemoType
  <2>3. /\ e.scenario = 1 /\ e.step = 1 /\ e.known = d.known
        /\ e.rows = d.rows /\ e.hurt = d.hurt /\ e.exit = d.exit
    BY <1>3 DEF DemoType
  <2>. QED  BY <1>1, <2>2, <2>3
<1>6. AmountInv(P, spent, 1, 1, h)
  <2>1. AmountInv(P, spent, 0, d.step, h) /\ 0 \in 0 .. Len(P.scenarios)
    BY <1>1, <1>2, <1>3 DEF RunInv
  <2>2. Same(h, h) /\ 1 \in Nat /\ 1 > 0
    BY DEF Same
  <2>. QED  BY <1>2, <1>3, <2>1, <2>2, AmountLeaves
<1>7. PlaceInv(P, 1, 1)
  <2>1. In(P, 1) => 1 <= Len(P.scenarios[1].steps) + 1
    BY <1>2, Counts
  <2>. QED  BY <1>3, <2>1 DEF PlaceInv
<1>8. RowsInv(P, 1, d.rows)
  <2>1. In(P, 1) => ~P.scenarios[1].nested
    BY <1>2 DEF WellMade, Fits, In
  <2>2. \A j \in 1 .. Len(P.scenarios) : ~(j < 1)
    BY <1>3
  <2>. QED  BY <1>4, <2>1, <2>2 DEF RowsInv
<1>9. KnownInv(P, 1, 1, d.rows, d.known)
  <2>1. \A m \in 1 .. 1 - 1 : FALSE
    OBVIOUS
  <2>. QED  BY <1>4, <2>1 DEF KnownInv
<1>10. /\ TrueInv(P, d.rows, d.hurt, h) /\ DueInv(P, d.rows, d.hurt)
       /\ ToldInv(P, "running", d.hurt, h)
  BY <1>4 DEF TrueInv, DueInv, ToldInv
<1> HIDE DEF e
<1>11. RunInv(P, spent, e, h)
  BY <1>3, <1>5, <1>6, <1>7, <1>8, <1>9, <1>10 DEF RunInv
<1>. QED  BY <1>1, <1>11, LooksOnly DEF P, spent, h

(* The exit code: every scenario passed, or some call failed.              *)
LEMMA ExitsKeeps ==
    ASSUME DemoInv, NEW p \in Process, Exits(p)
    PROVE  DemoInv'
<1> DEFINE P == ProgramOf(p)
           spent == SpentIn(P)
           d == demo[p]
           h == has[p]
           code == IF AllPassed(d.rows) THEN "0" ELSE "1"
           e == [d EXCEPT !.exit = code]
<1>1. d.scenario > Len(P.scenarios) /\ Sets(p, e) /\ UNCHANGED <<program, has>>
  BY DEF Exits, Scenarios, ProgramOf
<1>2. WellMade(P, spent) /\ RunInv(P, spent, d, h)
  BY DEF DemoInv
<1>3. code \in {"0", "1"} /\ (code = "0" => AllPassed(d.rows)) /\ (code = "1" => ~AllPassed(d.rows))
  OBVIOUS
<1> HIDE DEF P, d, h, spent, code
<1>4. d \in DemoType(P) /\ HasType(h) /\ Len(P.scenarios) \in Nat /\ d.scenario \in Nat
  BY <1>2, Counts DEF RunInv, DemoType
<1>5. code = "0" => \A j \in 1 .. Len(P.scenarios) : Happens(P, d.hurt, h, j)
  <2> SUFFICES ASSUME code = "0", NEW j \in 1 .. Len(P.scenarios)
               PROVE  Happens(P, d.hurt, h, j)
    OBVIOUS
  <2>1. \A n \in 1 .. Len(d.rows) : d.rows[n].ok
    BY <1>3 DEF AllPassed
  <2>2. j < d.scenario
    BY <1>1, <1>4
  <2>3. PICK n \in 1 .. Len(d.rows) : d.rows[n].of = j
    BY <1>2, <2>1, <2>2 DEF RunInv, RowsInv, RowOf, FailedRow
  <2>. QED  BY <1>2, <2>1, <2>3 DEF RunInv, TrueInv
<1>6. code = "1" => d.hurt # {}
  <2> SUFFICES ASSUME code = "1" PROVE d.hurt # {}
    OBVIOUS
  <2>1. PICK n \in 1 .. Len(d.rows) : ~d.rows[n].ok
    BY <1>3 DEF AllPassed
  <2>2. Due(P, d.hurt, d.rows[n].of)
    BY <1>2, <2>1 DEF RunInv, DueInv
  <2>. QED  BY <2>2 DEF Due
<1>7. /\ e \in DemoType(P) /\ e.scenario = d.scenario /\ e.step = d.step /\ e.known = d.known
      /\ e.rows = d.rows /\ e.hurt = d.hurt /\ e.exit = code
  BY <1>3, <1>4 DEF DemoType
<1>8. ToldInv(P, code, d.hurt, h)
  BY <1>5, <1>6 DEF ToldInv
<1> HIDE DEF e
<1>9. RunInv(P, spent, e, h)
  BY <1>2, <1>7, <1>8 DEF RunInv
<1>. QED  BY <1>1, <1>9, LooksOnly DEF P, spent, h

-----------------------------------------------------------------------------
(***************************************************************************)
(* 10. Every mix of runs.                                                  *)
(***************************************************************************)

(* A run starts in its setup, with nothing made and nothing reported.      *)
LEMMA DemoInitially == DemosInit => DemoInv
<1> SUFFICES ASSUME DemosInit PROVE DemoInv
  OBVIOUS
<1>1. program \in [Process -> ProgramName]
  BY DemosAssumption DEF DemosInit
<1>2. DOMAIN demo = Process /\ DOMAIN has = Process
  BY DEF DemosInit
<1>3. ASSUME NEW p \in Process
      PROVE  /\ WellMade(ProgramOf(p), SpentIn(ProgramOf(p)))
             /\ RunInv(ProgramOf(p), SpentIn(ProgramOf(p)), demo[p], has[p])
  <2> DEFINE P == ProgramOf(p)
             spent == SpentIn(P)
             d == demo[p]
             h == has[p]
  <2>1. WellMade(P, spent)
    <3>1. \E S : WellMade(P, S)
      BY <1>1, ProgramsMade DEF ProgramOf
    <3>. QED  BY <3>1 DEF SpentIn
  <2>2. /\ d = [scenario |-> 0, step |-> 1, built |-> FALSE, stale |-> FALSE,
                known |-> {}, rows |-> <<>>, hurt |-> {}, exit |-> "running"]
        /\ h = None
    BY DEF DemosInit
  <2> HIDE DEF P, spent, d, h
  <2>3. /\ d.scenario = 0 /\ d.step = 1 /\ d.rows = <<>> /\ d.known = {} /\ d.hurt = {}
        /\ d.exit = "running"
    BY <2>2
  <2>4. d \in DemoType(P)
    <3>1. <<>> \in RowSeq /\ {} \in SUBSET IdsIn(P) /\ {} \in SUBSET Nat /\ 1 \in Nat \ {0}
      BY DEF RowSeq
    <3>. QED  BY <2>2, <3>1 DEF DemoType
  <2>5. HasType(h) /\ \A x : Of(h, x) = 0
    BY <2>2 DEF HasType, Of, None
  <2>6. Len(P.scenarios) \in Nat /\ ~In(P, 0)
    BY <2>1, Counts DEF In
  <2>7. PlaceInv(P, 0, 1)
    BY <2>6 DEF PlaceInv
  <2>8. Len(d.rows) = 0
    BY <2>3
  <2>9. \A n \in 1 .. Len(d.rows) : FALSE
    BY <2>8
  <2>10. RowsInv(P, 0, d.rows)
    <3>1. \A j \in 1 .. Len(P.scenarios) : ~(j < 0)
      BY <2>6
    <3>. QED  BY <2>6, <2>9, <3>1 DEF RowsInv
  <2>11. KnownInv(P, 0, 1, d.rows, d.known)
    BY <2>6, <2>9 DEF KnownInv
  <2>12. AmountInv(P, spent, 0, 1, h)
    BY <2>5, <2>6 DEF AmountInv
  <2>13. TrueInv(P, d.rows, d.hurt, h) /\ DueInv(P, d.rows, d.hurt) /\ ToldInv(P, d.exit, d.hurt, h)
    BY <2>3, <2>9 DEF TrueInv, DueInv, ToldInv
  <2>14. RunInv(P, spent, d, h)
    BY <2>3, <2>4, <2>5, <2>7, <2>10, <2>11, <2>12, <2>13 DEF RunInv
  <2>. QED  BY <2>1, <2>14 DEF P, spent, d, h
<1>. QED  BY <1>1, <1>2, <1>3 DEF DemoInv

(* Every step of a run keeps what is known of all of them.                 *)
LEMMA DemoSteps == DemoInv /\ [DemosNext]_demosVars => DemoInv'
<1> SUFFICES ASSUME DemoInv, [DemosNext]_demosVars PROVE DemoInv'
  OBVIOUS
<1>1. CASE UNCHANGED demosVars
  BY <1>1 DEF DemoInv, demosVars, ProgramOf
<1>2. ASSUME NEW p \in Process, GoesOn(p) \/ AnswerLost(p) \/ CallFails(p) PROVE DemoInv'
  BY <1>2, FundsKeeps, BuildsKeeps, CannotBuildKeeps, ExecutesKeeps, AbortsKeeps, RefusedKeeps,
     ReadsKeeps, ComparesKeeps, PassesKeeps, BeginsKeeps, ExitsKeeps, AnswerLostKeeps
     DEF GoesOn
<1>. QED  BY <1>1, <1>2 DEF DemosNext

(* Every mix of runs, whichever calls fail and whichever answers are lost, *)
(* keeps the invariant of pq-exhaustive.ts, run.ts, pq-ecosystem.ts and    *)
(* the programs of one scenario.                                           *)
THEOREM DemoInvariance == DemosSpec => []DemoInv
<1>. QED  BY DemoInitially, DemoSteps, PTL DEF DemosSpec

(* A row that the report marks as passed is of a scenario whose effects    *)
(* are there (rec and scenario in the demo scripts), or of the negative    *)
(* control that was refused.                                               *)
THEOREM RowsTrueHolds == DemosSpec => []RowsTrue
<1>1. DemoInv => RowsTrue
  <2> SUFFICES ASSUME DemoInv, NEW p \in Process, NEW n \in 1 .. Len(demo[p].rows),
                      demo[p].rows[n].ok
               PROVE  Happened(p, demo[p].rows[n].of)
    BY DEF RowsTrue, Rows
  <2>1. Happens(ProgramOf(p), demo[p].hurt, has[p], demo[p].rows[n].of)
    BY DEF DemoInv, RunInv, TrueInv
  <2>. QED  BY <2>1 DEF Happens, Happened, Negative, Scenarios, ProgramOf
<1>. QED  BY <1>1, DemoInvariance, PTL

(* A row that the report marks as failed is of a scenario in which a call  *)
(* failed, or which read an id that an earlier failed scenario was to      *)
(* make.                                                                   *)
THEOREM FailureIsDueHolds == DemosSpec => []FailureIsDue
<1>1. DemoInv => FailureIsDue
  <2> SUFFICES ASSUME DemoInv, NEW p \in Process, NEW n \in 1 .. Len(demo[p].rows),
                      ~demo[p].rows[n].ok
               PROVE  LET i == demo[p].rows[n].of
                      IN  \/ i \in demo[p].hurt
                          \/ \E j \in demo[p].hurt : j < i /\ Makes(p, j) \cap Uses(p, i) # {}
    BY DEF FailureIsDue, Rows
  <2>1. Due(ProgramOf(p), demo[p].hurt, demo[p].rows[n].of)
    BY DEF DemoInv, RunInv, DueInv
  <2>2. \A j : Makes(p, j) = MadeIn(ProgramOf(p), j) /\ Uses(p, j) = UsedIn(ProgramOf(p), j)
    BY DEF Makes, Uses, MadeIn, UsedIn, Scenarios, ProgramOf
  <2>. QED  BY <2>1, <2>2 DEF Due
<1>. QED  BY <1>1, DemoInvariance, PTL

(* A run that exits with 0 did all that its scenarios say; one that exits  *)
(* with 1 had a call that failed.                                          *)
THEOREM ExitToldHolds == DemosSpec => []ExitTold
<1>1. DemoInv => ExitTold
  <2> SUFFICES ASSUME DemoInv, NEW p \in Process
               PROVE  /\ demo[p].exit = "0" =>
                            \A i \in 1 .. Len(Scenarios(p)) : Happened(p, i)
                      /\ demo[p].exit = "1" => demo[p].hurt # {}
    BY DEF ExitTold
  <2>1. ToldInv(ProgramOf(p), demo[p].exit, demo[p].hurt, has[p])
    BY DEF DemoInv, RunInv
  <2>2. \A i : Happens(ProgramOf(p), demo[p].hurt, has[p], i) => Happened(p, i)
    BY DEF Happens, Happened, Negative, Scenarios, ProgramOf
  <2>. QED  BY <2>1, <2>2 DEF ToldInv, Scenarios, ProgramOf
<1>. QED  BY <1>1, DemoInvariance, PTL

=============================================================================
