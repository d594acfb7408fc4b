---------------------------- MODULE IndexerProofs ----------------------------
(***************************************************************************)
(* Theorems about Indexer, for any number of pollers, any page size and    *)
(* any bound on the log.                                                   *)
(*                                                                         *)
(* The argument.  What a poller holds between two awaits is a snapshot: at *)
(* is a cursor the store once held, so everything up to it was handled,    *)
(* and handled never shrinks (Snapshot).  While pollers do not overlap and *)
(* the store is durable, the snapshot is still the stored cursor           *)
(* (Exclusive).                                                            *)
(***************************************************************************)
EXTENDS Indexer, TLAPS

(* Between load and save, the page that is being handled lies behind a     *)
(* cursor up to which everything was handled.                              *)
Snapshot(p) ==
    LET s == poller[p]
    IN  /\ s.pc \in {"query", "handle", "save"} =>
              s.at <= log /\ \A e \in 1 .. s.at : e \in handled
        /\ s.pc = "handle" =>
              /\ s.at <= s.event /\ s.event < s.top
              /\ s.top <= log /\ s.top <= s.at + Limit
              /\ s.next = s.top
              /\ \A e \in 1 .. s.event : e \in handled
        /\ s.pc = "save" =>
              /\ s.next <= log
              /\ s.next = 0 \/ s.next >= s.at
              /\ \A e \in 1 .. s.next : e \in handled

(* What holds of the pollers while none has overlapped with another.       *)
Exclusive ==
    alone =>
        /\ \A p, q \in Poller : Running(p) /\ Running(q) => p = q
        /\ Durable =>
              /\ handled \subseteq 1 .. cursor + Limit
              /\ \A p \in Poller :
                    poller[p].pc \in {"query", "handle", "save"} =>
                        poller[p].at = cursor

(* The inductive invariant: what was handled, and what each poller holds. *)
Inv ==
    /\ TypeOK
    /\ cursor <= log
    /\ NothingLost
    /\ InOrder
    /\ \A p \in Poller : Snapshot(p)
    /\ Exclusive

-----------------------------------------------------------------------------

(* What the fields of a poller range over.                                *)
LEMMA PollerType ==
    ASSUME TypeOK, NEW p \in Poller
    PROVE  /\ poller[p] \in PollerState
           /\ poller[p].at \in Nat /\ poller[p].top \in Nat
           /\ poller[p].event \in Nat /\ poller[p].next \in Nat
           /\ poller[p].pc \in Place
           /\ log \in Nat /\ cursor \in Nat /\ Limit \in Nat /\ Limit > 0
           /\ MaxLog \in Nat
  BY IndexerAssumption DEF TypeOK, PollerState, Cursor

(* It holds at first.                                                     *)
LEMMA InitInv == Init => Inv
  BY IndexerAssumption
  DEF Init, Inv, TypeOK, NothingLost, InOrder, Snapshot, Exclusive, Between,
      PollerState, Place, Cursor, Event, Running, Live

(* A snapshot outlives the steps of others.                                *)
LEMMA SnapshotStable ==
    ASSUME TypeOK, NEW q \in Poller, Snapshot(q), poller'[q] = poller[q],
           log' \in Nat, log' >= log, handled \subseteq handled'
    PROVE  Snapshot(q)'
<1>1. /\ poller[q].at \in Nat /\ poller[q].top \in Nat /\ log \in Nat
      /\ poller[q].event \in Nat /\ poller[q].next \in Nat
  BY PollerType
<1> QED  BY <1>1 DEF Snapshot

(* A step of one poller that puts r for its record and changes neither the *)
(* log, the cursor nor what is handled keeps the invariant if r is a right *)
(* snapshot and a poller that was not running does not run.                *)
LEMMA LocalStep ==
    ASSUME Inv, NEW p \in Poller, NEW r \in PollerState,
           poller' = [poller EXCEPT ![p] = r],
           UNCHANGED <<log, cursor, handled>>,
           alone' \in BOOLEAN, alone' => alone,
           alone' /\ r.pc \in Live =>
               Running(p) \/ \A q \in Poller : ~Running(q),
           Snapshot(p)',
           alone /\ Durable /\ r.pc \in {"query", "handle", "save"}
               => r.at = cursor
    PROVE  Inv'
<1>1. /\ poller' \in [Poller -> PollerState]
      /\ poller'[p] = r
      /\ \A q \in Poller \ {p} : poller'[q] = poller[q]
  BY DEF Inv, TypeOK
<1>2. TypeOK'
  BY <1>1 DEF Inv, TypeOK
<1>3. NothingLost' /\ InOrder' /\ (cursor <= log)'
  BY DEF Inv, NothingLost, InOrder
<1>4. \A q \in Poller : Snapshot(q)'
  <2> SUFFICES ASSUME NEW q \in Poller \ {p} PROVE Snapshot(q)'
    OBVIOUS
  <2>1. log' \in Nat /\ log' >= log
    BY PollerType DEF Inv
  <2> QED  BY <1>1, <2>1, SnapshotStable DEF Inv
<1>5. Exclusive'
  <2> SUFFICES ASSUME alone' PROVE Exclusive'
    BY DEF Exclusive
  <2>1. \A q \in Poller : Running(q)' => (q = p /\ r.pc \in Live) \/ Running(q)
    BY <1>1 DEF Running
  <2>2. \A q, t \in Poller : Running(q)' /\ Running(t)' => q = t
    BY <1>1, <2>1 DEF Inv, Exclusive, Running
  <2>3. Durable => \A q \in Poller :
            poller'[q].pc \in {"query", "handle", "save"} => poller'[q].at = cursor
    BY <1>1 DEF Inv, Exclusive
  <2> QED  BY <2>2, <2>3 DEF Inv, Exclusive
<1> QED  BY <1>2, <1>3, <1>4, <1>5 DEF Inv

(* A poller between two ticks is a poller.                                *)
LEMMA BetweenType ==
    ASSUME NEW c \in BOOLEAN, NEW s, s.cancelled = c, NEW pc \in Place
    PROVE  Between(s, pc) \in PollerState
  BY IndexerAssumption DEF Between, PollerState, Cursor

(* Every step keeps it, action by action.                                 *)
LEMMA StepInv == Inv /\ [Next]_vars => Inv'
<1> SUFFICES ASSUME Inv, [Next]_vars PROVE Inv'
  OBVIOUS
<1>t. /\ TypeOK
      /\ \A p \in Poller :
            /\ poller[p] \in PollerState
            /\ poller[p].at \in Nat /\ poller[p].top \in Nat
            /\ poller[p].event \in Nat /\ poller[p].next \in Nat
            /\ poller[p].cancelled \in BOOLEAN
      /\ log \in Nat /\ cursor \in Nat /\ Limit \in Nat /\ Limit > 0
      /\ MaxLog \in Nat /\ cursor <= log /\ log <= MaxLog
  <2>1. TypeOK /\ cursor <= log
    BY DEF Inv
  <2>2. \A p \in Poller : poller[p].cancelled \in BOOLEAN
    BY <2>1, PollerType DEF PollerState
  <2>3. log <= MaxLog
    BY <2>1, IndexerAssumption DEF TypeOK, Cursor
  <2> QED  BY <2>1, <2>2, <2>3, PollerType, IndexerAssumption DEF TypeOK, Cursor
<1>1. ASSUME Emit PROVE Inv'
  <2>1. log' \in Cursor /\ log' >= log /\ (cursor <= log)'
    BY <1>t, <1>1 DEF Emit, Cursor
  <2>2. TypeOK' /\ NothingLost' /\ InOrder' /\ Exclusive'
    BY <1>1, <2>1
    DEF Emit, Inv, TypeOK, NothingLost, InOrder, Exclusive, Running
  <2>3. \A q \in Poller : Snapshot(q)'
    BY <1>1, <1>t, <2>1, SnapshotStable DEF Emit, Inv, Cursor
  <2> QED  BY <2>1, <2>2, <2>3 DEF Inv
<1>2. ASSUME Crash PROVE Inv'
  <2> DEFINE dead(p) == Between(poller[p], "crashed")
  <2>1. \A p \in Poller : dead(p) \in PollerState
    BY <1>t, BetweenType DEF Place
  <2> HIDE DEF dead
  <2>2. /\ poller' \in [Poller -> PollerState]
        /\ \A p \in Poller : poller'[p] = IF Running(p) THEN dead(p) ELSE poller[p]
    BY <1>2, <2>1, <1>t DEF Crash, dead
  <2>3. \A p \in Poller : dead(p).pc = "crashed"
    BY DEF dead, Between
  <2>4. \A p \in Poller : ~Running(p)'
    BY <2>2, <2>3 DEF Running, Live
  <2>5. \A p \in Poller : Snapshot(p)' /\ poller'[p].pc \notin Live
    BY <2>4 DEF Snapshot, Running, Live
  <2>6. cursor' \in {0, cursor} /\ UNCHANGED <<log, handled, alone>>
    BY <1>2 DEF Crash
  <2>7. TypeOK' /\ NothingLost' /\ InOrder' /\ (cursor <= log)'
    BY <1>t, <2>2, <2>6, IndexerAssumption
    DEF Inv, TypeOK, NothingLost, InOrder, Cursor
  <2>8. Exclusive'
    BY <1>2, <2>4, <2>5, <2>6 DEF Inv, Exclusive, Crash, Live
  <2> QED  BY <2>5, <2>7, <2>8 DEF Inv
<1>3. ASSUME NEW p \in Poller, Start(p) PROVE Inv'
  <2> DEFINE r == [poller[p] EXCEPT !.pc = "head"]
  <2>1. r \in PollerState /\ r.pc = "head"
    BY <1>t DEF PollerState, Place
  <2>2. poller' = [poller EXCEPT ![p] = r] /\ poller'[p] = r
    BY <1>3, <1>t DEF Start, Goto, TypeOK
  <2>3. Snapshot(p)'
    BY <2>1, <2>2 DEF Snapshot
  <2> HIDE DEF r
  <2> QED  BY <1>3, <2>1, <2>2, <2>3, LocalStep DEF Start, Inv, TypeOK
<1>4. ASSUME NEW p \in Poller, Stop(p) PROVE Inv'
  <2> DEFINE r == [poller[p] EXCEPT !.cancelled = TRUE]
  <2>1. /\ r \in PollerState /\ r.pc = poller[p].pc /\ r.at = poller[p].at
        /\ r.top = poller[p].top /\ r.event = poller[p].event
        /\ r.next = poller[p].next
    BY <1>t DEF PollerState
  <2>2. poller' = [poller EXCEPT ![p] = r] /\ poller'[p] = r
    BY <1>4, <1>t DEF Stop, TypeOK
  <2> HIDE DEF r
  <2>3. Snapshot(p)'
    BY <1>4, <2>1, <2>2 DEF Stop, Inv, Snapshot
  <2> QED  BY <1>4, <2>1, <2>2, <2>3, LocalStep DEF Stop, Inv, TypeOK, Exclusive
<1>5. ASSUME NEW p \in Poller, Head(p) PROVE Inv'
  <2> DEFINE pc == IF GoesOn(poller[p]) THEN "load" ELSE "returned"
             r == [poller[p] EXCEPT !.pc = pc]
  <2>1. r \in PollerState /\ r.pc \in {"load", "returned"}
    BY <1>t DEF PollerState, Place
  <2>2. poller' = [poller EXCEPT ![p] = r] /\ poller'[p] = r
    BY <1>5, <1>t DEF Head, Goto, TypeOK
  <2> HIDE DEF r
  <2>3. Snapshot(p)'
    BY <2>1, <2>2 DEF Snapshot
  <2>4. Running(p)
    BY <1>5 DEF Head, Running, Live
  <2> QED  BY <1>5, <2>1, <2>2, <2>3, <2>4, LocalStep DEF Head, Inv, TypeOK
<1>6. ASSUME NEW p \in Poller, Load(p) PROVE Inv'
  <2> DEFINE r == [poller[p] EXCEPT !.pc = "query", !.at = cursor]
  <2>1. r \in PollerState /\ r.pc = "query" /\ r.at = cursor
    BY <1>t DEF PollerState, Place, TypeOK
  <2>2. poller' = [poller EXCEPT ![p] = r] /\ poller'[p] = r
    BY <1>6, <1>t DEF Load, TypeOK
  <2> HIDE DEF r
  <2>3. Snapshot(p)'
    BY <1>6, <2>1, <2>2 DEF Load, Snapshot, Inv, NothingLost
  <2>4. Running(p)
    BY <1>6 DEF Load, Running, Live
  <2> QED  BY <1>6, <2>1, <2>2, <2>3, <2>4, LocalStep DEF Load, Inv, TypeOK
<1>7. ASSUME NEW p \in Poller, Query(p) PROVE Inv'
  <2> DEFINE at == poller[p].at
             top == LastOfPage(at)
  <2>0. /\ poller[p].pc = "query"
        /\ at \in Nat /\ at <= log
        /\ \A e \in 1 .. at : e \in handled
        /\ UNCHANGED <<log, cursor, handled, alone>>
    BY <1>7, <1>t DEF Query, Inv, Snapshot
  <2>a. top \in Nat /\ top <= log /\ top >= at /\ top <= at + Limit
    BY <1>t, <2>0 DEF LastOfPage
  <2>b. PICK next \in (IF top > at THEN {top} ELSE {0, at}) :
            poller' = [poller EXCEPT ![p] =
                [poller[p] EXCEPT !.pc = IF top > at THEN "handle" ELSE "save",
                                  !.top = top, !.event = at,
                                  !.next = next, !.more = (top < log)]]
    BY <1>7 DEF Query
  <2> HIDE DEF at, top
  <2> DEFINE pc == IF top > at THEN "handle" ELSE "save"
             r == [poller[p] EXCEPT !.pc = pc, !.top = top, !.event = at,
                                    !.next = next, !.more = (top < log)]
  <2>c. next \in Nat /\ next <= log
    BY <1>t, <2>0, <2>a
  <2>1. /\ r \in PollerState
        /\ r.pc = pc /\ r.top = top /\ r.event = at /\ r.next = next
        /\ r.at = at
    <3>1. /\ pc \in Place /\ top \in Cursor /\ at \in Cursor
          /\ next \in Cursor /\ (top < log) \in BOOLEAN
      BY <1>t, <2>0, <2>a, <2>c DEF Place, Cursor
    <3>2. poller[p].at = at
      BY DEF at
    <3> HIDE DEF pc
    <3> QED  BY <1>t, <3>1, <3>2 DEF PollerState
  <2>2. poller' = [poller EXCEPT ![p] = r] /\ poller'[p] = r
    BY <1>t, <2>b DEF TypeOK
  <2> HIDE DEF r
  <2>3. Snapshot(p)'
    <3>1. CASE top > at
      BY <1>t, <2>0, <2>1, <2>a, <2>2, <3>1 DEF Snapshot
    <3>2. CASE ~(top > at)
      BY <1>t, <2>0, <2>1, <2>a, <2>2, <3>2 DEF Snapshot
    <3> QED  BY <3>1, <3>2
  <2>4. Running(p)
    BY <2>0 DEF Running, Live
  <2>5. alone /\ Durable => r.at = cursor
    BY <2>0, <2>1 DEF Inv, Exclusive, at
  <2>6. alone' \in BOOLEAN /\ (alone' => alone)
    BY <1>t, <2>0 DEF TypeOK
  <2> QED  BY <2>0, <2>1, <2>2, <2>3, <2>4, <2>5, <2>6, LocalStep
<1>8. ASSUME NEW p \in Poller, Handle(p) PROVE Inv'
  <2> DEFINE e == poller[p].event + 1
             pc == IF e = poller[p].top THEN "save" ELSE "handle"
             r == [poller[p] EXCEPT !.event = e, !.pc = pc]
  <2>1. /\ poller[p].pc = "handle"
        /\ poller[p].at <= poller[p].event /\ poller[p].event < poller[p].top
        /\ poller[p].top <= log /\ poller[p].top <= poller[p].at + Limit
        /\ poller[p].next = poller[p].top
        /\ \A d \in 1 .. poller[p].event : d \in handled
        /\ \A d \in 1 .. poller[p].at : d \in handled
        /\ UNCHANGED <<log, cursor, alone>>
        /\ handled' = handled \union {e}
    BY <1>8 DEF Handle, HandledNow, Inv, Snapshot
  <2>2. e \in Nat /\ e \in Event /\ e <= poller[p].top
    BY <1>t, <2>1 DEF Event
  <2>3. /\ r \in PollerState /\ r.pc = pc /\ r.event = e
        /\ r.at = poller[p].at /\ r.top = poller[p].top
        /\ r.next = poller[p].next
    <3>1. pc \in Place /\ e \in Cursor
      BY <1>t, <2>2 DEF Place, Cursor, Event
    <3> HIDE DEF pc, e
    <3> QED  BY <1>t, <3>1 DEF PollerState
  <2>4. poller' = [poller EXCEPT ![p] = r]
    BY <1>8, <1>t DEF Handle, PageEnds, TypeOK, PollerState
  <2> HIDE DEF r
  <2>5. /\ poller'[p] = r
        /\ \A q \in Poller \ {p} : poller'[q] = poller[q]
        /\ TypeOK'
    BY <1>t, <2>1, <2>2, <2>3, <2>4 DEF TypeOK
  <2>6. \A d \in 1 .. e : d \in handled'
    BY <1>t, <2>1
  <2>7. NothingLost' /\ InOrder' /\ (cursor <= log)'
    BY <1>t, <2>1, <2>6 DEF Inv, NothingLost, InOrder
  <2>8. Snapshot(p)'
    <3>1. CASE e = poller[p].top
      BY <1>t, <2>1, <2>2, <2>3, <2>5, <2>6, <3>1 DEF Snapshot
    <3>2. CASE e # poller[p].top
      BY <1>t, <2>1, <2>2, <2>3, <2>5, <2>6, <3>2 DEF Snapshot
    <3> QED  BY <3>1, <3>2
  <2>9. \A q \in Poller \ {p} : Snapshot(q)'
    BY <1>t, <2>1, <2>5, SnapshotStable DEF Inv
  <2>10. Exclusive'
    <3> SUFFICES ASSUME alone PROVE Exclusive'
      BY <2>1 DEF Exclusive
    <3>1. Running(p)
      BY <2>1 DEF Running, Live
    <3>2. \A q \in Poller : Running(q)' => Running(q)
      BY <2>5, <3>1 DEF Running
    <3>3. Durable => poller[p].at = cursor
      BY <2>1 DEF Inv, Exclusive
    <3>4. Durable => e \in 1 .. cursor + Limit
      BY <1>t, <2>1, <2>2, <3>3
    <3>5. Durable => \A q \in Poller :
              poller'[q].pc \in {"query", "handle", "save"} =>
                  poller'[q].at = cursor
      BY <2>3, <2>5, <3>3 DEF Inv, Exclusive
    <3> QED  BY <2>1, <3>2, <3>4, <3>5 DEF Inv, Exclusive
  <2> QED  BY <2>5, <2>7, <2>8, <2>9, <2>10 DEF Inv
<1>9. ASSUME NEW p \in Poller, Save(p) PROVE Inv'
  <2> DEFINE pc == IF poller[p].more THEN "head" ELSE "sleep"
             r == Between(poller[p], pc)
  <2>1. r \in PollerState /\ r.pc \in {"head", "sleep"}
    BY <1>t, BetweenType DEF Between, Place
  <2>2. poller' = [poller EXCEPT ![p] = r]
    BY <1>9 DEF Save, Leave
  <2> HIDE DEF r
  <2>3. /\ poller[p].pc = "save"
        /\ poller[p].at <= log /\ poller[p].next <= log
        /\ poller[p].next = 0 \/ poller[p].next >= poller[p].at
        /\ \A e \in 1 .. poller[p].next : e \in handled
        /\ cursor' = IF poller[p].next # 0 THEN poller[p].next ELSE cursor
        /\ UNCHANGED <<log, handled, alone>>
    BY <1>9 DEF Save, Saved, Inv, Snapshot
  <2>4. cursor' \in Cursor /\ cursor' \in Nat /\ cursor' <= log
    BY <1>t, <2>3 DEF Cursor
  <2>5. /\ poller'[p] = r
        /\ \A q \in Poller \ {p} : poller'[q] = poller[q]
        /\ TypeOK'
    BY <1>t, <2>1, <2>2, <2>3, <2>4 DEF TypeOK
  <2>6. NothingLost' /\ InOrder'
    BY <2>3 DEF Inv, NothingLost, InOrder
  <2>7. \A q \in Poller : Snapshot(q)'
    <3>1. Snapshot(p)'
      BY <2>1, <2>5 DEF Snapshot
    <3>2. \A q \in Poller \ {p} : Snapshot(q)'
      BY <1>t, <2>3, <2>5, SnapshotStable DEF Inv
    <3> QED  BY <3>1, <3>2
  <2>8. Exclusive'
    <3> SUFFICES ASSUME alone PROVE Exclusive'
      BY <2>3 DEF Exclusive
    <3>1. Running(p)
      BY <2>3 DEF Running, Live
    <3>2. \A q \in Poller : q # p => ~Running(q) /\ ~Running(q)'
      BY <2>5, <3>1 DEF Inv, Exclusive, Running
    <3>3. Durable => cursor' >= cursor
      BY <1>t, <2>3 DEF Inv, Exclusive
    <3>4. Durable => handled \subseteq 1 .. cursor' + Limit
      BY <1>t, <2>4, <3>3 DEF Inv, Exclusive
    <3>5. \A q \in Poller : poller'[q].pc \notin {"query", "handle", "save"}
      BY <2>1, <2>5, <3>2 DEF Running, Live
    <3> QED  BY <2>3, <3>2, <3>4, <3>5 DEF Exclusive
  <2> QED  BY <2>3, <2>4, <2>5, <2>6, <2>7, <2>8 DEF Inv
<1>10. ASSUME NEW p \in Poller, Wake(p) PROVE Inv'
  <2> DEFINE r == [poller[p] EXCEPT !.pc = "head"]
  <2>1. r \in PollerState /\ r.pc = "head"
    BY <1>t DEF PollerState, Place
  <2>2. poller' = [poller EXCEPT ![p] = r] /\ poller'[p] = r
    BY <1>10, <1>t DEF Wake, Goto, TypeOK
  <2> HIDE DEF r
  <2>3. Snapshot(p)'
    BY <2>1, <2>2 DEF Snapshot
  <2>4. Running(p)
    BY <1>10 DEF Wake, Running, Live
  <2> QED  BY <1>10, <2>1, <2>2, <2>3, <2>4, LocalStep DEF Wake, Inv, TypeOK
<1>11. ASSUME NEW p \in Poller, Fail(p) PROVE Inv'
  <2> DEFINE r == Between(poller[p], "failed")
  <2>1. r \in PollerState /\ r.pc = "failed"
    BY <1>t, BetweenType DEF Between, Place
  <2>2. poller' = [poller EXCEPT ![p] = r] /\ poller'[p] = r
    BY <1>11, <1>t DEF Fail, Leave, TypeOK
  <2> HIDE DEF r
  <2>3. Snapshot(p)'
    BY <2>1, <2>2 DEF Snapshot
  <2>4. r.pc \notin Live
    BY <2>1 DEF Live
  <2> QED  BY <1>11, <2>1, <2>2, <2>3, <2>4, LocalStep DEF Fail, Inv, TypeOK
<1>12. CASE UNCHANGED vars
  BY <1>12
  DEF vars, Inv, TypeOK, NothingLost, InOrder, Snapshot, Exclusive, Running
<1> QED
  BY <1>1, <1>2, <1>3, <1>4, <1>5, <1>6, <1>7, <1>8, <1>9, <1>10, <1>11, <1>12
  DEF Next, Poll

-----------------------------------------------------------------------------
(* Every behaviour keeps the invariant.                                    *)
LEMMA Invariance == Spec => []Inv
  BY InitInv, StepInv, PTL DEF Spec

(* The log, the cursor and the pollers have their types in every behaviour.*)
THEOREM IndexerTypeCorrect == Spec => []TypeOK
<1>1. Inv => TypeOK
  BY DEF Inv
<1> QED  BY <1>1, Invariance, PTL

(* The stored cursor never points behind an event that no handler          *)
(* completed: whatever crashes, fails or overlaps, nothing is lost.        *)
THEOREM NothingLostHolds == Spec => []NothingLost
<1>1. Inv => NothingLost
  BY DEF Inv
<1> QED  BY <1>1, Invariance, PTL

(* Events are handled for the first time in the order of the chain, even   *)
(* by overlapping pollers.                                                 *)
THEOREM InOrderHolds == Spec => []InOrder
<1>1. Inv => InOrder
  BY DEF Inv
<1> QED  BY <1>1, Invariance, PTL

(* Without overlap, and on a durable store, no more than one page is       *)
(* handled beyond the cursor, so a restart repeats at most that.           *)
THEOREM OnePageRepeatedHolds == Spec => []OnePageRepeated
<1>1. Inv => OnePageRepeated
  BY DEF Inv, Exclusive, OnePageRepeated
<1> QED  BY <1>1, Invariance, PTL

(* Under the same conditions the stored cursor does not go back.           *)
THEOREM CursorAdvancesHolds == Spec => CursorAdvances
<1>1. Inv /\ [Next]_vars => [alone' /\ Durable => cursor' >= cursor]_vars
  <2> SUFFICES ASSUME Inv, [Next]_vars, alone', Durable PROVE cursor' >= cursor
    OBVIOUS
  <2>1. cursor \in Nat
    BY DEF Inv, TypeOK, Cursor
  <2>2. ASSUME NEW p \in Poller, Save(p) PROVE cursor' >= cursor
    <3>1. /\ poller[p].at = cursor
          /\ poller[p].next = 0 \/ poller[p].next >= poller[p].at
      BY <2>2 DEF Save, Inv, Exclusive, Snapshot
    <3> QED  BY <2>1, <2>2, <3>1 DEF Save, Saved
  <2>3. CASE cursor' = cursor
    BY <2>1, <2>3
  <2> QED
    BY <2>2, <2>3
    DEF Next, Poll, vars, Emit, Crash, Start, Stop, Head, Load, Query, Handle,
        Wake, Fail
<1> QED  BY <1>1, Invariance, PTL DEF Spec, CursorAdvances
=============================================================================
