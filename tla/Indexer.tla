------------------------------- MODULE Indexer -------------------------------
(***************************************************************************)
(* packages/indexer/src/index.ts: startPolling, a loop that loads a cursor *)
(* from a store, asks the RPC node for the next page of events, hands each *)
(* of them to a handler and saves the cursor of the page.                  *)
(*                                                                         *)
(* Every await is a point where other pollers of the same cursor key, the  *)
(* callers of stop() and the RPC node run.  The processes that poll may    *)
(* crash; a store that is not durable (InMemoryCursorStore) goes with      *)
(* them.  An application that wants to go on calls startPolling again,     *)
(* possibly while an earlier, stopped poller has not seen its stop yet.    *)
(*                                                                         *)
(* Events are numbered from 1 in ascending order; a cursor is the number   *)
(* of an event, and 0 is no cursor.                                        *)
(***************************************************************************)
EXTENDS Naturals

CONSTANTS Poller,       \* the calls of startPolling
          Limit,        \* opts.limit, the page size
          Durable,      \* whether the store survives a crash
          MaxLog        \* bound: events the node ever indexes

ASSUME IndexerAssumption ==
    /\ Limit \in Nat \ {0}
    /\ Durable \in BOOLEAN
    /\ MaxLog \in Nat

VARIABLES log,          \* the number of events the RPC node has indexed
          cursor,       \* what the store holds for the cursor key
          poller,       \* the state of each call of startPolling
          handled,      \* history: the events some handler call completed
          alone         \* history: no two pollers were ever live together

vars == <<log, cursor, poller, handled, alone>>

Event  == 1 .. MaxLog
Cursor == 0 .. MaxLog

(* The awaits of tick(), and what is before and after it.                  *)
Place == {"idle", "head", "load", "query", "handle", "save", "sleep",
          "returned", "failed", "crashed"}
Live  == {"head", "load", "query", "handle", "save", "sleep"}

(* at is the cursor it loaded; the page is the events at+1 .. top; event   *)
(* is the last one handled; next and more are nextCursor and hasNextPage.  *)
PollerState == [pc: Place, cancelled: BOOLEAN, at: Cursor, top: Cursor,
                event: Cursor, next: Cursor, more: BOOLEAN]

Running(p) == poller[p].pc \in Live

Goto(p, pc) == poller' = [poller EXCEPT ![p].pc = pc]

(* A place where the cursor and the page of an iteration are out of scope. *)
Between(state, pc) ==
    [pc |-> pc, cancelled |-> state.cancelled, at |-> 0, top |-> 0,
     event |-> 0, next |-> 0, more |-> FALSE]

Leave(p, pc) == poller' = [poller EXCEPT ![p] = Between(poller[p], pc)]

-----------------------------------------------------------------------------
Init ==
    /\ log = 0
    /\ cursor = 0
    /\ poller = [p \in Poller |->
                    Between([cancelled |-> FALSE], "idle")]
    /\ handled = {}
    /\ alone = TRUE

(* The node indexes one more event.                                        *)
Emit ==
    /\ log < MaxLog
    /\ log' = log + 1
    /\ UNCHANGED <<cursor, poller, handled, alone>>

Start(p) ==
    /\ poller[p].pc = "idle"
    /\ Goto(p, "head")
    /\ alone' = (alone /\ \A q \in Poller : ~Running(q))
    /\ UNCHANGED <<log, cursor, handled>>

(* The function startPolling returns.                                      *)
Stop(p) ==
    /\ Running(p)
    /\ poller' = [poller EXCEPT ![p].cancelled = TRUE]
    /\ UNCHANGED <<log, cursor, handled, alone>>

(* Faulty: cancelled is not looked at.                                     *)
AlwaysGoesOn(state) == TRUE

(* while (!cancelled)                                                      *)
GoesOn(state) == ~state.cancelled

Head(p) ==
    /\ poller[p].pc = "head"
    /\ Goto(p, IF GoesOn(poller[p]) THEN "load" ELSE "returned")
    /\ UNCHANGED <<log, cursor, handled, alone>>

Load(p) ==
    /\ poller[p].pc = "load"
    /\ poller' = [poller EXCEPT ![p].pc = "query", ![p].at = cursor]
    /\ UNCHANGED <<log, cursor, handled, alone>>

(* Faulty: limit is not passed on.                                         *)
LastOfAll(at) == log

(* The last event of the page after cursor at, at itself if it is empty.   *)
LastOfPage(at) == IF at + Limit < log THEN at + Limit ELSE log

(* queryEvents.  An empty page has no cursor, or the one of the request.   *)
Query(p) ==
    LET at  == poller[p].at
        top == LastOfPage(at)
    IN  /\ poller[p].pc = "query"
        /\ \E next \in (IF top > at THEN {top} ELSE {0, at}) :
              poller' = [poller EXCEPT ![p] =
                  [poller[p] EXCEPT !.pc = IF top > at THEN "handle" ELSE "save",
                                    !.top = top, !.event = at,
                                    !.next = next, !.more = (top < log)]]
        /\ UNCHANGED <<log, cursor, handled, alone>>

(* Faulty: the page is handled from its end (descending order).            *)
HandledFromEnd(state) == state.at + state.top - state.event

(* The event the handler is called with.                                   *)
HandledNow(state) == state.event + 1

(* Faulty: one event too few, or too many, of a page.                      *)
PageEndsEarly(state) == state.event + 2 >= state.top
PageEndsLate(state) == state.event = state.top

PageEnds(state) == state.event + 1 = state.top

(* await handle(ev), for the next event of the page.                       *)
Handle(p) ==
    /\ poller[p].pc = "handle"
    /\ handled' = handled \union {HandledNow(poller[p])}
    /\ poller' = [poller EXCEPT ![p].event = @ + 1,
                                ![p].pc = IF PageEnds(poller[p])
                                          THEN "save" ELSE "handle"]
    /\ UNCHANGED <<log, cursor, alone>>

(* Faulty: the null cursor of an empty page is saved too; the newest event *)
(* is saved.                                                               *)
SavedNull(state) == state.next
SavedNewest(state) == log

(* if (page.nextCursor) await store.save(...)                              *)
Saved(state) == IF state.next # 0 THEN state.next ELSE cursor

Save(p) ==
    /\ poller[p].pc = "save"
    /\ cursor' = Saved(poller[p])
    /\ Leave(p, IF poller[p].more THEN "head" ELSE "sleep")
    /\ UNCHANGED <<log, handled, alone>>

Wake(p) ==
    /\ poller[p].pc = "sleep"
    /\ Goto(p, "head")
    /\ UNCHANGED <<log, cursor, handled, alone>>

(* load, queryEvents, the handler or save rejects: nothing catches it, the *)
(* promise of tick() is void, and the loop is over.                        *)
Fail(p) ==
    /\ poller[p].pc \in {"load", "query", "handle", "save"}
    /\ Leave(p, "failed")
    /\ UNCHANGED <<log, cursor, handled, alone>>

Crash ==
    /\ \E p \in Poller : Running(p)
    /\ poller' = [p \in Poller |-> IF Running(p)
                                   THEN Between(poller[p], "crashed")
                                   ELSE poller[p]]
    /\ cursor' = IF Durable THEN cursor ELSE 0
    /\ UNCHANGED <<log, handled, alone>>

Poll(p) == Head(p) \/ Load(p) \/ Query(p) \/ Handle(p) \/ Save(p) \/ Wake(p)

Next ==
    \/ Emit
    \/ Crash
    \/ \E p \in Poller : Start(p) \/ Stop(p) \/ Poll(p) \/ Fail(p)

(* The event loop runs every continuation, and an RPC call, a handler and  *)
(* the timer that do not fail come back.  Nothing else is promised: events *)
(* need not come, and nobody need start, stop or restart a poller.         *)
Spec == Init /\ [][Next]_vars /\ \A p \in Poller : WF_vars(Poll(p))

-----------------------------------------------------------------------------
TypeOK ==
    /\ log \in Cursor
    /\ cursor \in Cursor
    /\ poller \in [Poller -> PollerState]
    /\ handled \in SUBSET Event
    /\ alone \in BOOLEAN

(* Nothing is lost: the store never points behind an event that no handler *)
(* completed, whatever crashed, failed or overlapped.                      *)
NothingLost == \A e \in 1 .. cursor : e \in handled

(* Events are handled for the first time in ascending order.               *)
InOrder == \A e \in handled : \A d \in 1 .. e : d \in handled

(* What may be handled again.  While pollers of one key never overlap and  *)
(* the store is durable, at most one page beyond the cursor was handled,   *)
(* so a restart repeats no more than that.                                 *)
OnePageRepeated == alone /\ Durable => handled \subseteq 1 .. cursor + Limit

(* Under the same conditions the stored cursor does not go back.           *)
CursorAdvances == [][alone' /\ Durable => cursor' >= cursor]_vars

(* Every event is handled, unless every poller was stopped, failed or      *)
(* crashed: overlapping pollers may set each other back, not for ever.     *)
Wanted(p) == Running(p) /\ ~poller[p].cancelled

Delivery ==
    \A e \in Event :
        (e <= log) ~> (e \in handled \/ \A p \in Poller : ~Wanted(p))

(* A poller that was told to stop ends.                                    *)
StopEnds == \A p \in Poller : poller[p].cancelled ~> ~Running(p)
=============================================================================
