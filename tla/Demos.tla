-------------------------------- MODULE Demos --------------------------------
(***************************************************************************)
(* Runs of the demo programs against one localnet, possibly side by side.  *)
(* A run makes its calls one after the other; each may be refused, or may  *)
(* take effect with its answer lost, and a transaction built on a gas coin *)
(* that another run spends meanwhile is refused too.  A failed call throws: *)
(* the scenario around it records a row that failed and the next one       *)
(* starts; outside of a scenario it ends the run.                          *)
(***************************************************************************)
EXTENDS DemoScripts

CONSTANTS Process,      \* runs of the programs
          Mix,          \* bound: the programs that run side by side
          MaxFaults     \* bound: calls that fail by themselves

Program(name) ==
    CASE name = "pq-exhaustive"   -> Exhaustive
      [] name = "run"             -> Run
      [] name = "pq-ecosystem"    -> Ecosystem
      [] name = "pq-deepbook"     -> Single(DeepBook)
      [] name = "pq-mnemonic"     -> Single(Mnemonic)
      [] name = "pq-services"     -> Single(Services)
      [] name = "pq-seal"         -> Single(Seal)
      [] name = "pq-only-account" -> Single(OnlyAccount)
      [] name = "pq-only-native"  -> Single(OnlyNative)

ProgramName == {"pq-exhaustive", "run", "pq-ecosystem", "pq-deepbook", "pq-mnemonic",
                "pq-services", "pq-seal", "pq-only-account", "pq-only-native"}

ASSUME DemosAssumption == Mix \subseteq [Process -> ProgramName]

VARIABLES program,      \* which program each process runs
          demo,         \* where it is, and what it knows and recorded
          has,          \* what there is on the chain by its calls
          faults        \* the number of calls that failed by themselves

demosVars == <<program, demo, has, faults>>

(* scenario is 0 in the setup.  A transaction that was built waits to be   *)
(* submitted; it is stale once another run spent the gas coin it names.    *)
(* known are the ids in variables; rows are the outcomes recorded, each of  *)
(* a scenario; exit is the exit code once there is one.  hurt is history:  *)
(* the scenarios in which a call failed.                                   *)
Scenarios(p) == Program(program[p]).scenarios
Steps(p)     == IF demo[p].scenario = 0 THEN Program(program[p]).setup
                ELSE Scenarios(p)[demo[p].scenario].steps
This(p)      == Steps(p)[demo[p].step]

Running(p) == demo[p].exit = "running"
Calling(p) == /\ Running(p)
              /\ demo[p].scenario <= Len(Scenarios(p))
              /\ demo[p].step <= Len(Steps(p))

Of(h, x)    == IF x \in DOMAIN h THEN h[x] ELSE 0
With(h, adds) == [x \in DOMAIN h \union DOMAIN adds |-> Of(h, x) + Of(adds, x)]

-----------------------------------------------------------------------------
DemosInit ==
    /\ program \in Mix
    /\ demo = [p \in Process |->
                 [scenario |-> 0, step |-> 1, built |-> FALSE, stale |-> FALSE,
                  known |-> {}, rows |-> <<>>, hurt |-> {}, exit |-> "running"]]
    /\ has = [p \in Process |-> None]
    /\ faults = 0

(* The next call, with the ids of this one in variables.                   *)
Proceeds(p, ids) ==
    [demo[p] EXCEPT !.step = @ + 1, !.built = FALSE, !.known = @ \union ids]

(* The scenario ends with its row; those nested in it are skipped when it  *)
(* failed.                                                                 *)
After(p, ok) ==
    LET k == demo[p].scenario + 1
    IN  IF ~ok /\ k <= Len(Scenarios(p)) /\ Scenarios(p)[k].nested
        THEN k + 1 ELSE k

(* Matrix.pass, Matrix.fail and record.                                    *)
Records(p, ok, hurt) ==
    [demo[p] EXCEPT !.rows = Append(@, [of |-> demo[p].scenario, ok |-> ok]),
                    !.scenario = After(p, ok), !.step = 1, !.built = FALSE, !.hurt = hurt]

(* Faulty: the catch of a scenario records nothing but a pass.             *)
CaughtAsPass(p) == TRUE

(* The row of a scenario that threw: the negative control passes.          *)
Caught(p) == Scenarios(p)[demo[p].scenario].name = "pq-guard-neg"

(* main().catch ends the run, the catch of a scenario records it.          *)
Throws(p) ==
    LET hurt == demo[p].hurt \union {demo[p].scenario}
    IN  IF demo[p].scenario = 0
        THEN [demo[p] EXCEPT !.exit = "1", !.hurt = hurt]
        ELSE Records(p, Caught(p), hurt)

Sets(p, s) == demo' = [demo EXCEPT ![p] = s]

(* What p submits makes what others built on the same gas coin stale.      *)
SpendsGas(p, s) ==
    demo' = [q \in Process |->
        IF q = p THEN s
        ELSE IF Calling(q) /\ demo[q].built /\ This(q).by = This(p).by /\ This(p).by # Own
        THEN [demo[q] EXCEPT !.stale = TRUE]
        ELSE demo[q]]

Does(p, kinds) == Calling(p) /\ This(p).do \in kinds

(* fund, fundedKeypair, faucet: asked once, then polled; a balance of      *)
(* before does as well.                                                    *)
Funds(p) ==
    /\ Does(p, {"fund", "offline"})
    /\ Sets(p, Proceeds(p, {}))
    /\ has' = [has EXCEPT ![p] = With(@, This(p).adds)]
    /\ UNCHANGED <<program, faults>>

IsTx(p) == Does(p, {"tx", "aborts", "offer"})

(* tx.build; an id that is missing fails here.                             *)
Resolves(p) == This(p).uses \subseteq demo[p].known

Builds(p) ==
    /\ IsTx(p) /\ ~demo[p].built /\ Resolves(p)
    /\ Sets(p, [demo[p] EXCEPT !.built = TRUE, !.stale = FALSE])
    /\ UNCHANGED <<program, has, faults>>

(* Faulty: a call whose id is missing is waited for.                       *)
NeverUnresolved(p) == FALSE

Unresolved(p) == ~Resolves(p)

CannotBuild(p) ==
    /\ (IsTx(p) /\ ~demo[p].built) \/ Does(p, {"query"})
    /\ Unresolved(p)
    /\ Sets(p, [Throws(p) EXCEPT !.hurt = demo[p].hurt])
    /\ UNCHANGED <<program, has, faults>>

Fresh(p) == IsTx(p) /\ demo[p].built /\ ~demo[p].stale

(* Executed, waited for, and its status is success.                        *)
Executes(p) ==
    /\ Fresh(p) /\ This(p).do \in {"tx", "offer"}
    /\ has' = [has EXCEPT ![p] = With(@, This(p).adds)]
    /\ SpendsGas(p, Proceeds(p, DOMAIN This(p).adds))
    /\ UNCHANGED <<program, faults>>

(* Move aborts it.                                                         *)
Aborts(p) ==
    /\ Fresh(p) /\ This(p).do = "aborts"
    /\ has' = [has EXCEPT ![p] = With(@, This(p).adds)]
    /\ Sets(p, [Throws(p) EXCEPT !.hurt = demo[p].hurt])
    /\ UNCHANGED <<program, faults>>

(* What a failed call does, caught where it is made or not.                *)
Fails(p) == IF This(p).do = "offer" THEN Proceeds(p, {}) ELSE Throws(p)

(* The validator refuses a gas coin of a version that was spent.           *)
Refused(p) ==
    /\ IsTx(p) /\ demo[p].built /\ demo[p].stale
    /\ Sets(p, Fails(p))
    /\ UNCHANGED <<program, has, faults>>

(* It took effect, and execute or waitForTransaction rejects.              *)
AnswerLost(p) ==
    /\ Fresh(p) /\ This(p).do \in {"tx", "offer"} /\ faults < MaxFaults
    /\ has' = [has EXCEPT ![p] = With(@, This(p).adds)]
    /\ SpendsGas(p, Fails(p))
    /\ faults' = faults + 1
    /\ UNCHANGED program

(* A call rejects and has no effect, or the faucet funds nothing.          *)
CallFails(p) ==
    /\ Calling(p) /\ This(p).do # "offline" /\ faults < MaxFaults
    /\ Sets(p, Fails(p))
    /\ faults' = faults + 1
    /\ UNCHANGED <<program, has>>

Reads(p) ==
    /\ Does(p, {"query"}) /\ Resolves(p)
    /\ Sets(p, Proceeds(p, {}))
    /\ UNCHANGED <<program, has, faults>>

Expected(p) ==
    LET is == This(p).adds
    IN  \A x \in DOMAIN is : IF This(p).do = "equals" THEN Of(has[p], x) = is[x]
                             ELSE Of(has[p], x) >= is[x]

Compares(p) ==
    /\ Does(p, {"equals", "atLeast"})
    /\ Sets(p, IF Expected(p) THEN Proceeds(p, {})
               ELSE Records(p, FALSE, demo[p].hurt))
    /\ UNCHANGED <<program, has, faults>>

(* The last call of a scenario is through.                                 *)
Passes(p) ==
    /\ Running(p) /\ demo[p].scenario \in 1 .. Len(Scenarios(p))
    /\ demo[p].step > Len(Steps(p))
    /\ Sets(p, Records(p, TRUE, demo[p].hurt))
    /\ UNCHANGED <<program, has, faults>>

Begins(p) ==
    /\ Running(p) /\ demo[p].scenario = 0 /\ demo[p].step > Len(Steps(p))
    /\ Sets(p, [demo[p] EXCEPT !.scenario = 1, !.step = 1])
    /\ UNCHANGED <<program, has, faults>>

(* Faulty: one scenario that passed is enough.                             *)
SomePassed(rows) == \E i \in 1 .. Len(rows) : rows[i].ok

(* Matrix.summary                                                          *)
AllPassed(rows) == \A i \in 1 .. Len(rows) : rows[i].ok

Exits(p) ==
    /\ Running(p) /\ demo[p].scenario > Len(Scenarios(p))
    /\ Sets(p, [demo[p] EXCEPT !.exit = IF AllPassed(demo[p].rows) THEN "0" ELSE "1"])
    /\ UNCHANGED <<program, has, faults>>

GoesOn(p) ==
    \/ Funds(p) \/ Builds(p) \/ CannotBuild(p) \/ Executes(p) \/ Aborts(p)
    \/ Refused(p) \/ Reads(p) \/ Compares(p) \/ Passes(p) \/ Begins(p) \/ Exits(p)

DemosNext == \E p \in Process : GoesOn(p) \/ AnswerLost(p) \/ CallFails(p)

(* Every call comes back, and a poll that is not answered is given up, so  *)
(* the runs do not all stand still; a run takes finitely many steps.       *)
DemosSpec == DemosInit /\ [][DemosNext]_demosVars /\ WF_demosVars(\E p \in Process : GoesOn(p))
-----------------------------------------------------------------------------
Rows(p) == {demo[p].rows[i] : i \in 1 .. Len(demo[p].rows)}

(* What the line of a scenario that passed says.  The negative control     *)
(* says that the chain aborted, and passes on any error.                   *)
Happened(p, i) ==
    LET s == Scenarios(p)[i]
    IN  \/ \A x \in DOMAIN s.says : Of(has[p], x) >= s.says[x]
        \/ s.name = "pq-guard-neg" /\ i \in demo[p].hurt

(* RowsTrue: a row that passed is true of the chain, though an object came  *)
(* from an earlier scenario that failed, an answer was lost, or another    *)
(* run spent the gas coin; but the negative control of run.ts passes as    *)
(* well when its transaction never reached the chain.                      *)
RowsTrue == \A p \in Process : \A r \in Rows(p) : r.ok => Happened(p, r.of)

(* FailureIsDue: a row that failed had a failed call in its scenario, or    *)
(* in one that makes an object it uses.  What an earlier scenario, or one   *)
(* whose answer was lost, put on the chain fails no later comparison.      *)
Makes(p, i) == UNION {DOMAIN c.adds : c \in {Scenarios(p)[i].steps[k] :
                                        k \in 1 .. Len(Scenarios(p)[i].steps)}}
Uses(p, i)  == UNION {c.uses : c \in {Scenarios(p)[i].steps[k] :
                                        k \in 1 .. Len(Scenarios(p)[i].steps)}}

FailureIsDue ==
    \A p \in Process : \A r \in Rows(p) :
       r.ok \/ r.of \in demo[p].hurt
            \/ \E i \in demo[p].hurt : i < r.of /\ Makes(p, i) \cap Uses(p, r.of) # {}

(* ExitTold: a run that exits with 0 did everything its scenarios promise,  *)
(* none of them skipped, and one that exits with 1 had a call that failed. *)
ExitTold ==
    \A p \in Process :
       /\ demo[p].exit = "0" => \A i \in 1 .. Len(Scenarios(p)) : Happened(p, i)
       /\ demo[p].exit = "1" => demo[p].hurt # {}

(* RunsEnd: every run exits, whatever fails.                               *)
RunsEnd == \A p \in Process : <>(demo[p].exit # "running")
=============================================================================
