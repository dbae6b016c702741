----------------------------- MODULE Lifecycle -----------------------------
(***************************************************************************)
(* The frame of the two background processes: a goroutine of their own     *)
(* ("app"), one for the health server, the channel errCh both report to,   *)
(* and shutdown.Wait, which ends the process on a signal or on the first   *)
(* result and bounds the time it waits for the rest.                       *)
(***************************************************************************)
EXTENDS Integers, Sequences

VARIABLES
    root,    \* the signal context has ended
    ctx,     \* the context of both goroutines has ended
    part,    \* state of the two goroutines
    errCh,   \* their results, nil or error, buffered
    wait,    \* where Wait is: "select", "drain" or "returned"
    remaining,  \* results it has still to receive
    result,  \* its variable of that name, then what it returns
    exit     \* "none" until the process ends

lifeVars == <<root, ctx, part, errCh, wait, remaining, result, exit>>

Part == {"app", "health"}
Results == {"nil", "error"}

(* "closing": Serve is in server.Shutdown; a result: the goroutine ended.  *)
LifeTypeOK ==
    /\ root \in BOOLEAN
    /\ ctx \in BOOLEAN
    /\ part \in [Part -> {"running", "closing"} \cup Results]
    /\ errCh \in Seq(Results)
    /\ Len(errCh) <= 2
    /\ wait \in {"select", "drain", "returned"}
    /\ remaining \in 0 .. 2
    /\ result \in Results \cup {"timeout"}
    /\ exit \in {"none", "ok", "failed"}

LifeInit ==
    /\ root = FALSE
    /\ ctx = FALSE
    /\ part = [p \in Part |-> "running"]
    /\ errCh = << >>
    /\ wait = "select"
    /\ remaining = 2
    /\ result = "nil"
    /\ exit = "none"

Alive == exit = "none"
Ended(p) == part[p] \in Results

(* SIGINT or SIGTERM: root ends, and ctx with it.                          *)
Signal ==
    /\ Alive
    /\ root' = TRUE
    /\ ctx' = TRUE
    /\ UNCHANGED <<part, errCh, wait, remaining, result, exit>>

(* A goroutine returns r: it goes into errCh, which has room for both.     *)
Report(p, r) ==
    /\ Alive
    /\ ~Ended(p)
    /\ part' = [part EXCEPT ![p] = r]
    /\ errCh' = Append(errCh, r)
    /\ UNCHANGED <<root, ctx, wait, remaining, result, exit>>

-----------------------------------------------------------------------------
(* health.Serve.                                                           *)

(* ListenAndServe fails, for instance on an address in use.                *)
ListenFails == part["health"] = "running" /\ Report("health", "error")

(* ctx has ended: Shutdown, with a time-out of its own.                    *)
BeginShutdown ==
    /\ Alive
    /\ ctx
    /\ part["health"] = "running"
    /\ part' = [part EXCEPT !["health"] = "closing"]
    /\ UNCHANGED <<root, ctx, errCh, wait, remaining, result, exit>>

EndShutdown == part["health"] = "closing" /\ \E r \in Results : Report("health", r)

-----------------------------------------------------------------------------
(* shutdown.Wait.                                                          *)

(* Wait receives a result and keeps r.                                     *)
Receive(r) ==
    /\ Alive
    /\ errCh # << >>
    /\ result' = r
    /\ errCh' = Tail(errCh)
    /\ remaining' = remaining - 1
    /\ UNCHANGED <<root, part, exit>>

(* The first select, when a goroutine has reported.                        *)
SelectResult == wait = "select" /\ Receive(Head(errCh)) /\ ctx' = TRUE /\ wait' = "drain"

(* The first select, when the signal has come.                             *)
SelectSignal ==
    /\ Alive
    /\ wait = "select"
    /\ root
    /\ ctx' = TRUE
    /\ wait' = "drain"
    /\ UNCHANGED <<root, part, errCh, remaining, result, exit>>

Draining == wait = "drain" /\ remaining > 0

(* Mutant of Drain: the last result wins.                                  *)
DrainOverwrites == Draining /\ Receive(Head(errCh)) /\ UNCHANGED <<ctx, wait>>

(* The loop: the first error is kept.                                      *)
Drain ==
    /\ Draining
    /\ Receive(IF result = "nil" THEN Head(errCh) ELSE result)
    /\ UNCHANGED <<ctx, wait>>

(* Wait returns r.                                                         *)
Give(r) ==
    /\ Alive
    /\ wait = "drain"
    /\ result' = r
    /\ wait' = "returned"
    /\ UNCHANGED <<root, ctx, part, errCh, remaining, exit>>

(* Mutant of TimeUp: the loop has no timer, and waits on errCh alone.      *)
TimeUpMissing == Draining /\ errCh # << >> /\ Give("timeout")

(* The timer fires before all results are in.                              *)
TimeUp == Draining /\ Give("timeout")

(* Mutant of WaitReturns: one result is enough.                            *)
WaitReturnsEarly == remaining <= 1 /\ Give(IF root THEN "nil" ELSE result)

(* All results are in; after a signal no error counts.                     *)
WaitReturns == remaining = 0 /\ Give(IF root THEN "nil" ELSE result)

(* The deferred calls of run close producer, consumer and database pool,   *)
(* and main exits with 0 or 1.                                             *)
Exit ==
    /\ Alive
    /\ wait = "returned"
    /\ exit' = IF result = "nil" THEN "ok" ELSE "failed"
    /\ UNCHANGED <<root, ctx, part, errCh, wait, remaining, result>>

ServeStep == ListenFails \/ BeginShutdown \/ EndShutdown
WaitStep == SelectResult \/ SelectSignal \/ Drain \/ TimeUp \/ WaitReturns

(* The app on its own: nil only when ctx has ended, an error at any time.  *)
AppReturns(r) == (r = "nil" => ctx) /\ Report("app", r)

LifeNext == Signal \/ ServeStep \/ WaitStep \/ Exit \/ \E r \in Results : AppReturns(r)

LifeSpec == LifeInit /\ [][LifeNext]_lifeVars

-----------------------------------------------------------------------------
(* Properties.                                                             *)

(* The process ends with status 0 only after a signal: neither a nil of    *)
(* the goroutine that was told to stop, nor the order in which results     *)
(* arrive, hides the failure that made Wait stop the process.              *)
ExitZeroMeansSignal == exit = "ok" => root

(* Database pool, producer and Kafka client are closed under a goroutine   *)
(* that still uses them only when the shutdown time-out has passed.        *)
ClosedAfterUse == exit # "none" /\ result # "timeout" => \A p \in Part : Ended(p)
=============================================================================
