------------------------------ MODULE Lifecycle -----------------------------
(***************************************************************************)
(* The end of the process: main.run after a signal or a serve error, with  *)
(* the requests, the scheduler and the worker it has to bring to rest.     *)
(*                                                                         *)
(* main shuts the HTTP server down (waiting at most ten seconds for the    *)
(* requests being served, then cutting their connections), stops the       *)
(* scheduler, closes alertCh, waits for the worker, and returns.  Cutting  *)
(* a connection cancels the request's context; it does not stop the        *)
(* goroutine, and nothing waits for it.                                    *)
(*                                                                         *)
(* Requests here are pings that found their check down and so owe a        *)
(* recovery alert; what else handlers do is Monitor's subject.  To bound   *)
(* the run each request is served once and each check goes down once.      *)
(***************************************************************************)
EXTENDS AlertPipeline

CONSTANTS Requests    \* identities of the requests

VARIABLES
    main,         \* where main.run is
    accepting,    \* the HTTP server serves new requests
    handler,      \* request -> its goroutine
    cancelled,    \* requests whose context is cancelled
    sched,        \* the scheduler goroutine
    stopping,     \* sched.Stop has cancelled its context and closed stopCh
    down,         \* the checks whose stored status is down
    fell,         \* history: checks this process took down
    alerted,      \* history: of those, the ones phase 2 offered alerts for
    panicked      \* history: requests that sent on the closed channel

mainVars == <<main, accepting, handler, cancelled, sched, stopping, down,
              fell, alerted, panicked>>
vars     == <<pipelineVars, mainVars>>

Handlers   == [pc : {"idle", "save", "list", "send", "returned"},
               check : Checks \cup {Nil}, chans : SUBSET Channels]
Schedulers == [pc : {"wait", "list", "send", "exited"},
               todo : SUBSET Checks,
               check : Checks \cup {Nil}, chans : SUBSET Channels]

IdleHandler == [pc |-> "idle", check |-> Nil, chans |-> {}]
Returned    == [IdleHandler EXCEPT !.pc = "returned"]
Waiting     == [pc |-> "wait", todo |-> {}, check |-> Nil, chans |-> {}]

TypeOK ==
    /\ PipelineTypeOK
    /\ main \in {"serving", "shutdown", "stop", "join", "close", "drain", "done"}
    /\ accepting \in BOOLEAN
    /\ handler \in [Requests -> Handlers]
    /\ cancelled \subseteq Requests
    /\ sched \in Schedulers
    /\ stopping \in BOOLEAN
    /\ down \subseteq Checks
    /\ fell \subseteq Checks /\ alerted \subseteq fell
    /\ panicked \subseteq Requests

Init ==
    /\ PipelineInit
    /\ main = "serving" /\ accepting = TRUE
    /\ handler = [r \in Requests |-> IdleHandler]
    /\ cancelled = {}
    /\ sched = Waiting
    /\ stopping = FALSE
    /\ down \in SUBSET Checks
    /\ fell = {} /\ alerted = {}
    /\ panicked = {}

-----------------------------------------------------------------------------
(* Requests. *)

handlerOnly ==
    UNCHANGED <<main, accepting, cancelled, sched, stopping, fell, alerted>>

Go(r, locals) == handler' = [handler EXCEPT ![r] = locals]

(* A ping whose cache.Get returned a check that is down. *)
Request(r) ==
    /\ accepting /\ handler[r].pc = "idle"
    /\ \E c \in down \cap checkRows :
          Go(r, [IdleHandler EXCEPT !.pc = "save", !.check = c])
    /\ handlerOnly /\ UNCHANGED <<pipelineVars, down, panicked>>

(* cache.Set fails on a row that is gone and on a cancelled context. *)
Save(r) ==
    /\ handler[r].pc = "save"
    /\ IF r \notin cancelled /\ handler[r].check \in checkRows
       THEN /\ Go(r, [handler[r] EXCEPT !.pc = "list"])
            /\ down' = down \ {handler[r].check}
       ELSE Go(r, Returned) /\ UNCHANGED down
    /\ handlerOnly /\ UNCHANGED <<pipelineVars, panicked>>

(* ListByCheckID; which of the channels are attached is left open. *)
List(r) ==
    /\ handler[r].pc = "list"
    /\ \/ /\ r \notin cancelled /\ handler[r].check \in checkRows
          /\ \E chans \in SUBSET channelRows \ {{}} :
                Go(r, [handler[r] EXCEPT !.pc = "send", !.chans = chans])
       \/ Go(r, Returned)
    /\ handlerOnly /\ UNCHANGED <<pipelineVars, down, panicked>>

AfterSend(r, ch) ==
    Go(r, IF handler[r].chans = {ch} THEN Returned
                                     ELSE [handler[r] EXCEPT !.chans = @ \ {ch}])

(* The send does not look at the context. *)
Send(r) ==
    /\ handler[r].pc = "send"
    /\ \E ch \in handler[r].chans :
          Offer(handler[r].check, ch) /\ AfterSend(r, ch)
    /\ handlerOnly /\ UNCHANGED <<down, panicked>>

(* A send on a closed channel panics; net/http recovers it, per request. *)
SendOnClosed(r) ==
    /\ handler[r].pc = "send" /\ closed
    /\ Go(r, Returned)
    /\ panicked' = panicked \cup {r}
    /\ handlerOnly /\ UNCHANGED <<pipelineVars, down>>

Handler(r) == Request(r) \/ Save(r) \/ List(r) \/ Send(r) \/ SendOnClosed(r)

-----------------------------------------------------------------------------
(* The scheduler, with a context that Stop cancels. *)

schedOnly ==
    UNCHANGED <<main, accepting, handler, cancelled, stopping, panicked>>

(* Phase 1 of a pass; with the context cancelled every update fails. *)
Evaluate ==
    /\ sched.pc = "wait" /\ ~stopping
    /\ \E gone \in SUBSET (checkRows \ (down \cup fell)) \ {{}} :
          /\ down' = down \cup gone
          /\ fell' = fell \cup gone
          /\ sched' = [Waiting EXCEPT !.pc = "list", !.todo = gone]
    /\ schedOnly /\ UNCHANGED <<pipelineVars, alerted>>

NextTransitioned(todo) ==
    sched' = [Waiting EXCEPT !.pc = IF todo = {} THEN "wait" ELSE "list",
                             !.todo = todo]

(***************************************************************************)
(* Phase 2.  ListByCheckID fails once the context is cancelled; before     *)
(* that a check without channels, or without a row, has nothing to send.   *)
(***************************************************************************)
SchedulerList ==
    /\ sched.pc = "list"
    /\ \E c \in sched.todo :
          IF stopping
          THEN NextTransitioned(sched.todo \ {c}) /\ UNCHANGED alerted
          ELSE /\ alerted' = alerted \cup {c}
               /\ \/ /\ c \in checkRows
                     /\ \E chans \in SUBSET channelRows \ {{}} :
                           sched' = [sched EXCEPT !.pc = "send",
                                                  !.todo = @ \ {c},
                                                  !.check = c,
                                                  !.chans = chans]
                  \/ NextTransitioned(sched.todo \ {c})
    /\ schedOnly /\ UNCHANGED <<pipelineVars, down, fell>>

SchedulerSend ==
    /\ sched.pc = "send"
    /\ \E ch \in sched.chans :
          /\ Offer(sched.check, ch)
          /\ IF sched.chans = {ch}
             THEN NextTransitioned(sched.todo)
             ELSE sched' = [sched EXCEPT !.chans = @ \ {ch}]
    /\ schedOnly /\ UNCHANGED <<down, fell, alerted>>

(* stopCh is one of the cases of run's select; a tick may win against it. *)
SchedulerExit ==
    /\ sched.pc = "wait" /\ stopping
    /\ sched' = [sched EXCEPT !.pc = "exited"]
    /\ schedOnly /\ UNCHANGED <<pipelineVars, down, fell, alerted>>

Scheduler == Evaluate \/ SchedulerList \/ SchedulerSend \/ SchedulerExit

-----------------------------------------------------------------------------
(* main.run. *)

MainGoes(from, to) == main = from /\ main' = to

mainOnly == UNCHANGED <<handler, sched, down, fell, alerted, panicked>>

Signal ==
    /\ MainGoes("serving", "shutdown")
    /\ accepting' = FALSE
    /\ mainOnly /\ UNCHANGED <<pipelineVars, cancelled, stopping>>

(***************************************************************************)
(* ListenAndServe returned an error: straight to the scheduler.  Nothing   *)
(* shuts the server down: open connections still bring requests.           *)
(***************************************************************************)
ServeError ==
    /\ MainGoes("serving", "stop")
    /\ mainOnly /\ UNCHANGED <<pipelineVars, accepting, cancelled, stopping>>

Serving == {r \in Requests : handler[r].pc \notin {"idle", "returned"}}

ShutdownReturns ==
    /\ MainGoes("shutdown", "stop")
    /\ Serving = {}
    /\ mainOnly /\ UNCHANGED <<pipelineVars, accepting, cancelled, stopping>>

(* Ten seconds are over: srv.Close cuts the connections that are left. *)
ShutdownTimeout ==
    /\ MainGoes("shutdown", "stop")
    /\ Serving # {}
    /\ cancelled' = Serving
    /\ mainOnly /\ UNCHANGED <<pipelineVars, accepting, stopping>>

StopScheduler ==
    /\ MainGoes("stop", "join")
    /\ stopping' = TRUE
    /\ mainOnly /\ UNCHANGED <<pipelineVars, accepting, cancelled>>

StopWithoutWaiting ==    \* mutation: Stop does not wait for the goroutine
    /\ MainGoes("join", "close")
    /\ mainOnly /\ UNCHANGED <<pipelineVars, accepting, cancelled, stopping>>

SchedulerJoined ==
    /\ MainGoes("join", "close")
    /\ sched.pc = "exited"
    /\ mainOnly /\ UNCHANGED <<pipelineVars, accepting, cancelled, stopping>>

CloseForgotten ==    \* mutation: alertCh is not closed
    /\ MainGoes("close", "drain")
    /\ mainOnly /\ UNCHANGED <<pipelineVars, accepting, cancelled, stopping>>

CloseAlertCh ==
    /\ MainGoes("close", "drain")
    /\ CloseQueue
    /\ mainOnly /\ UNCHANGED <<accepting, cancelled, stopping>>

(* worker.Wait returns; run returns, the database closes, the process ends. *)
WorkerJoined ==
    /\ MainGoes("drain", "done")
    /\ worker.pc = "exited"
    /\ mainOnly /\ UNCHANGED <<pipelineVars, accepting, cancelled, stopping>>

Main ==
    \/ ShutdownReturns \/ ShutdownTimeout
    \/ StopScheduler \/ SchedulerJoined
    \/ CloseAlertCh \/ WorkerJoined

-----------------------------------------------------------------------------

Next ==
    /\ main # "done"
    /\ \/ Signal \/ ServeError \/ Main
       \/ Scheduler
       \/ \E r \in Requests : Handler(r)
       \/ Worker /\ UNCHANGED mainVars
       \/ Deletions /\ UNCHANGED mainVars

Spec == Init /\ [][Next]_vars

(* The end by a signal: only there is the server shut down. *)
SignalledSpec == Init /\ [][Next /\ ~ServeError]_vars

(***************************************************************************)
(* Goroutines other than requests are scheduled; the shutdown context      *)
(* expires; Send and the inserts end by their deadlines.  A request may    *)
(* hang for ever: its client may read or write as slowly as it likes.      *)
(***************************************************************************)
Fairness ==
    /\ WF_vars(Main)
    /\ WF_vars(main # "done" /\ (SchedulerList \/ SchedulerSend \/ SchedulerExit))
    /\ WF_vars(main # "done" /\ Worker /\ UNCHANGED mainVars)

FairSpec == Spec /\ Fairness

-----------------------------------------------------------------------------
(* Properties. *)

(***************************************************************************)
(* The order of main.run's last steps: the queue is closed only after the  *)
(* scheduler has gone, so the scheduler never sends on a closed channel,   *)
(* and when run returns and the database is closed the worker has gone and *)
(* every event the queue ever took has been dispatched.                    *)
(***************************************************************************)
OrderlyEnd ==
    /\ closed => sched.pc = "exited"
    /\ main = "done" => /\ worker.pc = "exited"
                        /\ alertCh = <<>> /\ worker.event = <<>>

(* How many steps the worker may still take once nothing is queued. *)
StepsLeft == [send |-> 4, insert |-> 3, retry |-> 2, receive |-> 1, exited |-> 0]
DrainRank == 4 * Len(alertCh) + StepsLeft[worker.pc]

(***************************************************************************)
(* Why worker.Wait returns: once alertCh is closed nothing is queued any   *)
(* more and every step of the worker brings its end nearer; a full queue   *)
(* is at most 4 * QueueCap + 4 steps from the end.                         *)
(***************************************************************************)
DrainGoesOn ==
    [][closed => \/ UNCHANGED <<alertCh, worker>>
                 \/ DrainRank' < DrainRank]_vars

DrainBounded == DrainRank \in 0..(4 * QueueCap + 4)

(***************************************************************************)
(* Why sched.Stop returns: once the context is cancelled no pass begins    *)
(* any more, and each step of the one under way leaves fewer checks to     *)
(* list, or fewer channels of its check to alert, or ends it.              *)
(***************************************************************************)
PassShrinks ==
    \/ sched'.pc = "exited"
    \/ sched'.todo \subseteq sched.todo /\ sched'.todo # sched.todo
    \/ /\ sched.pc = "send" /\ sched'.todo = sched.todo
       /\ \/ sched'.pc # "send"
          \/ sched'.chans \subseteq sched.chans /\ sched'.chans # sched.chans

StopGoesOn == [][stopping => UNCHANGED sched \/ PassShrinks]_vars

(***************************************************************************)
(* Once a signal or a serve error arrives, run returns, whatever requests  *)
(* are in flight and whatever the notifiers do.                            *)
(***************************************************************************)
Terminates == main # "serving" ~> main = "done"

(***************************************************************************)
(* main.go's comment on srv.Close: the handlers it cuts off have returned  *)
(* before the channel is closed.  Of SignalledSpec: after a serve error    *)
(* nothing is shut down or cut off, and the comment promises nothing.      *)
(***************************************************************************)
NoSendOnClosed == panicked = {}

(***************************************************************************)
(* doc/ARCHITECTURE.md, startup reconciliation: a check that is down was   *)
(* alerted before shutdown.                                                *)
(***************************************************************************)
DownIsAlertedAtExit ==
    main = "done" => fell \cap down \cap checkRows \subseteq alerted
=============================================================================
