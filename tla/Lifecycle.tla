----------------------------- MODULE Lifecycle -----------------------------
(***************************************************************************)
(* Reload and shutdown: the loop of `main` (src/main.rs), the tasks it     *)
(* spawns, and the tokio Notify `notify_shutdown` they share.              *)
(*                                                                         *)
(* On a reload main calls notify_waiters(), which wakes the tasks that are *)
(* waiting in their select! at that moment and leaves no permit behind,    *)
(* and then waits on the same Notify for the notify_one() with which the   *)
(* ingest server reports that it has stopped.  After a pause that is       *)
(* longer than the delays of the servers it starts a new generation of     *)
(* tasks with a new Notify.                                                *)
(*                                                                         *)
(* Two things can go wrong.  A task may not be waiting when it matters: it *)
(* is busy in another branch of its select!, or it is woken, finds another *)
(* branch ready too and select! picks that one.  And a task that missed    *)
(* the signal and queues up before main takes the notify_one() that is     *)
(* meant for main.                                                         *)
(***************************************************************************)
EXTENDS Sequences, Naturals, FiniteSets, SequencesExt

CONSTANTS
    Servers,       \* servers with an endpoint: ingest, publish, peer
    Ingest,        \* the ingest server
    Others,        \* tasks without one: retain_periodically, web::serve
    Handlers,      \* connection handlers
    ServerOf,      \* the server whose endpoint a handler's connection is on
    AlwaysWaits,   \* tasks that do nothing but wait: web::serve
    MaxReloads     \* bound: number of reloads asked for

Tasks == Servers \cup Others \cup Handlers
Main == "main"

ASSUME ServersAssumption == Ingest \in Servers
ASSUME HandlersAssumption == ServerOf \in [Handlers -> Servers]
ASSUME OthersAssumption == AlwaysWaits \subseteq Others
ASSUME HandlersApartAssumption == Handlers \cap (Servers \cup Others) = {}
ASSUME ServersApartAssumption == Servers \cap Others = {}
ASSUME TasksAssumption == IsFiniteSet(Tasks)
ASSUME MainAssumption == Main \notin Tasks
ASSUME MaxReloadsAssumption == MaxReloads \in Nat

VARIABLES
    task,       \* where each task of the present generation stands
    main,       \* where main stands
    waiters,    \* the Notify's queue of waiting tasks, main among them
    permit,     \* the Notify holds a permit
    reload,     \* config_reload holds a permit
    ctrlc,      \* notify_ctrlc holds a permit
    reloads,    \* reloads asked for so far
    missed,     \* history: tasks the signal of this generation passed by
    stolen,     \* history: a task took the notify_one meant for main
    lingering   \* tasks of earlier generations that still run

notifyVars == <<waiters, permit>>
signals == <<reload, ctrlc, reloads>>
history == <<missed, stolen, lingering>>
vars == <<task, main, notifyVars, signals, history>>

\* "wait": in select!; "woken": notified by notify_waiters; "chosen": notified
\* by notify_one; "busy": in another branch; "closing": in the delay before
\* the endpoint or the connection is closed.
TaskPc == {"none", "wait", "woken", "chosen", "busy", "closing", "done"}
MainPc == {"serving", "signal", "register", "await", "chosen", "reboot",
           "exiting", "exited"}

\* A new generation, in which the tasks in dead could not start.
Start(dead) == [t \in Tasks |-> IF t \in Handlers THEN "none"
                                ELSE IF t \in dead THEN "done" ELSE "wait"]

Init ==
    /\ task = Start({})
    /\ main = "serving"
    /\ waiters = SetToSeq(Servers \cup Others)
    /\ permit = FALSE
    /\ reload = FALSE /\ ctrlc = FALSE /\ reloads = 0
    /\ missed = {} /\ stolen = FALSE /\ lingering = {}

-----------------------------------------------------------------------------
(* tokio::sync::Notify.                                                    *)

\* notify_one: the first waiter is woken, or a permit is kept for the next.
NotifyOne(ws, tk, mn) ==
    IF ws = <<>>
    THEN /\ permit' = TRUE /\ waiters' = ws /\ task' = tk /\ main' = mn
    ELSE /\ waiters' = Tail(ws)
         /\ permit' = permit
         /\ task' = IF Head(ws) = Main THEN tk ELSE [tk EXCEPT ![Head(ws)] = "chosen"]
         /\ main' = IF Head(ws) = Main THEN "chosen" ELSE mn

\* Waiting(t): t's select! creates a Notified future and takes a permit if
\* there is one.
Waiting(t) ==
    IF permit
    THEN /\ permit' = FALSE /\ waiters' = waiters
         /\ task' = [task EXCEPT ![t] = "chosen"]
    ELSE /\ permit' = permit /\ waiters' = Append(waiters, t)
         /\ task' = [task EXCEPT ![t] = "wait"]

-----------------------------------------------------------------------------
(* Tasks.                                                                  *)

\* Once main has returned the process is gone.
Up == main # "exited"

\* select! takes another branch than the shutdown one: a connection or stream
\* to accept, a message, a timer.  The Notified future is dropped with what it
\* knows; only a wake-up by notify_one is passed on to the next waiter.
TurnBusy(t) ==
    /\ Up /\ t \notin AlwaysWaits
    /\ task[t] \in {"wait", "woken", "chosen"}
    /\ IF task[t] = "chosen"
       THEN NotifyOne(waiters, [task EXCEPT ![t] = "busy"], main)
       ELSE /\ task' = [task EXCEPT ![t] = "busy"]
            /\ waiters' = RemoveFirst(waiters, t)
            /\ UNCHANGED <<permit, main>>
    /\ missed' = IF task[t] = "woken" THEN missed \cup {t} ELSE missed
    /\ UNCHANGED <<signals, stolen, lingering>>

TurnIdle(t) ==
    /\ Up /\ task[t] = "busy"
    /\ Waiting(t)
    /\ UNCHANGED <<main, signals, history>>

\* A server's accept branch spawns a handler, which starts with the handshake.
SpawnHandler(h) ==
    /\ Up /\ task[h] = "none" /\ task[ServerOf[h]] = "busy"
    /\ task' = [task EXCEPT ![h] = "busy"]
    /\ missed' = IF main \in {"serving", "signal"} THEN missed ELSE missed \cup {h}
    /\ UNCHANGED <<main, notifyVars, signals, stolen, lingering>>

\* The shutdown branch: retain_periodically returns and the GraphQL server
\* stops, the others begin to close.
HearShutdown(t) ==
    /\ Up /\ task[t] \in {"woken", "chosen"}
    /\ task' = [task EXCEPT ![t] = IF t \in Others THEN "done" ELSE "closing"]
    /\ stolen' = (stolen \/ task[t] = "chosen")
    /\ UNCHANGED <<main, notifyVars, signals, missed, lingering>>

\* Mutant: the ingest server does not report back.
CloseSilently(t) ==
    /\ Up /\ task[t] = "closing"
    /\ task' = [task EXCEPT ![t] = "done"]
    /\ UNCHANGED <<main, notifyVars, signals, history>>

\* Mutant: the ingest server reports back with notify_waiters, which reaches
\* main only if it waits already.
CloseWakesWaiters(t) ==
    /\ Up /\ task[t] = "closing"
    /\ IF t = Ingest
       THEN /\ task' = [u \in Tasks |-> IF u = t THEN "done"
                                       ELSE IF task[u] = "wait" THEN "woken" ELSE task[u]]
            /\ main' = IF main = "await" THEN "chosen" ELSE main
            /\ waiters' = <<>> /\ UNCHANGED permit
       ELSE task' = [task EXCEPT ![t] = "done"] /\ UNCHANGED <<main, notifyVars>>
    /\ UNCHANGED <<signals, history>>

\* After its delay a task closes its endpoint or connection and ends; the
\* ingest server then calls notify_one.
Close(t) ==
    /\ Up /\ task[t] = "closing"
    /\ IF t = Ingest
       THEN NotifyOne(waiters, [task EXCEPT ![t] = "done"], main)
       ELSE /\ task' = [task EXCEPT ![t] = "done"]
            /\ UNCHANGED <<main, notifyVars>>
    /\ UNCHANGED <<signals, history>>

\* accept_bi of a handler fails, because the agent left or because the
\* endpoint has been closed; a wake-up by notify_one is passed on.
ConnectionLost(h) ==
    /\ Up /\ task[h] \in {"wait", "woken", "chosen"}
    /\ IF task[h] = "chosen"
       THEN NotifyOne(waiters, [task EXCEPT ![h] = "done"], main)
       ELSE /\ task' = [task EXCEPT ![h] = "done"]
            /\ waiters' = RemoveFirst(waiters, h)
            /\ UNCHANGED <<permit, main>>
    /\ UNCHANGED <<signals, history>>

-----------------------------------------------------------------------------
(* main.                                                                   *)

\* config_reload fires and the new configuration can be read.
Reload ==
    /\ main = "serving" /\ reload
    /\ main' = "signal"
    /\ reload' = FALSE
    /\ UNCHANGED <<task, notifyVars, ctrlc, reloads, history>>

\* The new configuration cannot be read: the old one stays.
ReloadRefused ==
    /\ main = "serving" /\ reload
    /\ reload' = FALSE
    /\ UNCHANGED <<task, main, notifyVars, ctrlc, reloads, history>>

\* notify_waiters wakes those who wait and no one else.
Woken(t) == task[t] = "wait"
NotifyWaiters(next) ==
    /\ main' = next
    /\ task' = [t \in Tasks |-> IF Woken(t) THEN "woken" ELSE task[t]]
    /\ waiters' = <<>>
    /\ missed' = missed \cup {t \in Tasks : task[t] \in {"busy", "chosen"}}
    /\ UNCHANGED <<permit, stolen, lingering>>

SignalShutdown ==
    /\ main = "signal"
    /\ NotifyWaiters("register")
    /\ UNCHANGED signals

\* notify_shutdown.notified().await
AwaitShutdown ==
    /\ main = "register"
    /\ IF permit
       THEN permit' = FALSE /\ main' = "chosen" /\ UNCHANGED waiters
       ELSE main' = "await" /\ waiters' = Append(waiters, Main) /\ UNCHANGED permit
    /\ UNCHANGED <<task, signals, history>>

ShutdownComplete ==
    /\ main = "chosen"
    /\ main' = "reboot"
    /\ UNCHANGED <<task, notifyVars, signals, history>>

\* Mutant: no delay.
NoRebootDelay == TRUE

\* SERVER_REBOOT_DELAY outlasts SERVER_ENDPOINT_DELAY and
\* SERVER_CONNNECTION_DELAY: a task that has heard the signal has ended.
RebootDelayOver == \A t \in Tasks : task[t] \notin {"woken", "closing"}

\* Mutant: notify_ctrlc is created anew in every round, too.
RestartForgetsCtrlC ==
    /\ main = "reboot" /\ RebootDelayOver
    /\ main' = "serving"
    /\ lingering' = lingering \cup {t \in Tasks : task[t] \notin {"none", "done"}}
    /\ task' = Start({})
    /\ waiters' = SetToSeq(Servers \cup Others)
    /\ permit' = FALSE
    /\ reload' = FALSE /\ ctrlc' = FALSE
    /\ missed' = {} /\ stolen' = FALSE
    /\ UNCHANGED reloads

\* The next round of the loop: new tasks with a new Notify and a new
\* config_reload.  A server panics if an old one still holds its address,
\* unless the new configuration names another.
Restart ==
    /\ main = "reboot" /\ RebootDelayOver
    /\ main' = "serving"
    /\ lingering' = lingering \cup {t \in Tasks : task[t] \notin {"none", "done"}}
    /\ \E dead \in SUBSET (lingering' \cap Servers) :
          /\ task' = Start(dead)
          /\ waiters' = SetToSeq((Servers \cup Others) \ dead)
    /\ permit' = FALSE
    /\ reload' = FALSE
    /\ missed' = {} /\ stolen' = FALSE
    /\ UNCHANGED <<ctrlc, reloads>>

\* notify_ctrlc fires.
Terminate ==
    /\ main = "serving" /\ ctrlc
    /\ ctrlc' = FALSE
    /\ NotifyWaiters("exiting")
    /\ UNCHANGED <<reload, reloads>>

Exit ==
    /\ main = "exiting" /\ RebootDelayOver
    /\ main' = "exited"
    /\ UNCHANGED <<task, notifyVars, signals, history>>

-----------------------------------------------------------------------------
(* The users of the system.                                                *)

\* set_giganto_config asks for a reload.
AskReload ==
    /\ reloads < MaxReloads /\ main = "serving"
    /\ reloads' = reloads + 1
    /\ reload' = TRUE
    /\ UNCHANGED <<task, main, notifyVars, ctrlc, history>>

PressCtrlC ==
    /\ ~ctrlc /\ main # "exited"
    /\ ctrlc' = TRUE
    /\ UNCHANGED <<task, main, notifyVars, reload, reloads, history>>

-----------------------------------------------------------------------------
Run(t) == TurnIdle(t) \/ HearShutdown(t) \/ Close(t)

MainStep ==
    \/ Reload \/ ReloadRefused \/ SignalShutdown \/ AwaitShutdown
    \/ ShutdownComplete \/ Restart \/ Terminate \/ Exit

Next ==
    \/ \E t \in Tasks : TurnBusy(t) \/ Run(t)
    \/ \E h \in Handlers : SpawnHandler(h) \/ ConnectionLost(h)
    \/ MainStep
    \/ AskReload \/ PressCtrlC

Spec == Init /\ [][Next]_vars

\* Every task that can run is run, and main is.
Fairness == WF_vars(MainStep) /\ \A t \in Tasks : WF_vars(Run(t))

FairSpec == Spec /\ Fairness

-----------------------------------------------------------------------------
(* Properties.                                                             *)

\* Every variable keeps its type, and nobody is queued at the Notify twice.
TypeOK ==
    /\ task \in [Tasks -> TaskPc] /\ main \in MainPc
    /\ waiters \in Seq(Tasks \cup {Main}) /\ Len(waiters) <= Cardinality(Tasks) + 1
    /\ permit \in BOOLEAN /\ reload \in BOOLEAN /\ ctrlc \in BOOLEAN
    /\ reloads \in 0..MaxReloads
    /\ missed \subseteq Tasks /\ stolen \in BOOLEAN /\ lingering \subseteq Tasks

\* Every task that heard the signal has ended before the next generation
\* starts: of the old generation only those are left that the signal passed
\* by.
OnlyTheDeafLinger ==
    [][main = "reboot" /\ main' = "serving" => lingering' \subseteq lingering \cup missed]_vars

\* The two ways in which main's wait is left without an answer.
Unanswered == Ingest \in missed \/ stolen

\* While main waits, and neither of the two has happened, its answer is still
\* to come: the ingest server has heard the signal and will call notify_one,
\* or that call is kept as a permit or held by a task that will pass it on.
\* The answer is not lost when it is given before main waits for it, when the
\* task it wakes is gone or busy, or when notify_waiters comes in between.
AnswerIsDue ==
    main \in {"register", "await"} /\ ~Unanswered =>
       \/ task[Ingest] \in {"woken", "closing"}
       \/ permit
       \/ \E t \in Tasks : task[t] = "chosen"

\* A reload goes through unless the ingest server missed the signal or a task
\* that did took its answer; tasks that miss it otherwise do not hold it up.
ReloadCompletes == (main = "await") ~> (main # "await" \/ Unanswered)

\* Ctrl-C ends the process unless main is stuck in such a reload: pressed
\* during a reload it is not lost, it is seen in the next round.
CtrlCExits == ctrlc ~> (main = "exited" \/ Unanswered)

\* What the comment in main says the wait is for: main waits for the shutdown
\* to complete, and goes on.
WaitEnds == (main = "await") ~> (main # "await")
=============================================================================
