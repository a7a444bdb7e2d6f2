----------------------------- MODULE Connector -----------------------------
(***************************************************************************)
(* The life cycle of the cloudflared subprocess: cloudflared.Process with  *)
(* its watchCrash goroutines, the token check of reloader.Reload, and the  *)
(* start and shutdown sequence of main.                                    *)
(*                                                                         *)
(* A child is one execution of the cloudflared binary, numbered in the     *)
(* order of the launches.  Each launch also starts one watchCrash          *)
(* goroutine, which carries the number of the child that spawned it.       *)
(***************************************************************************)
EXTENDS Integers, FiniteSets

CONSTANTS
  Main,            \* the context main() cancels on shutdown
  Requests,        \* contexts of the HTTP requests that call Reload
  Tokens,          \* the tunnel tokens config.yml may hold
  FirstToken,      \* the token main() read before cloudflared.New
  MaxCrashRetry,   \* maxCrashRetry
  MaxStarts,       \* bound: launches; a launch beyond it fails
  MaxCrashes,      \* bound: children that die on their own
  MaxEdits,        \* bound: changes of the token in config.yml
  MaxLaunchErrors  \* bound: launches the operating system refuses

ASSUME ConnectorAssumption ==
  /\ Main \notin Requests
  /\ FirstToken \in Tokens
  /\ MaxCrashRetry \in Nat
  /\ MaxStarts \in Nat \ {0}
  /\ MaxCrashes \in Nat
  /\ MaxEdits \in Nat
  /\ MaxLaunchErrors \in Nat

Contexts == Requests \union {Main}
Starts   == 1..MaxStarts
NoCmd    == 0
NoCtx    == Main       \* placeholder for a child that was never launched

VARIABLES
  mainPc,       \* where main() is
  cancelled,    \* the contexts that are done
  n,            \* children launched so far
  cmd,          \* p.cmd: the current child, or NoCmd for nil
  proc,         \* per child: not launched, running, or how it ended
  ctxOf,        \* per child: the context its exec.CommandContext was given
  taken,        \* per child: some Wait has received the result
  wpc, wcmd,    \* per watchCrash goroutine: its position, the child it watches
  mu,           \* p.mu: free, or the long critical section that holds it
  phase, old,   \* terminate(): its position, the child it stops
  rpc, rctx,    \* the Reload in progress (r.mu admits one), its context
  fileToken,    \* the token config.Load would return now
  lastToken,    \* r.lastToken
  gaveUp,       \* crashCh holds a signal
  crashes, edits, launchErrors   \* counters of the bounds

mainVars   == <<mainPc, cancelled>>
childVars  == <<n, cmd, proc, ctxOf>>
watchVars  == <<wpc, wcmd>>
termVars   == <<mu, phase, old>>
reloadVars == <<rpc, rctx, fileToken, lastToken>>
counters   == <<crashes, edits, launchErrors>>
vars == <<mainVars, childVars, taken, watchVars, termVars, reloadVars,
          gaveUp, counters>>

Ended     == {"crashed", "terminated", "killed"}
ProcState == {"unborn", "alive"} \union Ended
WatchPc   == {"none", "spawned", "waiting", "returned", "checking",
              "backoff", "done"}

TypeOK ==
  /\ mainPc \in {"boot", "running", "cancelled", "stopping", "stopped", "failed"}
  /\ cancelled \in SUBSET Contexts
  /\ n \in 0..MaxStarts
  /\ cmd \in 0..n
  /\ proc \in [Starts -> ProcState]
  /\ ctxOf \in [Starts -> Contexts]
  /\ taken \in [Starts -> BOOLEAN]
  /\ wpc \in [Starts -> WatchPc]
  /\ wcmd \in [Starts -> 0..n]
  /\ mu \in {"free", "reload", "stop"}
  /\ phase \in {"idle", "waiting", "killing", "ended"}
  /\ old \in 0..n
  /\ rpc \in {"idle", "restart"}
  /\ rctx \in Contexts
  /\ fileToken \in Tokens
  /\ lastToken \in Tokens
  /\ gaveUp \in BOOLEAN
  /\ crashes \in 0..MaxCrashes
  /\ edits \in 0..MaxEdits
  /\ launchErrors \in 0..MaxLaunchErrors

Alive == {c \in Starts : proc[c] = "alive"}

Init ==
  /\ mainPc = "boot"
  /\ cancelled = {}
  /\ n = 0
  /\ cmd = NoCmd
  /\ proc = [c \in Starts |-> "unborn"]
  /\ ctxOf = [c \in Starts |-> NoCtx]
  /\ taken = [c \in Starts |-> FALSE]
  /\ wpc = [i \in Starts |-> "none"]
  /\ wcmd = [i \in Starts |-> NoCmd]
  /\ mu = "free" /\ phase = "idle" /\ old = NoCmd
  /\ rpc = "idle" /\ rctx = NoCtx
  /\ fileToken = FirstToken /\ lastToken = FirstToken
  /\ gaveUp = FALSE
  /\ crashes = 0 /\ edits = 0 /\ launchErrors = 0

-----------------------------------------------------------------------------
(* start(ctx), called with p.mu held.  "finished" is the set of watchCrash *)
(* goroutines that end with this call: the one that restarts its child.    *)

\* Mutant: start forgets "go p.watchCrash(ctx, 0)".
LaunchUnwatched(ctx, finished) ==
  /\ n < MaxStarts
  /\ ctx \notin cancelled
  /\ n' = n + 1
  /\ cmd' = n + 1
  /\ proc' = [proc EXCEPT ![n + 1] = "alive"]
  /\ ctxOf' = [ctxOf EXCEPT ![n + 1] = ctx]
  /\ wpc' = [i \in Starts |-> IF i \in finished THEN "done" ELSE wpc[i]]
  /\ UNCHANGED launchErrors

\* start succeeds: the new child becomes p.cmd and gets its own watchCrash.
\* exec.Cmd.Start refuses a context that is already done.
Launch(ctx, finished) ==
  /\ n < MaxStarts
  /\ ctx \notin cancelled
  /\ n' = n + 1
  /\ cmd' = n + 1
  /\ proc' = [proc EXCEPT ![n + 1] = "alive"]
  /\ ctxOf' = [ctxOf EXCEPT ![n + 1] = ctx]
  /\ wpc' = [i \in Starts |-> IF i = n + 1 THEN "spawned"
                              ELSE IF i \in finished THEN "done" ELSE wpc[i]]
  /\ UNCHANGED launchErrors

\* Mutant: start assigns p.cmd before it looks at the error of cmd.Start.
LaunchFailsKeepsCmd(ctx, finished) ==
  /\ \/ (n = MaxStarts \/ ctx \in cancelled) /\ UNCHANGED launchErrors
     \/ launchErrors < MaxLaunchErrors /\ launchErrors' = launchErrors + 1
  /\ wpc' = [i \in Starts |-> IF i \in finished THEN "done" ELSE wpc[i]]
  /\ cmd' = n + 1
  /\ UNCHANGED <<n, proc, ctxOf>>

\* start returns an error and leaves p.cmd as it is.
LaunchFails(ctx, finished) ==
  /\ \/ (n = MaxStarts \/ ctx \in cancelled) /\ UNCHANGED launchErrors
     \/ launchErrors < MaxLaunchErrors /\ launchErrors' = launchErrors + 1
  /\ wpc' = [i \in Starts |-> IF i \in finished THEN "done" ELSE wpc[i]]
  /\ UNCHANGED childVars

\* Process.Running
Running == cmd # NoCmd

-----------------------------------------------------------------------------
(* The operating system and the runtime.                                   *)

\* A child exits although nobody asked it to.  A child that already got its
\* SIGTERM counts as terminated whatever made it exit.
ChildCrashes(c) ==
  /\ proc[c] = "alive"
  /\ ~(phase \in {"waiting", "killing"} /\ old = c)
  /\ crashes < MaxCrashes
  /\ crashes' = crashes + 1
  /\ proc' = [proc EXCEPT ![c] = "crashed"]
  /\ UNCHANGED <<mainVars, n, cmd, ctxOf, taken, watchVars, termVars,
                 reloadVars, gaveUp, edits, launchErrors>>

\* exec.CommandContext kills a child whose context is done.
ContextKills(c) ==
  /\ proc[c] = "alive"
  /\ ctxOf[c] \in cancelled
  /\ proc' = [proc EXCEPT ![c] = "killed"]
  /\ UNCHANGED <<mainVars, n, cmd, ctxOf, taken, watchVars, termVars,
                 reloadVars, gaveUp, counters>>

\* cmd.Wait returns.  os/exec hands the result of a command over once: of
\* two concurrent Waits one receives it.  A Wait entered after that returns
\* at once ("Wait was already called"), one that entered before never does.
Wait(c) ==
  /\ proc[c] \in Ended
  /\ taken' = [taken EXCEPT ![c] = TRUE]

-----------------------------------------------------------------------------
(* watchCrash, goroutine i (started by the launch of child i).             *)

\* It picks the child to wait for when it first runs, not when it is spawned.
WatchReads(i) ==
  /\ wpc[i] = "spawned"
  /\ mu = "free"
  /\ wcmd' = [wcmd EXCEPT ![i] = cmd]
  /\ wpc' = [wpc EXCEPT ![i] = IF cmd = NoCmd THEN "done" ELSE "waiting"]
  /\ UNCHANGED <<mainVars, childVars, taken, termVars, reloadVars, gaveUp,
                 counters>>

WatchWaits(i) ==
  /\ wpc[i] = "waiting"
  /\ Wait(wcmd[i])
  /\ wpc' = [wpc EXCEPT ![i] = "returned"]
  /\ UNCHANGED <<mainVars, childVars, wcmd, termVars, reloadVars, gaveUp,
                 counters>>

\* "If context was cancelled, this is an intentional stop"
WatchChecksContext(i) ==
  /\ wpc[i] = "returned"
  /\ wpc' = [wpc EXCEPT ![i] =
               IF ctxOf[i] \in cancelled THEN "done" ELSE "checking"]
  /\ UNCHANGED <<mainVars, childVars, taken, wcmd, termVars, reloadVars,
                 gaveUp, counters>>

\* The retry argument: start always spawns watchCrash(ctx, 0).
retry == 0

\* Mutant: the comparison with p.cmd is missing, every exit is a crash.
WatchComparesNothing(i) ==
  /\ wpc[i] = "checking"
  /\ mu = "free"
  /\ \/ /\ retry >= MaxCrashRetry
        /\ wpc' = [wpc EXCEPT ![i] = "done"]
        /\ gaveUp' = TRUE
     \/ /\ retry < MaxCrashRetry
        /\ wpc' = [wpc EXCEPT ![i] = "backoff"]
        /\ UNCHANGED gaveUp
  /\ UNCHANGED <<mainVars, childVars, taken, wcmd, termVars, reloadVars,
                 counters>>

\* Mutant: the comparison is inverted.
WatchComparesInverted(i) ==
  /\ wpc[i] = "checking"
  /\ mu = "free"
  /\ wpc' = [wpc EXCEPT ![i] = IF cmd = wcmd[i] THEN "done" ELSE "backoff"]
  /\ UNCHANGED <<mainVars, childVars, taken, wcmd, termVars, reloadVars,
                 gaveUp, counters>>

\* Mutant: the watcher gives up without a word on crashCh.
WatchGivesUpSilently(i) ==
  /\ wpc[i] = "checking"
  /\ mu = "free"
  /\ wpc' = [wpc EXCEPT ![i] =
               IF cmd = wcmd[i] /\ retry < MaxCrashRetry THEN "backoff" ELSE "done"]
  /\ UNCHANGED <<mainVars, childVars, taken, wcmd, termVars, reloadVars,
                 gaveUp, counters>>

\* "If cmd was replaced [...] also not a crash"; otherwise give up or back off.
WatchCompares(i) ==
  /\ wpc[i] = "checking"
  /\ mu = "free"
  /\ \/ /\ cmd # wcmd[i]
        /\ wpc' = [wpc EXCEPT ![i] = "done"]
        /\ UNCHANGED gaveUp
     \/ /\ cmd = wcmd[i]
        /\ retry >= MaxCrashRetry
        /\ wpc' = [wpc EXCEPT ![i] = "done"]
        /\ gaveUp' = TRUE
     \/ /\ cmd = wcmd[i]
        /\ retry < MaxCrashRetry
        /\ wpc' = [wpc EXCEPT ![i] = "backoff"]
        /\ UNCHANGED gaveUp
  /\ UNCHANGED <<mainVars, childVars, taken, wcmd, termVars, reloadVars,
                 counters>>

\* The select in the backoff sees ctx.Done before the timer.
WatchAbandons(i) ==
  /\ wpc[i] = "backoff"
  /\ ctxOf[i] \in cancelled
  /\ wpc' = [wpc EXCEPT ![i] = "done"]
  /\ UNCHANGED <<mainVars, childVars, taken, wcmd, termVars, reloadVars,
                 gaveUp, counters>>

\* Mutant: the goroutine that restarted its child goes on as well.
WatchRestartsAndStays(i) ==
  /\ wpc[i] = "backoff"
  /\ mu = "free"
  /\ Launch(ctxOf[i], {}) \/ LaunchFails(ctxOf[i], {i})
  /\ UNCHANGED <<mainVars, taken, wcmd, termVars, reloadVars, gaveUp,
                 crashes, edits>>

\* The backoff is over.  p.cmd is not looked at again before start.
WatchRestarts(i) ==
  /\ wpc[i] = "backoff"
  /\ mu = "free"
  /\ Launch(ctxOf[i], {i}) \/ LaunchFails(ctxOf[i], {i})
  /\ UNCHANGED <<mainVars, taken, wcmd, termVars, reloadVars, gaveUp,
                 crashes, edits>>

-----------------------------------------------------------------------------
(* terminate(), the critical section shared by Reload and Stop.            *)

\* p.cmd becomes nil before the signal.  Signal fails on a child some Wait
\* has reaped, and then terminate returns; otherwise it waits in a goroutine.
TerminateBegins ==
  /\ cmd' = NoCmd
  /\ old' = cmd
  /\ \/ cmd = NoCmd                          /\ phase' = "ended"
     \/ cmd # NoCmd /\ proc[cmd] \in Ended    /\ phase' = "ended"
     \/ cmd # NoCmd /\ ~taken[cmd]            /\ phase' = "waiting"
  /\ UNCHANGED <<n, proc, ctxOf>>

\* The child obeys its SIGTERM.
ChildTerminates ==
  /\ phase = "waiting"
  /\ proc[old] = "alive"
  /\ proc' = [proc EXCEPT ![old] = "terminated"]
  /\ UNCHANGED <<mainVars, n, cmd, ctxOf, taken, watchVars, termVars,
                 reloadVars, gaveUp, counters>>

\* Mutant: stopTimeout only logs, the child that ignores its SIGTERM lives on.
TerminateGivesUp ==
  /\ phase = "waiting"
  /\ phase' = "killing"
  /\ UNCHANGED <<mainVars, childVars, taken, watchVars, mu, old, reloadVars,
                 gaveUp, counters>>

\* stopTimeout expires before <-done: the child is killed.
TerminateKills ==
  /\ phase = "waiting"
  /\ phase' = "killing"
  /\ proc' = [proc EXCEPT ![old] = IF @ = "alive" THEN "terminated" ELSE @]
  /\ UNCHANGED <<mainVars, n, cmd, ctxOf, taken, watchVars, mu, old,
                 reloadVars, gaveUp, counters>>

TerminateWaits ==
  /\ phase \in {"waiting", "killing"}
  /\ Wait(old)
  /\ phase' = "ended"
  /\ UNCHANGED <<mainVars, childVars, watchVars, mu, old, reloadVars, gaveUp,
                 counters>>

-----------------------------------------------------------------------------
(* reloader.Reload, as far as it concerns the process.                     *)

\* The user writes another token: to config.yml.
EditToken(t) ==
  /\ t # fileToken
  /\ edits < MaxEdits
  /\ edits' = edits + 1
  /\ fileToken' = t
  /\ UNCHANGED <<mainVars, childVars, taken, watchVars, termVars, rpc, rctx,
                 lastToken, gaveUp, crashes, launchErrors>>

\* Called by the file watcher with main's context, by the web server with the
\* request's.  A reload that finds lastToken unchanged does nothing here.
ReloadBegins(ctx) ==
  /\ mainPc \notin {"boot", "failed"}
  /\ ctx = Main \/ ctx \notin cancelled
  /\ rpc = "idle"
  /\ fileToken # lastToken
  /\ lastToken' = fileToken
  /\ rpc' = "restart"
  /\ rctx' = ctx
  /\ UNCHANGED <<mainVars, childVars, taken, watchVars, termVars, fileToken,
                 gaveUp, counters>>

ReloadLocks ==
  /\ rpc = "restart"
  /\ mu = "free"
  /\ mu' = "reload"
  /\ TerminateBegins
  /\ UNCHANGED <<mainVars, taken, watchVars, reloadVars, gaveUp, counters>>

ReloadStarts ==
  /\ mu = "reload"
  /\ phase = "ended"
  /\ Launch(rctx, {}) \/ LaunchFails(rctx, {})
  /\ mu' = "free" /\ phase' = "idle" /\ old' = NoCmd
  /\ rpc' = "idle"
  /\ UNCHANGED <<mainVars, taken, wcmd, rctx, fileToken, lastToken, gaveUp,
                 crashes, edits>>

\* net/http cancels a request's context when its handler has returned or its
\* client has gone.
RequestEnds(r) ==
  /\ r \notin cancelled
  /\ cancelled' = cancelled \union {r}
  /\ UNCHANGED <<mainPc, childVars, taken, watchVars, termVars, reloadVars,
                 gaveUp, counters>>

-----------------------------------------------------------------------------
(* main().                                                                 *)

MainStarts ==
  /\ mainPc = "boot"
  /\ \/ Launch(Main, {}) /\ mainPc' = "running"
     \/ LaunchFails(Main, {}) /\ mainPc' = "failed"
  /\ UNCHANGED <<cancelled, taken, wcmd, termVars, reloadVars, gaveUp,
                 crashes, edits>>

\* Mutant: main goes on to Stop without calling cancel().
MainForgetsCancel ==
  /\ mainPc = "running"
  /\ mainPc' = "cancelled"
  /\ UNCHANGED <<cancelled, childVars, taken, watchVars, termVars, reloadVars,
                 counters>>

\* cancel(), after a signal or after crashCh.
MainCancels ==
  /\ mainPc = "running"
  /\ mainPc' = "cancelled"
  /\ cancelled' = cancelled \union {Main}
  /\ UNCHANGED <<childVars, taken, watchVars, termVars, reloadVars, counters>>

SignalArrives == MainCancels /\ UNCHANGED gaveUp

CrashChReceived == gaveUp /\ MainCancels /\ gaveUp' = FALSE

StopLocks ==
  /\ mainPc = "cancelled"
  /\ mu = "free"
  /\ mainPc' = "stopping"
  /\ mu' = "stop"
  /\ TerminateBegins
  /\ UNCHANGED <<cancelled, taken, watchVars, reloadVars, gaveUp, counters>>

StopReturns ==
  /\ mu = "stop"
  /\ phase = "ended"
  /\ mainPc' = "stopped"
  /\ mu' = "free" /\ phase' = "idle" /\ old' = NoCmd
  /\ UNCHANGED <<cancelled, childVars, taken, watchVars, reloadVars, gaveUp,
                 counters>>

\* The program may really stop.
Stopped == mainPc \in {"stopped", "failed"} /\ UNCHANGED vars

-----------------------------------------------------------------------------
Next ==
  \/ MainStarts \/ SignalArrives \/ CrashChReceived \/ StopLocks \/ StopReturns
  \/ Stopped
  \/ \E c \in Starts : ChildCrashes(c) \/ ContextKills(c)
  \/ \E i \in Starts : \/ WatchReads(i) \/ WatchWaits(i)
                       \/ WatchChecksContext(i) \/ WatchCompares(i)
                       \/ WatchAbandons(i) \/ WatchRestarts(i)
  \/ ChildTerminates \/ TerminateKills \/ TerminateWaits
  \/ \E t \in Tokens : EditToken(t)
  \/ \E ctx \in Contexts : ReloadBegins(ctx)
  \/ ReloadLocks \/ ReloadStarts
  \/ \E r \in Requests : RequestEnds(r)

Spec == Init /\ [][Next]_vars

\* The steps that one goroutine takes in turn, and that nobody else takes for
\* it.  Only the Wait that receives the result is certain to return.
MainProceeds   == MainStarts \/ CrashChReceived \/ StopLocks \/ StopReturns
ReloadProceeds == ReloadLocks \/ ReloadStarts
TerminateProceeds ==
  TerminateKills \/ (phase # "idle" /\ old # NoCmd /\ ~taken[old] /\ TerminateWaits)
WatchProceeds(i) ==
  \/ wcmd[i] # NoCmd /\ ~taken[wcmd[i]] /\ WatchWaits(i)
  \/ WatchReads(i) \/ WatchChecksContext(i) \/ WatchCompares(i)
  \/ WatchAbandons(i) \/ WatchRestarts(i)

\* Goroutines are scheduled and get p.mu in the end, timers fire, killed
\* processes die, and main proceeds once it left its select.  Crashes, edits,
\* requests and signals need not come, and a child may ignore its SIGTERM.
Fairness ==
  /\ SF_vars(MainProceeds) /\ SF_vars(ReloadProceeds)
  /\ WF_vars(TerminateProceeds)
  /\ WF_vars(\E c \in Starts : ContextKills(c))
  /\ \A i \in Starts : SF_vars(WatchProceeds(i))

FairSpec == Spec /\ Fairness

-----------------------------------------------------------------------------
(* Properties.                                                             *)

\* The child in p.cmd, as long as it lives, has the goroutine of its own
\* launch waiting for it or about to: no order of reloads, crashes and late
\* reads of p.cmd leaves a running connector that nobody would restart.
Supervised ==
  cmd # NoCmd /\ proc[cmd] = "alive" =>
    \/ wpc[cmd] = "spawned"
    \/ wpc[cmd] = "waiting" /\ wcmd[cmd] = cmd

\* A goroutine has the end of child c before it: it will restart c unless its
\* own context is done or start fails.
Attended(c) ==
  \/ wpc[c] = "spawned"
  \/ \E i \in Starts :
       /\ wcmd[i] = c
       /\ \/ wpc[i] = "waiting" /\ ~taken[c]
          \/ wpc[i] \in {"returned", "checking", "backoff"}

\* The context that was to keep the connector up is done: of the Reload that
\* took p.cmd away, or of a goroutine that watches p.cmd and takes its end
\* for a shutdown.
ContextGone ==
  \/ cmd = NoCmd /\ rctx \in cancelled
  \/ cmd # NoCmd /\ \E i \in Starts : wcmd[i] = cmd /\ ctxOf[i] \in cancelled

\* While main runs, no order of crashes, reloads and late reads of p.cmd leaves
\* DockFlare without a connector and with nobody about to start one.  It takes
\* a refused launch, a signal on crashCh that main has yet to receive, or the
\* end of a request whose context the child or its goroutine was given.
NeverAbandoned ==
  LET excused == launchErrors > 0 \/ n = MaxStarts \/ gaveUp \/ ContextGone
  IN mainPc = "running" /\ ~excused =>
       IF cmd = NoCmd THEN rpc = "restart" ELSE Attended(cmd)

\* terminate waits for a result that a watchCrash goroutine has received.
TakenFromStop == phase \in {"waiting", "killing"} /\ taken[old]

\* A child that Reload or Stop terminated is never taken for a crash:
\* no watchCrash goroutine ever backs off to restart it.
NeverRestartsTerminated ==
  \A i \in Starts : wpc[i] = "backoff" => proc[wcmd[i]] # "terminated"

\* One tunnel has one connector: Start "must not be called while the process
\* is already running" (Process.Start), whoever calls start.
AtMostOneConnector == Cardinality(Alive) <= 1

\* Neither crashes alone nor reloads alone make DockFlare run two connectors: it
\* takes a child that ended by itself and an edit of the token.
OverlapNeedsCrashAndReload ==
  (edits = 0 \/ \A c \in Starts : proc[c] \notin {"crashed", "killed"})
    => AtMostOneConnector

\* Stop is final: once main has stopped the process, no goroutine of main's
\* context puts another child in its place.
StopIsFinal ==
  mainPc = "stopped" => cmd = NoCmd \/ ctxOf[cmd] \in Requests

\* A connector that died is running again some time later, also while a file
\* watcher's or a request's reload is under way.  Four things prevent it: the end
\* of main; a refused launch, which watchCrash does not repeat; a terminate whose
\* result went to the other Wait; and the end of a request whose context the
\* child or its goroutine was given, which watchCrash takes for a shutdown.
CrashRecovery ==
  LET excused == mainPc # "running" \/ launchErrors > 0 \/ TakenFromStop \/ ContextGone
  IN (mainPc = "running" /\ Alive = {}) ~> (Alive # {} \/ excused)

\* When the retries are exhausted the signal on crashCh stops DockFlare, it
\* does not stay up without a connector.
GivingUpEndsMain ==
  (mainPc = "running" /\ cmd # NoCmd /\ proc[cmd] = "crashed")
    ~> (mainPc # "running" \/ cmd = NoCmd \/ proc[cmd] # "crashed")

\* "watchCrash waits for the subprocess to exit and restarts it": also when
\* it was the end of its context that killed it, as long as main runs.
KilledIsReplaced ==
  (mainPc = "running" /\ cmd # NoCmd /\ proc[cmd] = "killed")
    ~> (mainPc # "running" \/ Alive # {})

\* Shutting down ends once cancel() is called, whatever crash, backoff, reload or
\* disobedient child is in its way, with one exception: a terminate, of Stop or
\* of the reload before it, that waits for ever for a result watchCrash took.
StopBlocksOnWaitOnly ==
  (mainPc = "cancelled") ~> (mainPc = "stopped" \/ []TakenFromStop)

\* "Stop sends SIGTERM and waits for the process to exit": it returns.
StopFinishes == (mainPc = "stopping") ~> (mainPc = "stopped")

=============================================================================
