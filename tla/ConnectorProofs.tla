-------------------------- MODULE ConnectorProofs --------------------------
(***************************************************************************)
(* What holds of Connector for every number of contexts, tokens, launches, *)
(* crashes, edits and launch errors.                                       *)
(*                                                                         *)
(* Supervised and NeverRestartsTerminated follow from an inductive         *)
(* invariant with three more parts: which numbers are in use (Births), how *)
(* terminate's critical section relates to p.cmd (Termination), and what a *)
(* watchCrash goroutine past its Wait knows of its child (Watchers).       *)
(* OverlapNeedsCrashAndReload adds one part for each of its cases: without *)
(* edits only the last child lives and only its goroutine acts, and        *)
(* without an exit of a child's own only p.cmd or the child terminate is   *)
(* waiting for can live.                                                   *)
(* SomebodyRestarts follows the end of p.cmd from hand to hand (DutyInv).  *)
(***************************************************************************)
EXTENDS Connector, TLAPS, FiniteSetTheorems

\* The children launched so far are 1..n, each with its goroutine.
Births ==
  \A c \in Starts : /\ (c > n) <=> (proc[c] = "unborn")
                    /\ (c > n) <=> (wpc[c] = "none")

\* A child that is still p.cmd was not asked to stop, and the critical
\* section of terminate has taken p.cmd away.
Termination ==
  /\ cmd # NoCmd => proc[cmd] \in {"alive", "crashed", "killed"}
  /\ (mu = "free") <=> (phase = "idle")
  /\ mu # "free" => cmd = NoCmd
  /\ phase \in {"waiting", "killing"} => old # NoCmd
  /\ mainPc = "boot" => rpc = "idle" /\ mu = "free"

\* A goroutine past its Wait watches a child that has ended.
Watchers ==
  \A i \in Starts :
    /\ wpc[i] \in {"waiting", "returned", "checking", "backoff"}
         => wcmd[i] # NoCmd
    /\ wpc[i] \in {"returned", "checking", "backoff"}
         => proc[wcmd[i]] \in Ended

SupervisionInv ==
  /\ TypeOK
  /\ Births
  /\ Termination
  /\ Watchers
  /\ Supervised
  /\ NeverRestartsTerminated

\* While the token was never edited, one generation of the child at a time.  All earlier
\* goroutines are gone, and the last one has its child ended before it
\* launches another.
OneGeneration ==
  /\ fileToken = FirstToken /\ lastToken = FirstToken
  /\ rpc = "idle" /\ mu # "reload"
  /\ mainPc = "boot" => n = 0
  /\ cmd \in {NoCmd, n}
  /\ \A i \in Starts : i < n => proc[i] # "alive" /\ wpc[i] = "done"
  /\ \A i \in Starts :
       wpc[i] \in {"waiting", "returned", "checking", "backoff"} => wcmd[i] = i

\* What the two outcomes of start do to the types.
LEMMA StartTypes ==
  ASSUME TypeOK, NEW ctx \in Contexts, NEW finished \in SUBSET Starts,
         Launch(ctx, finished) \/ LaunchFails(ctx, finished)
  PROVE  /\ n' \in n..MaxStarts
         /\ cmd' \in 0..n'
         /\ proc' \in [Starts -> ProcState]
         /\ ctxOf' \in [Starts -> Contexts]
         /\ wpc' \in [Starts -> WatchPc]
         /\ launchErrors' \in 0..MaxLaunchErrors
<1> USE ConnectorAssumption DEF TypeOK, Starts, NoCmd, ProcState, Ended,
        WatchPc
<1>1. CASE Launch(ctx, finished)
  <2>1. n' \in n..MaxStarts /\ cmd' \in 0..n'
    BY <1>1 DEF Launch
  <2>2. proc' \in [Starts -> ProcState] /\ ctxOf' \in [Starts -> Contexts]
    BY <1>1 DEF Launch
  <2>3. wpc' \in [Starts -> WatchPc]
    BY <1>1 DEF Launch
  <2> QED
    BY <1>1, <2>1, <2>2, <2>3 DEF Launch
<1>2. CASE LaunchFails(ctx, finished)
  BY <1>2 DEF LaunchFails, childVars
<1> QED
  BY <1>1, <1>2

\* Every step keeps the types.
LEMMA TypeStep ==
  ASSUME TypeOK, [Next]_vars
  PROVE  TypeOK'
<1> USE ConnectorAssumption DEF TypeOK, Contexts, Starts, NoCmd, ProcState, Ended,
         WatchPc, mainVars, childVars, watchVars, termVars, reloadVars,
         counters
<1>1. ASSUME MainStarts PROVE TypeOK'
  <2>1. /\ Launch(Main, {}) \/ LaunchFails(Main, {})
        /\ mainPc' \in {"running", "failed"}
        /\ UNCHANGED <<cancelled, taken, wcmd, termVars, reloadVars, gaveUp,
                       crashes, edits>>
    BY <1>1 DEF MainStarts, termVars
  <2>2. /\ n' \in n..MaxStarts
        /\ cmd' \in 0..n'
        /\ proc' \in [Starts -> ProcState]
        /\ ctxOf' \in [Starts -> Contexts]
        /\ wpc' \in [Starts -> WatchPc]
        /\ launchErrors' \in 0..MaxLaunchErrors
    BY <2>1, StartTypes
  <2> QED
    BY <2>1, <2>2
<1>2. ASSUME SignalArrives PROVE TypeOK'
  BY <1>2 DEF SignalArrives, MainCancels
<1>3. ASSUME CrashChReceived PROVE TypeOK'
  BY <1>3 DEF CrashChReceived, MainCancels
<1>4. ASSUME StopLocks PROVE TypeOK'
  BY <1>4 DEF StopLocks, TerminateBegins
<1>5. ASSUME StopReturns PROVE TypeOK'
  BY <1>5 DEF StopReturns
<1>6. ASSUME Stopped PROVE TypeOK'
  BY <1>6 DEF Stopped, vars
<1>7. ASSUME NEW c \in Starts, ChildCrashes(c) PROVE TypeOK'
  BY <1>7 DEF ChildCrashes
<1>8. ASSUME NEW c \in Starts, ContextKills(c) PROVE TypeOK'
  BY <1>8 DEF ContextKills
<1>9. ASSUME NEW i \in Starts, WatchReads(i) PROVE TypeOK'
  BY <1>9 DEF WatchReads
<1>10. ASSUME NEW i \in Starts, WatchWaits(i) PROVE TypeOK'
  BY <1>10 DEF WatchWaits, Wait
<1>11. ASSUME NEW i \in Starts, WatchChecksContext(i) PROVE TypeOK'
  BY <1>11 DEF WatchChecksContext
<1>12. ASSUME NEW i \in Starts, WatchCompares(i) PROVE TypeOK'
  BY <1>12 DEF WatchCompares
<1>13. ASSUME NEW i \in Starts, WatchAbandons(i) PROVE TypeOK'
  BY <1>13 DEF WatchAbandons
<1>14. ASSUME NEW i \in Starts, WatchRestarts(i) PROVE TypeOK'
  <2>1. /\ Launch(ctxOf[i], {i}) \/ LaunchFails(ctxOf[i], {i})
        /\ ctxOf[i] \in Contexts
        /\ UNCHANGED <<mainVars, taken, wcmd, termVars, reloadVars, gaveUp,
                       crashes, edits>>
    BY <1>14 DEF WatchRestarts
  <2>2. /\ n' \in n..MaxStarts
        /\ cmd' \in 0..n'
        /\ proc' \in [Starts -> ProcState]
        /\ ctxOf' \in [Starts -> Contexts]
        /\ wpc' \in [Starts -> WatchPc]
        /\ launchErrors' \in 0..MaxLaunchErrors
    BY <2>1, StartTypes
  <2> QED
    BY <2>1, <2>2
<1>15. ASSUME ChildTerminates PROVE TypeOK'
  BY <1>15 DEF ChildTerminates
<1>16. ASSUME TerminateKills PROVE TypeOK'
  BY <1>16 DEF TerminateKills
<1>17. ASSUME TerminateWaits PROVE TypeOK'
  BY <1>17 DEF TerminateWaits, Wait
<1>18. ASSUME NEW t \in Tokens, EditToken(t) PROVE TypeOK'
  BY <1>18 DEF EditToken
<1>19. ASSUME NEW ctx \in Contexts, ReloadBegins(ctx) PROVE TypeOK'
  BY <1>19 DEF ReloadBegins
<1>20. ASSUME ReloadLocks PROVE TypeOK'
  BY <1>20 DEF ReloadLocks, TerminateBegins
<1>21. ASSUME ReloadStarts PROVE TypeOK'
  <2>1. /\ Launch(rctx, {}) \/ LaunchFails(rctx, {})
        /\ mu' = "free" /\ phase' = "idle" /\ old' = NoCmd /\ rpc' = "idle"
        /\ UNCHANGED <<mainVars, taken, wcmd, rctx, fileToken, lastToken,
                       gaveUp, crashes, edits>>
    BY <1>21 DEF ReloadStarts
  <2>2. /\ n' \in n..MaxStarts
        /\ cmd' \in 0..n'
        /\ proc' \in [Starts -> ProcState]
        /\ ctxOf' \in [Starts -> Contexts]
        /\ wpc' \in [Starts -> WatchPc]
        /\ launchErrors' \in 0..MaxLaunchErrors
    BY <2>1, StartTypes
  <2> QED
    BY <2>1, <2>2
<1>22. ASSUME NEW r \in Requests, RequestEnds(r) PROVE TypeOK'
  BY <1>22 DEF RequestEnds
<1>23. ASSUME UNCHANGED vars PROVE TypeOK'
  BY <1>23 DEF vars
<1> QED
  BY <1>1, <1>2, <1>3, <1>4, <1>5, <1>6, <1>7, <1>8, <1>9, <1>10, <1>11, <1>12, <1>13, <1>14, <1>15, <1>16, <1>17, <1>18, <1>19, <1>20, <1>21, <1>22, <1>23 DEF Next

LEMMA TypeCorrectInit == Init => TypeOK
<1> SUFFICES ASSUME Init PROVE TypeOK
  OBVIOUS
<1> USE ConnectorAssumption DEF Init, Contexts, NoCmd, NoCtx, ProcState,
        Ended, WatchPc
<1>1. n = 0 /\ 0 \in 0..n /\ n \in 0..MaxStarts
  OBVIOUS
<1>2. /\ proc \in [Starts -> ProcState]
      /\ ctxOf \in [Starts -> Contexts]
      /\ taken \in [Starts -> BOOLEAN]
      /\ wpc \in [Starts -> WatchPc]
      /\ wcmd \in [Starts -> 0..n]
  BY <1>1
<1>3. /\ cmd \in 0..n /\ old \in 0..n /\ rctx \in Contexts
      /\ fileToken \in Tokens /\ lastToken \in Tokens
      /\ cancelled \in SUBSET Contexts
  BY <1>1
<1>4. /\ crashes \in 0..MaxCrashes /\ edits \in 0..MaxEdits
      /\ launchErrors \in 0..MaxLaunchErrors
  OBVIOUS
<1> QED
  BY <1>1, <1>2, <1>3, <1>4 DEF TypeOK

\* The variables of Connector stay within their types.
THEOREM TypeCorrect == Spec => []TypeOK
<1> QED
  BY TypeCorrectInit, TypeStep, PTL DEF Spec

\* A child launched so far is a child, and not the one launched next.
LEMMA LaunchedIsStart ==
  ASSUME n \in 0..MaxStarts
  PROVE  \A c \in 0..n : c # 0 => c \in Starts /\ c # n + 1
<1> QED
  BY ConnectorAssumption DEF Starts

\* Either outcome of start keeps the inductive invariant, when the goroutines
\* that end with it were in their backoff and p.mu is free afterwards.
LEMMA StartSupervision ==
  ASSUME SupervisionInv, TypeOK',
         NEW ctx, NEW finished \in SUBSET Starts,
         \A f \in finished : wpc[f] = "backoff",
         Launch(ctx, finished) \/ LaunchFails(ctx, finished),
         mu' = "free", phase' = "idle", mainPc' = "boot" => rpc' = "idle",
         UNCHANGED wcmd
  PROVE  SupervisionInv'
<1> USE ConnectorAssumption DEF TypeOK, SupervisionInv, Starts, NoCmd
<1>1. CASE Launch(ctx, finished)
  <2>1. /\ n + 1 \in Starts /\ n' = n + 1 /\ cmd' = n + 1
        /\ n + 1 \notin finished
        /\ proc'[n + 1] = "alive" /\ wpc'[n + 1] = "spawned"
    BY <1>1 DEF Launch, Births
  <2>2. \A c \in Starts : c # n + 1 =>
          /\ proc'[c] = proc[c]
          /\ wpc'[c] = IF c \in finished THEN "done" ELSE wpc[c]
    BY <1>1 DEF Launch
  <2>3. Births'
    <3>1. \A c \in Starts : c # n + 1 => (wpc'[c] = "none" <=> wpc[c] = "none")
      BY <2>2
    <3>2. \A c \in Starts : c # n + 1 => ((c > n + 1) <=> (c > n))
      OBVIOUS
    <3>3. \A c \in Starts : c # n + 1 =>
            /\ (c > n') <=> (proc'[c] = "unborn")
            /\ (c > n') <=> (wpc'[c] = "none")
      BY <2>1, <2>2, <3>1, <3>2 DEF Births
    <3>4. ~(n + 1 > n')
      BY <2>1
    <3> QED
      BY <2>1, <3>3, <3>4 DEF Births
  <2>4. Termination'
    BY <2>1 DEF Termination
  <2>5. ASSUME NEW i \in Starts,
               wpc'[i] \in {"waiting", "returned", "checking", "backoff"}
        PROVE  /\ wpc[i] = wpc'[i] /\ wcmd'[i] = wcmd[i]
               /\ wcmd[i] \in Starts /\ proc'[wcmd[i]] = proc[wcmd[i]]
    <3>1. i # n + 1
      BY <2>1, <2>5
    <3>2. wpc[i] = wpc'[i] /\ wcmd'[i] = wcmd[i]
      BY <2>1, <2>2, <2>5, <3>1
    <3>3. wcmd[i] \in 0..n /\ wcmd[i] # NoCmd
      BY <2>5, <3>2 DEF Watchers
    <3>4. wcmd[i] \in Starts /\ wcmd[i] # n + 1
      <4>1. \A c \in 0..n : c # NoCmd => c \in Starts /\ c # n + 1
        BY LaunchedIsStart
      <4> HIDE DEF TypeOK, SupervisionInv, Starts
      <4> QED
        BY <3>3, <4>1
    <3> QED
      BY <2>2, <3>2, <3>4
  <2>6. Watchers'
    BY <2>5 DEF Watchers
  <2>7. Supervised'
    BY <2>1 DEF Supervised
  <2>8. NeverRestartsTerminated'
    BY <2>5 DEF NeverRestartsTerminated
  <2> QED
    BY <2>3, <2>4, <2>6, <2>7, <2>8
<1>2. CASE LaunchFails(ctx, finished)
  <2>1. /\ UNCHANGED childVars
        /\ \A i \in Starts :
             wpc'[i] = IF i \in finished THEN "done" ELSE wpc[i]
    BY <1>2 DEF LaunchFails
  <2>2. Births' /\ Termination' /\ Watchers' /\ NeverRestartsTerminated'
    BY <2>1 DEF childVars, Births, Termination, Watchers,
       NeverRestartsTerminated
  <2>3. Supervised'
    BY <2>1 DEF childVars, Supervised
  <2> QED
    BY <2>1, <2>2, <2>3
<1> QED
  BY <1>1, <1>2

\* Every step keeps the inductive invariant.
LEMMA SupervisionStep ==
  ASSUME SupervisionInv, [Next]_vars
  PROVE  SupervisionInv'
<1> TypeOK'
  BY TypeStep DEF SupervisionInv
<1>1. ASSUME MainStarts PROVE SupervisionInv'
  <2>1. /\ Launch(Main, {}) \/ LaunchFails(Main, {})
        /\ mainPc = "boot" /\ mainPc' # "boot"
        /\ UNCHANGED <<wcmd, mu, phase>>
    BY <1>1 DEF MainStarts, termVars
  <2>2. mu = "free" /\ phase = "idle"
    BY <2>1 DEF SupervisionInv, Termination, TypeOK
  <2> QED
    BY <2>1, <2>2, StartSupervision
<1>14. ASSUME NEW i \in Starts, WatchRestarts(i) PROVE SupervisionInv'
  <2>1. /\ Launch(ctxOf[i], {i}) \/ LaunchFails(ctxOf[i], {i})
        /\ UNCHANGED <<wcmd, mu, phase, mainPc, rpc>>
        /\ mu = "free" /\ wpc[i] = "backoff"
    BY <1>14 DEF WatchRestarts, mainVars, termVars, reloadVars
  <2>2. phase = "idle" /\ (mainPc = "boot" => rpc = "idle")
    BY <2>1 DEF SupervisionInv, Termination
  <2> QED
    BY <2>1, <2>2, StartSupervision
<1>21. ASSUME ReloadStarts PROVE SupervisionInv'
  <2>1. /\ Launch(rctx, {}) \/ LaunchFails(rctx, {})
        /\ mu' = "free" /\ phase' = "idle" /\ UNCHANGED wcmd
        /\ rpc' = "idle"
    BY <1>21 DEF ReloadStarts
  <2> QED
    BY <2>1, StartSupervision
<1> USE ConnectorAssumption DEF TypeOK, SupervisionInv, Births, Termination, Watchers,
         Supervised, NeverRestartsTerminated, Starts, NoCmd, Ended, mainVars,
         childVars, watchVars, termVars, reloadVars, counters
<1>2. ASSUME SignalArrives PROVE SupervisionInv'
  BY <1>2 DEF SignalArrives, MainCancels
<1>3. ASSUME CrashChReceived PROVE SupervisionInv'
  BY <1>3 DEF CrashChReceived, MainCancels
<1>4. ASSUME StopLocks PROVE SupervisionInv'
  BY <1>4 DEF StopLocks, TerminateBegins
<1>5. ASSUME StopReturns PROVE SupervisionInv'
  BY <1>5 DEF StopReturns
<1>6. ASSUME Stopped PROVE SupervisionInv'
  BY <1>6 DEF Stopped, vars
<1>7. ASSUME NEW c \in Starts, ChildCrashes(c) PROVE SupervisionInv'
  BY <1>7 DEF ChildCrashes
<1>8. ASSUME NEW c \in Starts, ContextKills(c) PROVE SupervisionInv'
  BY <1>8 DEF ContextKills
<1>9. ASSUME NEW i \in Starts, WatchReads(i) PROVE SupervisionInv'
  BY <1>9 DEF WatchReads
<1>10. ASSUME NEW i \in Starts, WatchWaits(i) PROVE SupervisionInv'
  BY <1>10 DEF WatchWaits, Wait
<1>11. ASSUME NEW i \in Starts, WatchChecksContext(i) PROVE SupervisionInv'
  BY <1>11 DEF WatchChecksContext
<1>12. ASSUME NEW i \in Starts, WatchCompares(i) PROVE SupervisionInv'
  <2>1. /\ UNCHANGED <<n, cmd, proc, wcmd, mu, phase, old, mainPc, rpc>>
        /\ wpc[i] = "checking"
        /\ \/ wpc' = [wpc EXCEPT ![i] = "done"]
           \/ wpc' = [wpc EXCEPT ![i] = "backoff"] /\ cmd = wcmd[i]
    BY <1>12 DEF WatchCompares
  <2>2. CASE wpc' = [wpc EXCEPT ![i] = "done"]
    <3>1. Births' /\ Termination' /\ Watchers'
      BY <2>1, <2>2
    <3>2. Supervised' /\ NeverRestartsTerminated'
      BY <2>1, <2>2
    <3> QED
      BY <3>1, <3>2
  <2>3. CASE wpc' = [wpc EXCEPT ![i] = "backoff"] /\ cmd = wcmd[i]
    <3>1. Births' /\ Termination' /\ Watchers' /\ Supervised'
      BY <2>1, <2>3
    <3>2. proc[wcmd[i]] # "terminated"
      BY <2>1, <2>3
    <3>3. NeverRestartsTerminated'
      BY <2>1, <2>3, <3>2
    <3> QED
      BY <3>1, <3>3
  <2> QED
    BY <2>1, <2>2, <2>3
<1>13. ASSUME NEW i \in Starts, WatchAbandons(i) PROVE SupervisionInv'
  BY <1>13 DEF WatchAbandons
<1>15. ASSUME ChildTerminates PROVE SupervisionInv'
  <2>1. /\ old \in Starts /\ old <= n /\ cmd = NoCmd
        /\ proc[old] = "alive" /\ proc'[old] = "terminated"
        /\ \A c \in Starts : c # old => proc'[c] = proc[c]
        /\ UNCHANGED <<n, cmd, wpc, wcmd, mu, phase, old, mainPc, rpc>>
    BY <1>15 DEF ChildTerminates
  <2>2. Births' /\ Termination' /\ Supervised'
    BY <2>1
  <2>3. \A i \in Starts : wpc[i] \in {"returned", "checking", "backoff"} =>
          wcmd[i] \in Starts /\ proc'[wcmd[i]] = proc[wcmd[i]]
    <3> SUFFICES ASSUME NEW i \in Starts,
                        wpc[i] \in {"returned", "checking", "backoff"}
                 PROVE  wcmd[i] \in Starts /\ proc'[wcmd[i]] = proc[wcmd[i]]
      OBVIOUS
    <3>1. wcmd[i] \in 0..n /\ n \in 0..MaxStarts /\ wcmd[i] # 0
      OBVIOUS
    <3>2. proc[wcmd[i]] # "alive"
      OBVIOUS
    <3> QED
      BY <2>1, <3>1, <3>2
  <2>4. Watchers'
    BY <2>1, <2>3
  <2>5. NeverRestartsTerminated'
    BY <2>1, <2>3
  <2> QED
    BY <2>2, <2>4, <2>5
<1>16. ASSUME TerminateKills PROVE SupervisionInv'
  BY <1>16 DEF TerminateKills
<1>17. ASSUME TerminateWaits PROVE SupervisionInv'
  BY <1>17 DEF TerminateWaits, Wait
<1>18. ASSUME NEW t \in Tokens, EditToken(t) PROVE SupervisionInv'
  BY <1>18 DEF EditToken
<1>19. ASSUME NEW ctx \in Contexts, ReloadBegins(ctx) PROVE SupervisionInv'
  BY <1>19 DEF ReloadBegins
<1>20. ASSUME ReloadLocks PROVE SupervisionInv'
  BY <1>20 DEF ReloadLocks, TerminateBegins
<1>22. ASSUME NEW r \in Requests, RequestEnds(r) PROVE SupervisionInv'
  BY <1>22 DEF RequestEnds
<1>23. ASSUME UNCHANGED vars PROVE SupervisionInv'
  BY <1>23 DEF vars
<1> QED
  BY <1>1, <1>2, <1>3, <1>4, <1>5, <1>6, <1>7, <1>8, <1>9, <1>10, <1>11, <1>12, <1>13, <1>14, <1>15, <1>16, <1>17, <1>18, <1>19, <1>20, <1>21, <1>22, <1>23 DEF Next

LEMMA SupervisionInit == Init => SupervisionInv
<1> SUFFICES ASSUME Init PROVE SupervisionInv
  OBVIOUS
<1>1. TypeOK
  BY TypeCorrectInit
<1>2. Births
  BY ConnectorAssumption DEF Init, Births, Starts
<1>3. Termination /\ Watchers /\ Supervised /\ NeverRestartsTerminated
  BY DEF Init, Termination, Watchers, Supervised, NeverRestartsTerminated
<1> QED
  BY <1>1, <1>2, <1>3 DEF SupervisionInv

\* The inductive invariant holds throughout.
LEMMA SupervisionHolds == Spec => []SupervisionInv
  BY SupervisionInit, SupervisionStep, PTL DEF Spec

\* A running connector has a goroutine that waits for it.
THEOREM Supervision == Spec => []Supervised
<1>1. SupervisionInv => Supervised
  BY DEF SupervisionInv
<1> QED
  BY <1>1, SupervisionHolds, PTL

\* Neither Reload nor Stop is ever answered by a crash restart.
THEOREM NoRestartAfterTerminate == Spec => []NeverRestartsTerminated
<1>1. SupervisionInv => NeverRestartsTerminated
  BY DEF SupervisionInv
<1> QED
  BY <1>1, SupervisionHolds, PTL

-----------------------------------------------------------------------------
(* Two connectors run only after both a crash and an edit of the token.    *)

\* No child has ended without being asked to.
NoExit == \A c \in Starts : proc[c] \notin {"crashed", "killed"}

\* Then a child that lives is p.cmd or the one terminate is waiting for.
OneReplaced ==
  /\ mainPc = "boot" => n = 0
  /\ NoExit => \A c \in Starts :
       proc[c] = "alive" => \/ c = cmd
                            \/ phase \in {"waiting", "killing"} /\ c = old

OverlapInv ==
  /\ SupervisionInv
  /\ edits = 0 => OneGeneration
  /\ OneReplaced

\* Every step keeps the single generation.
LEMMA OneStep ==
  ASSUME SupervisionInv, edits = 0 => OneGeneration, [Next]_vars, edits' = 0
  PROVE  OneGeneration'
<1>0. edits = 0
  <2>1. CASE \E t \in Tokens : EditToken(t)
    BY <2>1 DEF EditToken, SupervisionInv, TypeOK
  <2>2. CASE ~(\E t \in Tokens : EditToken(t))
    <3>1. UNCHANGED edits
      BY <2>2 DEF Next, vars, counters, MainStarts, Launch, LaunchFails,
         SignalArrives, CrashChReceived, MainCancels, StopLocks, StopReturns,
         Stopped, ChildCrashes, ContextKills, WatchReads, WatchWaits,
         WatchChecksContext, WatchCompares, WatchAbandons, WatchRestarts,
         ChildTerminates, TerminateKills, TerminateWaits, ReloadBegins,
         ReloadLocks, ReloadStarts, RequestEnds
    <3> QED
      BY <3>1
  <2> QED
    BY <2>1, <2>2
<1> OneGeneration
  BY <1>0
<1> USE ConnectorAssumption DEF TypeOK, SupervisionInv, Births, Termination, Watchers,
         Supervised, NeverRestartsTerminated, OneGeneration, Starts, NoCmd,
         Ended, mainVars, childVars, watchVars, termVars, reloadVars, counters
<1>1. ASSUME MainStarts PROVE OneGeneration'
  BY <1>1 DEF MainStarts, Launch, LaunchFails
<1>2. ASSUME SignalArrives PROVE OneGeneration'
  BY <1>2 DEF SignalArrives, MainCancels
<1>3. ASSUME CrashChReceived PROVE OneGeneration'
  BY <1>3 DEF CrashChReceived, MainCancels
<1>4. ASSUME StopLocks PROVE OneGeneration'
  BY <1>4 DEF StopLocks, TerminateBegins
<1>5. ASSUME StopReturns PROVE OneGeneration'
  BY <1>5 DEF StopReturns
<1>6. ASSUME Stopped PROVE OneGeneration'
  BY <1>6 DEF Stopped, vars
<1>7. ASSUME NEW c \in Starts, ChildCrashes(c) PROVE OneGeneration'
  BY <1>7 DEF ChildCrashes
<1>8. ASSUME NEW c \in Starts, ContextKills(c) PROVE OneGeneration'
  BY <1>8 DEF ContextKills
<1>9. ASSUME NEW i \in Starts, WatchReads(i) PROVE OneGeneration'
  BY <1>9 DEF WatchReads
<1>10. ASSUME NEW i \in Starts, WatchWaits(i) PROVE OneGeneration'
  BY <1>10 DEF WatchWaits, Wait
<1>11. ASSUME NEW i \in Starts, WatchChecksContext(i) PROVE OneGeneration'
  BY <1>11 DEF WatchChecksContext
<1>12. ASSUME NEW i \in Starts, WatchCompares(i) PROVE OneGeneration'
  BY <1>12 DEF WatchCompares
<1>13. ASSUME NEW i \in Starts, WatchAbandons(i) PROVE OneGeneration'
  BY <1>13 DEF WatchAbandons
<1>14. ASSUME NEW i \in Starts, WatchRestarts(i) PROVE OneGeneration'
  <2>1. /\ wpc[i] = "backoff"
        /\ UNCHANGED <<wcmd, mu, mainPc, rpc, fileToken, lastToken>>
        /\ Launch(ctxOf[i], {i}) \/ LaunchFails(ctxOf[i], {i})
    BY <1>14 DEF WatchRestarts
  <2>2. i = n /\ wcmd[i] = n /\ proc[n] # "alive"
    <3>1. ~(i < n)
      BY <2>1
    <3>2. ~(i > n)
      BY <2>1
    <3>3. i = n
      BY <3>1, <3>2
    <3>4. wcmd[i] = i /\ proc[wcmd[i]] \in Ended
      BY <2>1
    <3> QED
      BY <3>3, <3>4
  <2>3. CASE LaunchFails(ctxOf[i], {i})
    <3>1. /\ UNCHANGED <<n, cmd, proc>>
          /\ \A j \in Starts : wpc'[j] = IF j = i THEN "done" ELSE wpc[j]
      BY <2>3 DEF LaunchFails
    <3> QED
      BY <2>1, <3>1
  <2>4. CASE Launch(ctxOf[i], {i})
    <3>1. /\ n + 1 \in Starts /\ n' = n + 1 /\ cmd' = n + 1
          /\ \A j \in Starts : proc'[j] = IF j = n + 1 THEN "alive" ELSE proc[j]
          /\ \A j \in Starts : wpc'[j] = IF j = n + 1 THEN "spawned"
                                          ELSE IF j = i THEN "done" ELSE wpc[j]
      BY <2>4 DEF Launch
    <3>2. \A j \in Starts : j < n' => proc'[j] # "alive" /\ wpc'[j] = "done"
      BY <2>2, <3>1
    <3>3. \A j \in Starts :
            wpc'[j] \in {"waiting", "returned", "checking", "backoff"}
              => wcmd'[j] = j
      BY <2>1, <3>1
    <3>4. mainPc' # "boot"
      BY <2>1
    <3> QED
      BY <2>1, <3>1, <3>2, <3>3, <3>4
  <2> QED
    BY <2>1, <2>3, <2>4
<1>15. ASSUME ChildTerminates PROVE OneGeneration'
  BY <1>15 DEF ChildTerminates
<1>16. ASSUME TerminateKills PROVE OneGeneration'
  BY <1>16 DEF TerminateKills
<1>17. ASSUME TerminateWaits PROVE OneGeneration'
  BY <1>17 DEF TerminateWaits, Wait
<1>18. ASSUME NEW t \in Tokens, EditToken(t) PROVE OneGeneration'
  BY <1>18 DEF EditToken
<1>19. ASSUME NEW ctx \in Contexts, ReloadBegins(ctx) PROVE OneGeneration'
  BY <1>19 DEF ReloadBegins
<1>20. ASSUME ReloadLocks PROVE OneGeneration'
  BY <1>20 DEF ReloadLocks, TerminateBegins
<1>21. ASSUME ReloadStarts PROVE OneGeneration'
  BY <1>21 DEF ReloadStarts, Launch, LaunchFails
<1>22. ASSUME NEW r \in Requests, RequestEnds(r) PROVE OneGeneration'
  BY <1>22 DEF RequestEnds
<1>23. ASSUME UNCHANGED vars PROVE OneGeneration'
  BY <1>23 DEF vars
<1> QED
  BY <1>1, <1>2, <1>3, <1>4, <1>5, <1>6, <1>7, <1>8, <1>9, <1>10, <1>11, <1>12, <1>13, <1>14, <1>15, <1>16, <1>17, <1>18, <1>19, <1>20, <1>21, <1>22, <1>23 DEF Next

\* Every step keeps what is known when no child ended by itself.
LEMMA ReplacedStep ==
  ASSUME SupervisionInv, OneReplaced, [Next]_vars
  PROVE  OneReplaced'
<1> USE ConnectorAssumption DEF TypeOK, SupervisionInv, Births, Termination,
         Watchers, NeverRestartsTerminated, OneReplaced, NoExit, Starts, NoCmd,
         Ended, mainVars, childVars, watchVars, termVars, reloadVars, counters
<1>1. ASSUME MainStarts PROVE OneReplaced'
  BY <1>1 DEF MainStarts, Launch, LaunchFails
<1>2. ASSUME SignalArrives PROVE OneReplaced'
  BY <1>2 DEF SignalArrives, MainCancels
<1>3. ASSUME CrashChReceived PROVE OneReplaced'
  BY <1>3 DEF CrashChReceived, MainCancels
<1>4. ASSUME StopLocks PROVE OneReplaced'
  BY <1>4 DEF StopLocks, TerminateBegins
<1>5. ASSUME StopReturns PROVE OneReplaced'
  BY <1>5 DEF StopReturns
<1>6. ASSUME Stopped PROVE OneReplaced'
  BY <1>6 DEF Stopped, vars
<1>7. ASSUME NEW c \in Starts, ChildCrashes(c) PROVE OneReplaced'
  BY <1>7 DEF ChildCrashes
<1>8. ASSUME NEW c \in Starts, ContextKills(c) PROVE OneReplaced'
  BY <1>8 DEF ContextKills
<1>9. ASSUME NEW i \in Starts, WatchReads(i) PROVE OneReplaced'
  BY <1>9 DEF WatchReads
<1>10. ASSUME NEW i \in Starts, WatchWaits(i) PROVE OneReplaced'
  BY <1>10 DEF WatchWaits, Wait
<1>11. ASSUME NEW i \in Starts, WatchChecksContext(i) PROVE OneReplaced'
  BY <1>11 DEF WatchChecksContext
<1>12. ASSUME NEW i \in Starts, WatchCompares(i) PROVE OneReplaced'
  BY <1>12 DEF WatchCompares
<1>13. ASSUME NEW i \in Starts, WatchAbandons(i) PROVE OneReplaced'
  BY <1>13 DEF WatchAbandons
<1>14. ASSUME NEW i \in Starts, WatchRestarts(i) PROVE OneReplaced'
  <2>1. /\ wpc[i] = "backoff"
        /\ UNCHANGED mainPc
        /\ Launch(ctxOf[i], {i}) \/ LaunchFails(ctxOf[i], {i})
    BY <1>14 DEF WatchRestarts
  <2>2. wcmd[i] \in Starts /\ wcmd[i] <= n
    BY <2>1
  <2>3. proc[wcmd[i]] \in {"crashed", "killed"}
    BY <2>1
  <2>4. proc'[wcmd[i]] = proc[wcmd[i]]
    BY <2>1, <2>2 DEF Launch, LaunchFails
  <2>5. ~NoExit'
    BY <2>2, <2>3, <2>4
  <2>6. mainPc' # "boot"
    BY <2>1
  <2> QED
    BY <2>5, <2>6
<1>15. ASSUME ChildTerminates PROVE OneReplaced'
  BY <1>15 DEF ChildTerminates
<1>16. ASSUME TerminateKills PROVE OneReplaced'
  BY <1>16 DEF TerminateKills
<1>17. ASSUME TerminateWaits PROVE OneReplaced'
  BY <1>17 DEF TerminateWaits, Wait
<1>18. ASSUME NEW t \in Tokens, EditToken(t) PROVE OneReplaced'
  BY <1>18 DEF EditToken
<1>19. ASSUME NEW ctx \in Contexts, ReloadBegins(ctx) PROVE OneReplaced'
  BY <1>19 DEF ReloadBegins
<1>20. ASSUME ReloadLocks PROVE OneReplaced'
  BY <1>20 DEF ReloadLocks, TerminateBegins
<1>21. ASSUME ReloadStarts PROVE OneReplaced'
  <2>1. CASE Launch(rctx, {})
    BY <1>21, <2>1 DEF ReloadStarts, Launch
  <2>2. CASE LaunchFails(rctx, {})
    BY <1>21, <2>2 DEF ReloadStarts, LaunchFails
  <2> QED
    BY <1>21, <2>1, <2>2 DEF ReloadStarts
<1>22. ASSUME NEW r \in Requests, RequestEnds(r) PROVE OneReplaced'
  BY <1>22 DEF RequestEnds
<1>23. ASSUME UNCHANGED vars PROVE OneReplaced'
  BY <1>23 DEF vars
<1> QED
  BY <1>1, <1>2, <1>3, <1>4, <1>5, <1>6, <1>7, <1>8, <1>9, <1>10, <1>11, <1>12, <1>13, <1>14, <1>15, <1>16, <1>17, <1>18, <1>19, <1>20, <1>21, <1>22, <1>23 DEF Next

\* DockFlare never runs two connectors for the tunnel as long as nobody changed
\* the token, however often they crash or fail to start; nor as long as no
\* connector has ended by itself, however often the token changes.
THEOREM OneConnector == Spec => []OverlapNeedsCrashAndReload
<1>1. Init => OverlapInv
  <2> SUFFICES ASSUME Init PROVE OverlapInv
    OBVIOUS
  <2>1. OneGeneration
    BY ConnectorAssumption DEF Init, OneGeneration, Starts, NoCmd
  <2>2. OneReplaced
    BY ConnectorAssumption DEF Init, OneReplaced, Starts
  <2> QED
    BY <2>1, <2>2, SupervisionInit DEF OverlapInv
<1>2. OverlapInv /\ [Next]_vars => OverlapInv'
  BY OneStep, ReplacedStep, SupervisionStep DEF OverlapInv
<1>3. OverlapInv => OverlapNeedsCrashAndReload
  <2> SUFFICES ASSUME OverlapInv, edits = 0 \/ NoExit
               PROVE  AtMostOneConnector
    BY DEF OverlapNeedsCrashAndReload, NoExit
  <2>1. \E m : Alive \subseteq {m}
    <3>1. CASE edits = 0
      <4>1. Alive \subseteq {n}
        <5> SUFFICES ASSUME NEW c \in Starts, proc[c] = "alive" PROVE c = n
          BY DEF Alive
        <5>1. ~(c > n) /\ ~(c < n)
          BY <3>1 DEF OverlapInv, SupervisionInv, Births, OneGeneration
        <5> QED
          BY <5>1 DEF OverlapInv, SupervisionInv, TypeOK, Starts
      <4> QED
        BY <4>1
    <3>2. CASE NoExit /\ mu = "free"
      <4>1. Alive \subseteq {cmd}
        BY <3>2 DEF Alive, OverlapInv, OneReplaced, SupervisionInv, Termination
      <4> QED
        BY <4>1
    <3>3. CASE NoExit /\ mu # "free"
      <4>1. Alive \subseteq {old}
        BY <3>3 DEF Alive, OverlapInv, OneReplaced, SupervisionInv, Termination,
           NoCmd, Starts
      <4> QED
        BY <4>1
    <3> QED
      BY <3>1, <3>2, <3>3
  <2>2. PICK m : Alive \subseteq {m}
    BY <2>1
  <2>3. IsFiniteSet({m}) /\ Cardinality({m}) = 1
    BY FS_Singleton
  <2>4. Cardinality(Alive) <= Cardinality({m}) /\ Cardinality(Alive) \in Nat
    BY <2>2, <2>3, FS_Subset, FS_CardinalityType
  <2> QED
    BY <2>3, <2>4 DEF AtMostOneConnector
<1> QED
  BY <1>1, <1>2, <1>3, PTL DEF Spec

-----------------------------------------------------------------------------
(* Stop is final.                                                          *)

\* From cancel() on main's context is done, and Stop holds p.mu until it returns.
Finality ==
  /\ mainPc \in {"cancelled", "stopping", "stopped"} => Main \in cancelled
  /\ (mainPc = "stopping") <=> (mu = "stop")
  /\ StopIsFinal

LEMMA FinalityStep == SupervisionInv /\ Finality /\ [Next]_vars => Finality'
<1> SUFFICES ASSUME SupervisionInv, Finality, [Next]_vars PROVE Finality'
  OBVIOUS
<1> USE ConnectorAssumption DEF TypeOK, SupervisionInv, Termination, Finality,
         StopIsFinal, Starts, Contexts, NoCmd, mainVars, childVars, watchVars,
         termVars, reloadVars, counters
<1>1. CASE MainStarts
  BY <1>1 DEF MainStarts
<1>2. CASE SignalArrives \/ CrashChReceived
  BY <1>2 DEF SignalArrives, CrashChReceived, MainCancels
<1>3. CASE StopLocks
  BY <1>3 DEF StopLocks, TerminateBegins
<1>4. CASE StopReturns
  BY <1>4 DEF StopReturns
<1>5. ASSUME UNCHANGED <<mainPc, cancelled, ctxOf>>, cmd' \in {cmd, NoCmd},
             mu' = mu \/ "stop" \notin {mu, mu'}
      PROVE  Finality'
  BY <1>5
<1>6. ASSUME NEW c \in Starts, ChildCrashes(c) \/ ContextKills(c) PROVE Finality'
  BY <1>5, <1>6 DEF ChildCrashes, ContextKills
<1>7. ASSUME NEW i \in Starts,
             \/ WatchReads(i) \/ WatchWaits(i) \/ WatchChecksContext(i)
             \/ WatchCompares(i) \/ WatchAbandons(i)
      PROVE  Finality'
  BY <1>5, <1>7 DEF WatchReads, WatchWaits, WatchChecksContext, WatchCompares,
                    WatchAbandons
<1>8. CASE \/ ChildTerminates \/ TerminateKills \/ TerminateWaits \/ Stopped
           \/ UNCHANGED vars
  BY <1>5, <1>8 DEF ChildTerminates, TerminateKills, TerminateWaits, Stopped, vars
<1>9. ASSUME NEW t \in Tokens, EditToken(t) PROVE Finality'
  BY <1>5, <1>9 DEF EditToken
<1>10. ASSUME NEW ctx \in Contexts, ReloadBegins(ctx) PROVE Finality'
  BY <1>5, <1>10 DEF ReloadBegins
<1>11. CASE ReloadLocks
  BY <1>5, <1>11 DEF ReloadLocks, TerminateBegins
<1>12. ASSUME NEW ctx \in Contexts, NEW finished,
              Launch(ctx, finished) \/ LaunchFails(ctx, finished),
              UNCHANGED <<mainPc, cancelled>>, mu' = mu \/ "stop" \notin {mu, mu'}
       PROVE  Finality'
  <2>1. CASE LaunchFails(ctx, finished)
    BY <1>5, <1>12, <2>1 DEF LaunchFails
  <2>2. CASE Launch(ctx, finished)
    <3>1. cmd' = n + 1 /\ n + 1 \in Starts /\ ctxOf' = [ctxOf EXCEPT ![n + 1] = ctx]
      BY <2>2 DEF Launch
    <3>2. ctxOf'[cmd'] = ctx /\ ctx \notin cancelled
      BY <2>2, <3>1 DEF Launch
    <3>3. mainPc' = "stopped" => ctx \in Requests
      BY <1>12, <3>2
    <3> QED
      BY <1>12, <3>2, <3>3
  <2> QED
    BY <1>12, <2>1, <2>2
<1>13. ASSUME NEW i \in Starts, WatchRestarts(i) PROVE Finality'
  BY <1>12, <1>13 DEF WatchRestarts
<1>14. CASE ReloadStarts
  BY <1>12, <1>14 DEF ReloadStarts
<1>15. ASSUME NEW r \in Requests, RequestEnds(r) PROVE Finality'
  BY <1>15 DEF RequestEnds
<1> QED
  BY <1>1, <1>2, <1>3, <1>4, <1>6, <1>7, <1>8, <1>9, <1>10, <1>11, <1>13, <1>14, <1>15
     DEF Next

\* Once Stop has returned, no goroutine of main's context puts another child in
\* the place of the one it stopped.
THEOREM FinalStop == Spec => []StopIsFinal
<1>1. Init => Finality
  BY DEF Init, Finality, StopIsFinal
<1>2. Spec => []Finality
  BY <1>1, FinalityStep, SupervisionHolds, PTL DEF Spec
<1>3. Finality => StopIsFinal
  BY DEF Finality
<1> QED
  BY <1>2, <1>3, PTL

-----------------------------------------------------------------------------
(* A connector that is gone has somebody who will start another.           *)

\* A goroutine took the end of child c, and acts on it unless its context is done.
Handled(c) ==
  \E i \in Starts :
    /\ wcmd[i] = c
    /\ \/ wpc[i] \in {"returned", "checking", "backoff"}
       \/ ctxOf[i] \in cancelled

NoMoreStarts == launchErrors > 0 \/ n = MaxStarts

\* Each end of p.cmd goes to one goroutine: as long as nobody took it, the one
\* of the child's own launch waits for it or is about to, and whoever took it
\* has it still or reached one of the ends of watchCrash.  While p.cmd is nil a
\* Reload is between terminate and start, or its start failed.
DutyInv ==
  /\ \A c \in Starts : taken[c] => proc[c] \in Ended
  /\ \A i \in Starts : wpc[i] \in {"none", "spawned"} => wcmd[i] = NoCmd
  /\ cmd # NoCmd /\ ~taken[cmd] =>
       \/ wpc[cmd] = "spawned"
       \/ wpc[cmd] = "waiting" /\ wcmd[cmd] = cmd
  /\ mainPc = "running" /\ cmd # NoCmd /\ taken[cmd] =>
       NoMoreStarts \/ gaveUp \/ Handled(cmd)
  /\ mainPc = "running" /\ cmd = NoCmd =>
       NoMoreStarts \/ rpc = "restart" \/ rctx \in cancelled

\* A start that succeeds leaves a child nobody has waited for.
LEMMA LaunchDuty ==
  ASSUME SupervisionInv, DutyInv, NEW ctx, NEW finished \in SUBSET Starts,
         \A f \in finished : wpc[f] = "backoff",
         Launch(ctx, finished), UNCHANGED <<taken, wcmd>>
  PROVE  DutyInv'
<1> USE ConnectorAssumption DEF TypeOK, SupervisionInv, Starts, NoCmd, Ended
<1>1. /\ n + 1 \in Starts /\ cmd' = n + 1 /\ cmd' # NoCmd
      /\ proc[n + 1] = "unborn" /\ wpc[n + 1] = "none"
      /\ n + 1 \notin finished
      /\ proc'[n + 1] = "alive" /\ wpc'[n + 1] = "spawned"
  BY DEF Launch, Births
<1>2. \A c \in Starts : c # n + 1 =>
        /\ proc'[c] = proc[c]
        /\ wpc'[c] = IF c \in finished THEN "done" ELSE wpc[c]
  BY DEF Launch
<1>3. \A c \in Starts : taken'[c] => proc'[c] \in Ended /\ c # n + 1
  BY <1>1, <1>2 DEF DutyInv
<1>4. \A i \in Starts : wpc'[i] \in {"none", "spawned"} => wcmd'[i] = NoCmd
  BY <1>1, <1>2 DEF DutyInv
<1> QED
  BY <1>1, <1>3, <1>4 DEF DutyInv

\* A start that fails does it because it was refused, or because its context is done.
LEMMA RefusedDuty ==
  ASSUME SupervisionInv, DutyInv, NEW ctx, NEW finished \in SUBSET Starts,
         \A f \in finished : wpc[f] = "backoff" /\ ctxOf[f] = ctx,
         LaunchFails(ctx, finished), UNCHANGED <<taken, wcmd, cancelled, gaveUp, mainPc>>,
         NoMoreStarts' \/ cmd # NoCmd \/ mainPc # "running"
           \/ UNCHANGED <<rpc, rctx>> \/ rctx' \in cancelled'
  PROVE  DutyInv'
<1> USE ConnectorAssumption DEF TypeOK, SupervisionInv, Starts, NoCmd
<1>1. /\ UNCHANGED <<n, cmd, proc, ctxOf>>
      /\ \A i \in Starts : wpc'[i] = IF i \in finished THEN "done" ELSE wpc[i]
      /\ NoMoreStarts => NoMoreStarts'
      /\ NoMoreStarts' \/ ctx \in cancelled
  BY DEF LaunchFails, childVars, NoMoreStarts
<1>2. /\ \A c \in Starts : taken'[c] => proc'[c] \in Ended
      /\ \A i \in Starts : wpc'[i] \in {"none", "spawned"} => wcmd'[i] = NoCmd
  BY <1>1 DEF DutyInv
<1>3. cmd' # NoCmd /\ ~taken'[cmd'] =>
        \/ wpc'[cmd'] = "spawned"
        \/ wpc'[cmd'] = "waiting" /\ wcmd'[cmd'] = cmd'
  BY <1>1 DEF DutyInv
<1>4. Handled(cmd) => NoMoreStarts' \/ Handled(cmd)'
  BY <1>1 DEF Handled
<1>5. mainPc' = "running" /\ cmd' # NoCmd /\ taken'[cmd'] =>
        NoMoreStarts' \/ gaveUp' \/ Handled(cmd)'
  BY <1>1, <1>4 DEF DutyInv
<1>6. mainPc' = "running" /\ cmd' = NoCmd =>
        NoMoreStarts' \/ rpc' = "restart" \/ rctx' \in cancelled'
  BY <1>1 DEF DutyInv
<1> QED
  BY <1>2, <1>3, <1>5, <1>6 DEF DutyInv

\* Every step keeps the duties.
LEMMA DutyStep ==
  ASSUME SupervisionInv, DutyInv, [Next]_vars
  PROVE  DutyInv'
<1>1. ASSUME MainStarts PROVE DutyInv'
  <2>1. CASE Launch(Main, {})
    BY <1>1, <2>1, LaunchDuty DEF MainStarts
  <2>2. CASE LaunchFails(Main, {}) /\ mainPc' = "failed"
    BY <1>1, <2>2, ConnectorAssumption DEF MainStarts, LaunchFails, childVars, DutyInv,
       SupervisionInv, TypeOK, Starts, NoCmd
  <2> QED
    BY <1>1, <2>1, <2>2 DEF MainStarts
<1>2. ASSUME NEW i \in Starts, WatchRestarts(i) PROVE DutyInv'
  <2>1. /\ Launch(ctxOf[i], {i}) \/ LaunchFails(ctxOf[i], {i})
        /\ wpc[i] = "backoff"
        /\ UNCHANGED <<taken, wcmd, cancelled, gaveUp, mainPc, rpc, rctx>>
    BY <1>2 DEF WatchRestarts, mainVars, reloadVars
  <2> QED
    BY <2>1, LaunchDuty, RefusedDuty
<1>3. ASSUME ReloadStarts PROVE DutyInv'
  <2>1. /\ Launch(rctx, {}) \/ LaunchFails(rctx, {})
        /\ UNCHANGED <<taken, wcmd, cancelled, gaveUp, mainPc, rctx>>
    BY <1>3 DEF ReloadStarts, mainVars
  <2>2. LaunchFails(rctx, {}) => NoMoreStarts' \/ rctx' \in cancelled'
    BY <2>1, ConnectorAssumption
       DEF LaunchFails, childVars, NoMoreStarts, SupervisionInv, TypeOK
  <2> QED
    BY <2>1, <2>2, LaunchDuty, RefusedDuty
<1> USE ConnectorAssumption DEF TypeOK, SupervisionInv, Births, Termination, Watchers,
         DutyInv, Handled, NoMoreStarts, Starts, NoCmd, Ended, mainVars,
         childVars, watchVars, termVars, reloadVars, counters
<1>4. CASE SignalArrives \/ CrashChReceived
  BY <1>4 DEF SignalArrives, CrashChReceived, MainCancels
<1>5. CASE StopLocks
  BY <1>5 DEF StopLocks, TerminateBegins
<1>6. CASE StopReturns
  BY <1>6 DEF StopReturns
<1>7. CASE Stopped \/ UNCHANGED vars
  <2>1. UNCHANGED vars
    BY <1>7 DEF Stopped
  <2> QED
    BY <2>1 DEF vars
<1>8. ASSUME NEW c \in Starts, ChildCrashes(c) \/ ContextKills(c) PROVE DutyInv'
  <2>1. /\ proc' \in {[proc EXCEPT ![c] = "crashed"], [proc EXCEPT ![c] = "killed"]}
        /\ proc[c] = "alive"
        /\ UNCHANGED <<mainPc, cancelled, n, cmd, ctxOf, taken, wpc, wcmd, rpc, rctx,
                       gaveUp, launchErrors>>
    BY <1>8 DEF ChildCrashes, ContextKills
  <2>2. \A d \in Starts : taken'[d] => proc'[d] \in Ended
    BY <2>1
  <2> QED
    BY <2>1, <2>2
<1>9. ASSUME NEW i \in Starts, WatchReads(i) PROVE DutyInv'
  BY <1>9 DEF WatchReads
<1>10. ASSUME NEW i \in Starts, WatchWaits(i) PROVE DutyInv'
  BY <1>10 DEF WatchWaits, Wait
<1>11. ASSUME NEW i \in Starts, WatchChecksContext(i) PROVE DutyInv'
  BY <1>11 DEF WatchChecksContext
<1>12. ASSUME NEW i \in Starts, WatchCompares(i) PROVE DutyInv'
  <2>1. /\ wpc[i] = "checking"
        /\ \/ wpc' = [wpc EXCEPT ![i] = "backoff"] /\ gaveUp' = gaveUp
           \/ wpc' = [wpc EXCEPT ![i] = "done"] /\ (gaveUp' \/ cmd # wcmd[i])
        /\ gaveUp => gaveUp'
        /\ UNCHANGED <<mainPc, cancelled, childVars, taken, wcmd, rpc, rctx, launchErrors>>
    BY <1>12 DEF WatchCompares
  <2>2. \A j \in Starts : j # i => wpc'[j] = wpc[j]
    BY <2>1
  <2>3. cmd # NoCmd => (Handled(cmd) => gaveUp' \/ Handled(cmd)')
    BY <2>1, <2>2
  <2>4. cmd # NoCmd => (wpc[cmd] \in {"spawned", "waiting"} => cmd # i /\ wpc'[cmd] = wpc[cmd])
    BY <2>1, <2>2
  <2>5. \A j \in Starts : wpc'[j] \in {"none", "spawned"} => wpc'[j] = wpc[j]
    BY <2>1, <2>2
  <2> HIDE DEF Handled
  <2>6. /\ \A j \in Starts : wpc'[j] \in {"none", "spawned"} => wcmd'[j] = NoCmd
        /\ \A c \in Starts : taken'[c] => proc'[c] \in Ended
    BY <2>1, <2>5
  <2>7. cmd' # NoCmd /\ ~taken'[cmd'] =>
          \/ wpc'[cmd'] = "spawned"
          \/ wpc'[cmd'] = "waiting" /\ wcmd'[cmd'] = cmd'
    BY <2>1, <2>4
  <2>8. /\ mainPc' = "running" /\ cmd' # NoCmd /\ taken'[cmd'] =>
             NoMoreStarts' \/ gaveUp' \/ Handled(cmd)'
        /\ mainPc' = "running" /\ cmd' = NoCmd =>
             NoMoreStarts' \/ rpc' = "restart" \/ rctx' \in cancelled'
    BY <2>1, <2>3
  <2> QED
    BY <2>6, <2>7, <2>8
<1>13. ASSUME NEW i \in Starts, WatchAbandons(i) PROVE DutyInv'
  BY <1>13 DEF WatchAbandons
<1>14. CASE ChildTerminates \/ TerminateKills
  BY <1>14 DEF ChildTerminates, TerminateKills
<1>15. CASE TerminateWaits
  BY <1>15 DEF TerminateWaits, Wait
<1>16. ASSUME NEW t \in Tokens, EditToken(t) PROVE DutyInv'
  BY <1>16 DEF EditToken
<1>17. ASSUME NEW ctx \in Contexts, ReloadBegins(ctx) PROVE DutyInv'
  BY <1>17 DEF ReloadBegins
<1>18. CASE ReloadLocks
  BY <1>18 DEF ReloadLocks, TerminateBegins
<1>19. ASSUME NEW r \in Requests, RequestEnds(r) PROVE DutyInv'
  BY <1>19 DEF RequestEnds
<1> QED
  BY <1>1, <1>2, <1>3, <1>4, <1>5, <1>6, <1>7, <1>8, <1>9, <1>10, <1>11, <1>12, <1>13,
     <1>14, <1>15, <1>16, <1>17, <1>18, <1>19 DEF Next

\* As long as main runs, a connector that is gone has a goroutine or a Reload that
\* is about to start another, unless start was refused, the retries are
\* exhausted, or the request is over whose context the restart was given.
THEOREM SomebodyRestarts == Spec => []NeverAbandoned
<1>1. Init => DutyInv
  BY ConnectorAssumption DEF Init, DutyInv, Starts, NoCmd
<1>2. Spec => []DutyInv
  BY <1>1, DutyStep, SupervisionHolds, PTL DEF Spec
<1>3. SupervisionInv /\ DutyInv => NeverAbandoned
  <2> SUFFICES ASSUME SupervisionInv, DutyInv, mainPc = "running", ~NoMoreStarts, ~gaveUp,
                      cmd = NoCmd => rctx \notin cancelled,
                      cmd # NoCmd => \A i \in Starts : wcmd[i] = cmd => ctxOf[i] \notin cancelled
               PROVE  IF cmd = NoCmd THEN rpc = "restart" ELSE Attended(cmd)
    BY DEF NeverAbandoned, NoMoreStarts, ContextGone
  <2>1. CASE cmd = NoCmd
    BY <2>1 DEF DutyInv
  <2>2. CASE cmd # NoCmd /\ taken[cmd]
    BY <2>2 DEF DutyInv, Handled, Attended
  <2>3. CASE cmd # NoCmd /\ ~taken[cmd]
    <3>1. cmd \in Starts
      BY <2>3, ConnectorAssumption DEF SupervisionInv, TypeOK, Starts, NoCmd
    <3> QED
      BY <2>3, <3>1 DEF DutyInv, Attended
  <2> QED
    BY <2>1, <2>2, <2>3
<1> QED
  BY <1>2, <1>3, SupervisionHolds, PTL

=============================================================================
