----------------------------- MODULE HotReload -----------------------------
(***************************************************************************)
(* The ways to config.yml and from it: a person who edits the file, the    *)
(* PUT and reload handlers of the web UI (web.Server), config.Save, the    *)
(* file watcher with its debounce timer, and reloader.Reload, which the    *)
(* watcher and the handlers share and r.mu serialises.                     *)
(***************************************************************************)
EXTENDS ConfigFile, Integers, FiniteSets

CONSTANTS
  Requests,          \* HTTP requests to the web UI
  Watcher,           \* the caller of Reload that is no request
  Nobody,            \* no caller, no editor
  FirstDoc,          \* config.yml when DockFlare starts
  HandDocs,          \* documents a person may save
  EditsDuringStart,  \* a person may save before the watcher is installed
  EditsInPlace,      \* an editor may truncate the file and write it again
  ReloadsFail,       \* Docker, the Cloudflare API or the request may fail a reload
  MaxEdits           \* bound: files saved by hand

ASSUME HotReloadAssumption ==
  /\ Watcher \notin Requests /\ Nobody \notin Requests \union {Watcher}
  /\ FirstDoc \in Documents
  /\ HandDocs \subseteq Documents \union {Broken}
  /\ EditsDuringStart \in BOOLEAN
  /\ EditsInPlace \in BOOLEAN /\ ReloadsFail \in BOOLEAN
  /\ MaxEdits \in Nat

Callers == Requests \union {Watcher}

VARIABLES
  file,       \* the content of config.yml
  version,    \* number of writes to it so far
  editor,     \* the document an editor is writing in place, or Nobody
  sameInode,  \* path still names the file that editor has open
  edits,      \* counter of the bound
  mainPc,     \* starting, serving (web UI up), watching, failed
  events,     \* an event for config.yml waits in fw.Events
  timer,      \* the debounce timer runs
  tick,       \* its channel holds a tick
  pc,         \* where each caller of Reload is
  save,       \* per request: [payload, ui, token, confirm] to be saved
  savedAt,    \* per request: the version its reload has to reach
  lookedAt,   \* history: the version the save of a request is based on, or 0
  answer,     \* per request: what it was told
  mu,         \* r.mu: its holder, or Nobody
  loaded,     \* per caller: the version it is applying
  applied     \* the version the last successful reload applied

fileVars    == <<file, version, editor, sameInode, edits>>
watchVars   == <<events, timer, tick>>
requestVars == <<save, savedAt, lookedAt, answer>>
reloadVars  == <<mu, loaded, applied>>
vars == <<fileVars, mainPc, watchVars, pc, requestVars, reloadVars>>

NoSave == [payload |-> NoRoutes, ui |-> UIOff, token |-> NoToken, confirm |-> FALSE]

TypeOK ==
  /\ file \in Documents \union {Broken}
  /\ version \in Nat /\ edits \in 0..MaxEdits
  /\ editor \in Documents \union {Broken, Nobody}
  /\ sameInode \in BOOLEAN
  /\ mainPc \in {"starting", "serving", "watching", "failed"}
  /\ events \in BOOLEAN /\ timer \in BOOLEAN /\ tick \in BOOLEAN
  /\ pc \in [Callers -> {"none", "checked", "save", "rename", "reload",
                         "apply", "done"}]
  /\ save \in [Requests -> [payload : Payloads, ui : UIs,
                            token : {Token, NoToken}, confirm : BOOLEAN]]
  /\ savedAt \in [Requests -> Nat]
  /\ lookedAt \in [Requests -> Nat]
  /\ answer \in [Requests -> {"none", "refused", "error", "saved", "live"}]
  /\ mu \in Callers \union {Nobody}
  /\ \A c \in Callers : (pc[c] = "apply") <=> (mu = c)
  /\ loaded \in [Callers -> Nat]
  /\ applied \in Nat

\* main() has loaded and validated the file.
Init ==
  /\ file = FirstDoc /\ Loadable(FirstDoc)
  /\ version = 1 /\ editor = Nobody /\ sameInode = TRUE /\ edits = 0
  /\ mainPc = "starting"
  /\ events = FALSE /\ timer = FALSE /\ tick = FALSE
  /\ pc = [c \in Callers |-> "none"]
  /\ save = [r \in Requests |-> NoSave]
  /\ savedAt = [r \in Requests |-> 0]
  /\ lookedAt = [r \in Requests |-> 0]
  /\ answer = [r \in Requests |-> "none"]
  /\ mu = Nobody
  /\ loaded = [c \in Callers |-> 0]
  /\ applied = 0

-----------------------------------------------------------------------------
(* The file.                                                               *)

\* fsnotify queues a Write or Create event once watcher.New has succeeded.
Writes(doc) ==
  /\ file' = doc
  /\ version' = version + 1
  /\ events' = (events \/ mainPc = "watching")
  /\ UNCHANGED <<timer, tick>>

MayEdit ==
  /\ edits < MaxEdits
  /\ editor = Nobody
  /\ mainPc = "watching" \/ EditsDuringStart

\* The editor writes a new file and renames it.
EditorReplaces(doc) ==
  /\ MayEdit
  /\ edits' = edits + 1
  /\ Writes(doc)
  /\ UNCHANGED <<editor, sameInode, mainPc, pc, requestVars, reloadVars>>

\* The editor truncates the file, or has written a part of it.
EditorTruncates(doc) ==
  /\ MayEdit
  /\ EditsInPlace
  /\ edits' = edits + 1
  /\ editor' = doc /\ sameInode' = TRUE
  /\ Writes(EmptyDoc) \/ Writes(Broken)
  /\ UNCHANGED <<mainPc, pc, requestVars, reloadVars>>

\* What it writes is lost if the path has another file by now.
EditorFinishes ==
  /\ editor # Nobody
  /\ editor' = Nobody
  /\ IF sameInode THEN Writes(editor) ELSE UNCHANGED <<file, version, watchVars>>
  /\ UNCHANGED <<sameInode, edits, mainPc, pc, requestVars, reloadVars>>

-----------------------------------------------------------------------------
(* main(): the first apply, the web UI, the watcher.                       *)

\* apply(initialCfg), with the version loaded at the start.  An error that is
\* no validation error does not stop the start.
MainApplies ==
  /\ mainPc = "starting"
  /\ \/ mainPc' = "serving" /\ applied' = 1
     \/ ReloadsFail /\ mainPc' = "serving" /\ UNCHANGED applied
     \/ ReloadsFail /\ mainPc' = "failed" /\ UNCHANGED applied
  /\ UNCHANGED <<fileVars, watchVars, pc, requestVars, mu, loaded>>

MainWatches ==
  /\ mainPc = "serving"
  /\ mainPc' = "watching"
  /\ UNCHANGED <<fileVars, watchVars, pc, requestVars, reloadVars>>

-----------------------------------------------------------------------------
(* watcher.Start.  In Go 1.22 Reset leaves a tick that was already sent in *)
(* the channel of the timer.                                               *)

Selecting == mainPc = "watching" /\ pc[Watcher] = "none"

WatcherSeesEvent ==
  /\ Selecting
  /\ events /\ events' = FALSE
  /\ timer' = TRUE
  /\ UNCHANGED <<fileVars, mainPc, tick, pc, requestVars, reloadVars>>

TimerExpires ==
  /\ timer /\ timer' = FALSE
  /\ tick' = TRUE
  /\ UNCHANGED <<fileVars, mainPc, events, pc, requestVars, reloadVars>>

WatcherFires ==
  /\ Selecting
  /\ tick /\ tick' = FALSE
  /\ pc' = [pc EXCEPT ![Watcher] = "reload"]
  /\ UNCHANGED <<fileVars, mainPc, events, timer, requestVars, reloadVars>>

-----------------------------------------------------------------------------
(* reloader.Reload.                                                        *)

\* What the caller does with the result of its Reload.
Reloaded(c, result) ==
  /\ pc' = [pc EXCEPT ![c] = IF c = Watcher THEN "none" ELSE "done"]
  /\ answer' = [r \in Requests |-> IF r = c THEN result ELSE answer[r]]
  /\ UNCHANGED <<save, savedAt, lookedAt>>

\* Mutant: Reload does not take r.mu.
ReloadLoadsUnlocked(c) ==
  /\ pc[c] = "reload"
  /\ Loadable(file)
  /\ pc' = [pc EXCEPT ![c] = "apply"]
  /\ mu' = c
  /\ loaded' = [loaded EXCEPT ![c] = version]
  /\ UNCHANGED <<fileVars, mainPc, watchVars, requestVars, applied>>

\* r.mu.Lock and config.Load.
ReloadLoads(c) ==
  /\ pc[c] = "reload"
  /\ mu = Nobody
  /\ Loadable(file)
  /\ pc' = [pc EXCEPT ![c] = "apply"]
  /\ mu' = c
  /\ loaded' = [loaded EXCEPT ![c] = version]
  /\ UNCHANGED <<fileVars, mainPc, watchVars, requestVars, applied>>

ReloadRejects(c) ==
  /\ pc[c] = "reload"
  /\ mu = Nobody
  /\ ~Loadable(file)
  /\ Reloaded(c, "saved")
  /\ UNCHANGED <<fileVars, mainPc, watchVars, reloadVars>>

\* Mutant: the events that came in during the reload are taken for its own.
ReloadAppliesAndDrains(c) ==
  /\ pc[c] = "apply"
  /\ applied' = loaded[c]
  /\ mu' = Nobody
  /\ Reloaded(c, "live")
  /\ events' = FALSE
  /\ UNCHANGED <<fileVars, mainPc, timer, tick, loaded>>

\* apply: network sync, ingress sync.
ReloadApplies(c) ==
  /\ pc[c] = "apply"
  /\ applied' = loaded[c]
  /\ mu' = Nobody
  /\ Reloaded(c, "live")
  /\ UNCHANGED <<fileVars, mainPc, watchVars, loaded>>

ReloadFails(c) ==
  /\ pc[c] = "apply"
  /\ ReloadsFail
  /\ mu' = Nobody
  /\ Reloaded(c, "saved")
  /\ UNCHANGED <<fileVars, mainPc, watchVars, loaded, applied>>

-----------------------------------------------------------------------------
(* The handlers of the web UI, which runs if web_ui was on at the start.   *)

Serving == mainPc \in {"serving", "watching"} /\ FirstDoc.ui # UIOff

Ends(r, result) ==
  /\ pc' = [pc EXCEPT ![r] = "done"]
  /\ answer' = [answer EXCEPT ![r] = result]
  /\ lookedAt' = [lookedAt EXCEPT ![r] = 0]
  /\ UNCHANGED <<save, savedAt>>

\* POST /api/reload
PostReload(r) ==
  /\ Serving
  /\ pc[r] = "none"
  /\ pc' = [pc EXCEPT ![r] = "reload"]
  /\ savedAt' = [savedAt EXCEPT ![r] = version]
  /\ UNCHANGED <<fileVars, mainPc, watchVars, save, lookedAt, answer, reloadVars>>

\* fromPayload: everything but the payload comes from the current file, whose
\* token Load has found or taken from the environment.
FromPayload(payload) == [payload |-> payload, ui |-> file.ui, token |-> Token]

\* Mutant: only the routes are validated, not the web_ui section beside them.
PutChecksPayloadOnly(r, payload, confirm) ==
  /\ Serving
  /\ pc[r] = "none"
  /\ Loadable(file)
  /\ payload \notin BadPayloads
  /\ pc' = [pc EXCEPT ![r] = "checked"]
  /\ save' = [save EXCEPT ![r] = [payload |-> payload, ui |-> file.ui,
                                  token |-> NoToken, confirm |-> confirm]]
  /\ lookedAt' = [lookedAt EXCEPT ![r] = version]
  /\ UNCHANGED <<fileVars, mainPc, watchVars, savedAt, answer, reloadVars>>

\* PUT /api/config, parseAndValidate.
PutChecks(r, payload, confirm) ==
  /\ Serving
  /\ pc[r] = "none"
  /\ Loadable(file)
  /\ Valid(FromPayload(payload))
  /\ pc' = [pc EXCEPT ![r] = "checked"]
  /\ save' = [save EXCEPT ![r] = [payload |-> payload, ui |-> file.ui,
                                  token |-> NoToken, confirm |-> confirm]]
  /\ lookedAt' = [lookedAt EXCEPT ![r] = version]
  /\ UNCHANGED <<fileVars, mainPc, watchVars, savedAt, answer, reloadVars>>

\* The current file does not load; the new one has problems, in itself or with
\* the containers its routes name (Resolve).
PutRefused(r, payload) ==
  /\ Serving
  /\ pc[r] = "none"
  /\ \/ ~Loadable(file) /\ Ends(r, "error")
     \/ /\ Loadable(file)
        /\ \/ ~Valid(FromPayload(payload))
           \/ payload # NoRoutes
        /\ Ends(r, "refused")
  /\ UNCHANGED <<fileVars, mainPc, watchVars, reloadVars>>

WouldDropAll(r) ==
  /\ save[r].payload = NoRoutes
  /\ ~save[r].confirm
  /\ Loadable(file)
  /\ file.payload # NoRoutes

\* "this would remove all %d routes and take every hostname offline"
PutNeedsConfirm(r) ==
  /\ pc[r] = "checked"
  /\ WouldDropAll(r)
  /\ Ends(r, "refused")
  /\ UNCHANGED <<fileVars, mainPc, watchVars, reloadVars>>

\* Mutant: the handler saves without asking whether all routes may go.
PutGoesOnUnasked(r) ==
  /\ pc[r] = "checked"
  /\ pc' = [pc EXCEPT ![r] = "save"]
  /\ UNCHANGED <<fileVars, mainPc, watchVars, requestVars, reloadVars>>

\* There is nothing to lose, or the client has confirmed it.
PutGoesOn(r) ==
  /\ pc[r] = "checked"
  /\ ~WouldDropAll(r)
  /\ pc' = [pc EXCEPT ![r] = "save"]
  /\ UNCHANGED <<fileVars, mainPc, watchVars, requestVars, reloadVars>>

\* Save, tokenOnDisk
SaveReadsToken(r) ==
  /\ pc[r] = "save"
  /\ \/ /\ file = Broken
        /\ Ends(r, "error")
     \/ /\ file # Broken
        /\ pc' = [pc EXCEPT ![r] = "rename"]
        /\ save' = [save EXCEPT ![r].token = file.token]
        /\ UNCHANGED <<savedAt, lookedAt, answer>>
  /\ UNCHANGED <<fileVars, mainPc, watchVars, reloadVars>>

\* Mutant: the watcher's Reload is left to pick the new file up.
SaveRenamesOnly(r) ==
  /\ pc[r] = "rename"
  /\ Writes([payload |-> save[r].payload, ui |-> save[r].ui, token |-> save[r].token])
  /\ sameInode' = FALSE
  /\ pc' = [pc EXCEPT ![r] = "done"]
  /\ savedAt' = [savedAt EXCEPT ![r] = version + 1]
  /\ lookedAt' = [lookedAt EXCEPT ![r] = 0]
  /\ answer' = [answer EXCEPT ![r] = "live"]
  /\ UNCHANGED <<editor, edits, mainPc, save, reloadVars>>

\* Save, writeAtomic: the temporary file takes the place of the old one.
SaveRenames(r) ==
  /\ pc[r] = "rename"
  /\ Writes([payload |-> save[r].payload, ui |-> save[r].ui, token |-> save[r].token])
  /\ sameInode' = FALSE
  /\ pc' = [pc EXCEPT ![r] = "reload"]
  /\ savedAt' = [savedAt EXCEPT ![r] = version + 1]
  /\ lookedAt' = [lookedAt EXCEPT ![r] = 0]
  /\ UNCHANGED <<editor, edits, mainPc, save, answer, reloadVars>>

\* The directory is not writable.
SaveFails(r) ==
  /\ pc[r] = "rename"
  /\ Ends(r, "error")
  /\ UNCHANGED <<fileVars, mainPc, watchVars, reloadVars>>

-----------------------------------------------------------------------------
Idle == mainPc \in {"watching", "failed"} /\ UNCHANGED vars

Next ==
  \/ \E doc \in HandDocs : EditorReplaces(doc) \/ EditorTruncates(doc)
  \/ EditorFinishes
  \/ MainApplies \/ MainWatches
  \/ WatcherSeesEvent \/ TimerExpires \/ WatcherFires
  \/ \E c \in Callers : \/ ReloadLoads(c) \/ ReloadRejects(c)
                        \/ ReloadApplies(c) \/ ReloadFails(c)
  \/ \E r \in Requests :
       \/ PostReload(r)
       \/ \E p \in Payloads : \/ PutRefused(r, p)
                              \/ \E b \in BOOLEAN : PutChecks(r, p, b)
       \/ PutNeedsConfirm(r) \/ PutGoesOn(r)
       \/ SaveReadsToken(r) \/ SaveRenames(r) \/ SaveFails(r)
  \/ Idle

Spec == Init /\ [][Next]_vars

\* The watcher's goroutine is scheduled, select takes every ready case sooner
\* or later, the timer fires, and sync.Mutex hands over to the longest waiter
\* after 1 ms, hence SF.  Nothing is assumed of the end of an apply, of main's or
\* of a reload's: the Docker client has no timeout and main's context no
\* deadline, and terminate may wait for ever (StopFinishes of Connector).
Fairness ==
  /\ WF_vars(WatcherSeesEvent) /\ WF_vars(TimerExpires) /\ WF_vars(WatcherFires)
  /\ \A c \in Callers : SF_vars(ReloadLoads(c) \/ ReloadRejects(c))

FairSpec == Spec /\ Fairness

-----------------------------------------------------------------------------
(* Properties.                                                             *)

\* "An edit on disk and a save in the browser take exactly the same path - and
\* the mutex keeps two of them from interleaving" (reloader): no reload
\* replaces what it applied by something older.
NeverGoesBack == [][applied' >= applied]_vars

\* A request that was told saved and reloaded (or reloaded) finds its own
\* version, or a later one, applied (saveConfig, handleReload).
LiveIsApplied ==
  \A r \in Requests : answer[r] = "live" => applied >= savedAt[r]


\* No event, timer, tick or caller of Reload is under way.
AtRest ==
  /\ ~events /\ ~timer /\ ~tick
  /\ \A c \in Callers : pc[c] \notin {"reload", "apply"}

\* What makes EveryEditApplied true: DockFlare at rest has forgotten nothing.  In
\* every order of events, timer resets, ticks and blocked reloads, the file as
\* it is has been read by a reload since it was written, or is the one main
\* started with, and it is applied unless that reload failed.
NothingForgotten ==
  mainPc = "watching" /\ AtRest /\ Loadable(file) /\ ~EditsDuringStart =>
    /\ version = 1 \/ \E c \in Callers : loaded[c] = version
    /\ applied = version \/ ReloadsFail

\* What DockFlare promises the owner of config.yml, in every order of edits,
\* saves and reloads: see SharedConfig.
Owner == INSTANCE SharedConfig
           WITH confirmed <- {r \in Requests : save[r].confirm}

ConfigSpec == Owner!Spec

\* "Nothing invalid ever reaches the file" (saveConfig): what a save writes can
\* be loaded again although the file may have changed since the check, unless
\* its token came from a file that had none.
SavesAreLoadable ==
  [][\A r \in Requests :
       SaveRenames(r) => Loadable(file') \/ save[r].token = NoToken]_vars

=============================================================================
