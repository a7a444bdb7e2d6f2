-------------------------- MODULE HotReloadProofs --------------------------
(***************************************************************************)
(* What holds of HotReload for every number of requests, every set of      *)
(* documents and every bound on the edits.                                 *)
(*                                                                         *)
(* Two properties follow from the order of three versions: what the last   *)
(* reload applied is no newer than what a reload in progress has loaded,   *)
(* and that is no newer than the file.  Only the caller that holds r.mu    *)
(* has loaded something it will still apply, which is why the order needs  *)
(* the mutex.  That saves are valid needs what the check has established   *)
(* to survive until the rename (Checked).                                  *)
(*                                                                         *)
(* KeepsTheFile, the refinement of SharedConfig, needs in addition what a  *)
(* request still knows of the file when nobody wrote since its look        *)
(* (Looked); RestIsCurrent that every edit is pending somewhere or read    *)
(* (Noticed), and applied once it is read (Fulfilled).                     *)
(***************************************************************************)
EXTENDS HotReload, TLAPS

Ordered ==
  /\ applied <= version
  /\ \A c \in Callers : loaded[c] <= version
  /\ mu # Nobody => applied <= loaded[mu]
  /\ mainPc = "starting" => applied = 0 /\ mu = Nobody
                            /\ \A c \in Callers : pc[c] = "none"
  /\ version >= 1

\* What a request has to see applied.
Promised ==
  /\ \A r \in Requests : savedAt[r] <= version
  /\ \A r \in Requests : pc[r] = "apply" => savedAt[r] <= loaded[r]
  /\ \A r \in Requests : pc[r] # "done" => answer[r] = "none"
  /\ LiveIsApplied

ReloadInv == TypeOK /\ Ordered /\ Promised

LEMMA Initially == Init => ReloadInv
<1> SUFFICES ASSUME Init PROVE ReloadInv
  OBVIOUS
<1> USE HotReloadAssumption, ConfigFileAssumption
<1>1. TypeOK
  <2>1. /\ file \in Documents \union {Broken}
        /\ version \in Nat /\ edits \in 0..MaxEdits
        /\ editor \in Documents \union {Broken, Nobody}
        /\ mainPc \in {"starting", "serving", "watching", "failed"}
    BY DEF Init
  <2>2. sameInode \in BOOLEAN /\ events \in BOOLEAN /\ timer \in BOOLEAN /\ tick \in BOOLEAN
    BY DEF Init
  <2>3. save \in [Requests -> [payload : Payloads, ui : UIs,
                               token : {Token, NoToken}, confirm : BOOLEAN]]
    BY DEF Init, NoSave
  <2>4. /\ pc \in [Callers -> {"none", "checked", "save", "rename", "reload",
                               "apply", "done"}]
        /\ savedAt \in [Requests -> Nat] /\ lookedAt \in [Requests -> Nat]
        /\ answer \in [Requests -> {"none", "refused", "error", "saved", "live"}]
        /\ mu \in Callers \union {Nobody}
        /\ loaded \in [Callers -> Nat]
        /\ applied \in Nat
    BY DEF Init
  <2>5. \A c \in Callers : (pc[c] = "apply") <=> (mu = c)
    BY DEF Init, Callers
  <2> QED
    BY <2>1, <2>2, <2>3, <2>4, <2>5 DEF TypeOK
<1>2. Ordered
  BY DEF Init, Ordered
<1>3. Promised
  BY DEF Init, Promised, LiveIsApplied, Callers
<1> QED
  BY <1>1, <1>2, <1>3 DEF ReloadInv

-----------------------------------------------------------------------------
(* Types, and the mutex.                                                   *)

LEMMA WritesTypes ==
  ASSUME TypeOK, NEW doc \in Documents \union {Broken}, Writes(doc)
  PROVE  /\ file' \in Documents \union {Broken}
         /\ version' \in Nat /\ version' = version + 1
         /\ events' \in BOOLEAN /\ timer' \in BOOLEAN /\ tick' \in BOOLEAN
BY DEF TypeOK, Writes

LEMMA EditorTypes ==
  ASSUME TypeOK,
         \/ \E doc \in HandDocs : EditorReplaces(doc) \/ EditorTruncates(doc)
         \/ EditorFinishes
  PROVE  TypeOK'
<1> USE HotReloadAssumption, ConfigFileAssumption
<1>1. EmptyDoc \in Documents
  BY DEF EmptyDoc, Documents
<1>2. ASSUME NEW doc \in HandDocs, EditorReplaces(doc) PROVE TypeOK'
  <2>1. /\ edits' \in 0..MaxEdits
        /\ UNCHANGED <<editor, sameInode, mainPc, pc, requestVars, reloadVars>>
    BY <1>2 DEF EditorReplaces, MayEdit, TypeOK
  <2>2. Writes(doc)
    BY <1>2 DEF EditorReplaces
  <2> QED
    BY <2>1, <2>2, WritesTypes DEF TypeOK, requestVars, reloadVars
<1>3. ASSUME NEW doc \in HandDocs, EditorTruncates(doc) PROVE TypeOK'
  <2>1. /\ edits' \in 0..MaxEdits /\ editor' = doc /\ sameInode' = TRUE
        /\ UNCHANGED <<mainPc, pc, requestVars, reloadVars>>
    BY <1>3 DEF EditorTruncates, MayEdit, TypeOK
  <2>2. PICK d \in Documents \union {Broken} : Writes(d)
    BY <1>1, <1>3 DEF EditorTruncates
  <2> QED
    BY <2>1, <2>2, WritesTypes DEF TypeOK, requestVars, reloadVars
<1>4. CASE EditorFinishes
  <2>1. /\ editor' = Nobody
        /\ UNCHANGED <<sameInode, edits, mainPc, pc, requestVars, reloadVars>>
    BY <1>4 DEF EditorFinishes
  <2>2. CASE sameInode
    <3>1. Writes(editor) /\ editor \in Documents \union {Broken}
      BY <1>4, <2>2 DEF EditorFinishes, TypeOK
    <3> QED
      BY <2>1, <3>1, WritesTypes DEF TypeOK, requestVars, reloadVars
  <2>3. CASE ~sameInode
    <3>1. UNCHANGED <<file, version, watchVars>>
      BY <1>4, <2>3 DEF EditorFinishes
    <3> QED
      BY <2>1, <3>1 DEF TypeOK, watchVars, requestVars, reloadVars
  <2> QED
    BY <2>2, <2>3
<1> QED
  BY <1>2, <1>3, <1>4

LEMMA ReloadTypes ==
  ASSUME TypeOK, NEW c \in Callers,
         \/ ReloadLoads(c) \/ ReloadRejects(c) \/ ReloadApplies(c) \/ ReloadFails(c)
  PROVE  TypeOK'
<1> USE HotReloadAssumption, ConfigFileAssumption DEF Callers
<1>1. CASE ReloadLoads(c)
  <2>1. /\ UNCHANGED <<fileVars, mainPc, watchVars, requestVars, applied>>
        /\ pc[c] = "reload" /\ mu = Nobody /\ mu' = c
        /\ pc' = [pc EXCEPT ![c] = "apply"]
        /\ loaded' = [loaded EXCEPT ![c] = version]
    BY <1>1 DEF ReloadLoads
  <2> QED
    BY <2>1 DEF TypeOK, fileVars, watchVars, requestVars
<1>2. CASE ReloadRejects(c)
  <2>1. /\ UNCHANGED <<fileVars, mainPc, watchVars, reloadVars, save, savedAt, lookedAt>>
        /\ pc[c] = "reload" /\ mu = Nobody
        /\ pc' = [pc EXCEPT ![c] = IF c = Watcher THEN "none" ELSE "done"]
        /\ answer' = [r \in Requests |-> IF r = c THEN "saved" ELSE answer[r]]
    BY <1>2 DEF ReloadRejects, Reloaded
  <2> QED
    BY <2>1 DEF TypeOK, fileVars, watchVars, reloadVars
<1>3. CASE ReloadApplies(c)
  <2>1. /\ UNCHANGED <<fileVars, mainPc, watchVars, loaded, save, savedAt, lookedAt>>
        /\ pc[c] = "apply" /\ mu' = Nobody /\ applied' = loaded[c]
        /\ pc' = [pc EXCEPT ![c] = IF c = Watcher THEN "none" ELSE "done"]
        /\ answer' = [r \in Requests |-> IF r = c THEN "live" ELSE answer[r]]
    BY <1>3 DEF ReloadApplies, Reloaded
  <2> QED
    BY <2>1 DEF TypeOK, fileVars, watchVars
<1>4. CASE ReloadFails(c)
  <2>1. /\ UNCHANGED <<fileVars, mainPc, watchVars, loaded, applied, save, savedAt,
                     lookedAt>>
        /\ pc[c] = "apply" /\ mu' = Nobody
        /\ pc' = [pc EXCEPT ![c] = IF c = Watcher THEN "none" ELSE "done"]
        /\ answer' = [r \in Requests |-> IF r = c THEN "saved" ELSE answer[r]]
    BY <1>4 DEF ReloadFails, Reloaded
  <2> QED
    BY <2>1 DEF TypeOK, fileVars, watchVars
<1> QED
  BY <1>1, <1>2, <1>3, <1>4

\* A step of a handler that neither loads nor writes.
HandlerOnly(r) ==
  \/ PostReload(r)
  \/ \E p \in Payloads : PutRefused(r, p) \/ \E b \in BOOLEAN : PutChecks(r, p, b)
  \/ PutNeedsConfirm(r) \/ PutGoesOn(r) \/ SaveReadsToken(r) \/ SaveFails(r)

\* The ways in which it changes the state of its request.
LEMMA HandlerEffect ==
  ASSUME TypeOK, NEW r \in Requests, HandlerOnly(r)
  PROVE  /\ UNCHANGED <<fileVars, mainPc, watchVars, reloadVars>>
         /\ pc[r] \notin {"reload", "apply", "done"}
         /\ \E p \in {"checked", "save", "rename", "reload", "done"} :
              pc' = [pc EXCEPT ![r] = p]
         /\ \/ /\ pc[r] = "none" /\ savedAt' = [savedAt EXCEPT ![r] = version]
               /\ pc' = [pc EXCEPT ![r] = "reload"]
               /\ UNCHANGED <<save, answer>>
            \/ /\ pc' = [pc EXCEPT ![r] = "done"]
               /\ \E a \in {"refused", "error"} : answer' = [answer EXCEPT ![r] = a]
               /\ UNCHANGED <<save, savedAt>>
            \/ /\ pc' # [pc EXCEPT ![r] = "done"]
               /\ \E s \in [payload : Payloads, ui : UIs, token : {Token, NoToken},
                            confirm : BOOLEAN] :
                    save' = [save EXCEPT ![r] = s]
               /\ UNCHANGED <<savedAt, answer>>
<1> USE HotReloadAssumption, ConfigFileAssumption
<1>0. r \in Callers /\ pc = [c \in Callers |-> pc[c]]
  BY DEF TypeOK, Callers
<1>1. CASE PostReload(r)
  BY <1>1 DEF PostReload
<1>2. ASSUME NEW p \in Payloads, PutRefused(r, p)
      PROVE  /\ UNCHANGED <<fileVars, mainPc, watchVars, reloadVars, save, savedAt>>
             /\ pc[r] = "none"
             /\ pc' = [pc EXCEPT ![r] = "done"]
             /\ \E a \in {"refused", "error"} : answer' = [answer EXCEPT ![r] = a]
  BY <1>2 DEF PutRefused, Ends
<1>3. ASSUME NEW p \in Payloads, NEW b \in BOOLEAN, PutChecks(r, p, b)
      PROVE  /\ UNCHANGED <<fileVars, mainPc, watchVars, reloadVars, savedAt, answer>>
             /\ pc[r] = "none"
             /\ pc' = [pc EXCEPT ![r] = "checked"]
             /\ \E s \in [payload : Payloads, ui : UIs, token : {Token, NoToken},
                          confirm : BOOLEAN] :
                  save' = [save EXCEPT ![r] = s]
  <2>1. file.ui \in UIs
    BY <1>3 DEF PutChecks, Loadable, TypeOK, Documents
  <2> QED
    BY <1>3, <2>1 DEF PutChecks
<1>4. CASE PutNeedsConfirm(r)
  BY <1>4 DEF PutNeedsConfirm, Ends
<1>5. CASE PutGoesOn(r)
  <2>1. /\ UNCHANGED <<fileVars, mainPc, watchVars, reloadVars, savedAt, answer>>
        /\ pc[r] = "checked"
        /\ pc' = [pc EXCEPT ![r] = "save"]
        /\ save' = save
    BY <1>5 DEF PutGoesOn, requestVars
  <2>2. save' = [save EXCEPT ![r] = save[r]]
        /\ save[r] \in [payload : Payloads, ui : UIs, token : {Token, NoToken},
                        confirm : BOOLEAN]
    BY <2>1 DEF TypeOK
  <2>3. pc' # [pc EXCEPT ![r] = "done"]
    BY <1>0, <2>1
  <2> QED
    BY <2>1, <2>2, <2>3
<1>6. CASE SaveReadsToken(r)
  <2>1. CASE file = Broken
    BY <1>6, <2>1 DEF SaveReadsToken, Ends
  <2>2. CASE file # Broken
    <3>1. file.token \in {Token, NoToken}
      BY <2>2 DEF TypeOK, Documents
    <3>2. /\ UNCHANGED <<fileVars, mainPc, watchVars, reloadVars, savedAt, answer>>
          /\ pc[r] = "save"
          /\ pc' = [pc EXCEPT ![r] = "rename"]
          /\ save' = [save EXCEPT ![r].token = file.token]
      BY <1>6, <2>2 DEF SaveReadsToken
    <3>3. \E s \in [payload : Payloads, ui : UIs, token : {Token, NoToken},
                    confirm : BOOLEAN] : save' = [save EXCEPT ![r] = s]
      <4>1. [save[r] EXCEPT !.token = file.token]
              \in [payload : Payloads, ui : UIs, token : {Token, NoToken},
                   confirm : BOOLEAN]
        BY <3>1 DEF TypeOK
      <4>2. save' = [save EXCEPT ![r] = [save[r] EXCEPT !.token = file.token]]
        BY <3>2
      <4> QED
        BY <4>1, <4>2
    <3>4. pc' # [pc EXCEPT ![r] = "done"]
      BY <1>0, <3>2
    <3> QED
      BY <3>2, <3>3, <3>4
  <2> QED
    BY <2>1, <2>2
<1>7. CASE SaveFails(r)
  BY <1>7 DEF SaveFails, Ends
<1>8. ASSUME pc' = [pc EXCEPT ![r] = "checked"]
      PROVE  pc' # [pc EXCEPT ![r] = "done"]
  BY <1>0, <1>8
<1> QED
  BY <1>1, <1>2, <1>3, <1>4, <1>5, <1>6, <1>7, <1>8 DEF HandlerOnly

\* It takes note of the version of its look, forgets it, or leaves it alone.
LEMMA HandlerLooks ==
  ASSUME TypeOK, NEW r \in Requests, HandlerOnly(r)
  PROVE  \E v \in {lookedAt[r], version, 0} : lookedAt' = [lookedAt EXCEPT ![r] = v]
<1>1. lookedAt = [lookedAt EXCEPT ![r] = lookedAt[r]]
  BY DEF TypeOK
<1>2. CASE PostReload(r) \/ PutGoesOn(r)
  BY <1>1, <1>2 DEF PostReload, PutGoesOn, requestVars
<1>3. ASSUME NEW p \in Payloads, NEW b \in BOOLEAN, PutRefused(r, p) \/ PutChecks(r, p, b)
      PROVE  \E v \in {lookedAt[r], version, 0} : lookedAt' = [lookedAt EXCEPT ![r] = v]
  BY <1>3 DEF PutRefused, PutChecks, Ends
<1>4. CASE PutNeedsConfirm(r) \/ SaveReadsToken(r) \/ SaveFails(r)
  BY <1>1, <1>4 DEF PutNeedsConfirm, SaveReadsToken, SaveFails, Ends
<1> QED
  BY <1>2, <1>3, <1>4 DEF HandlerOnly

LEMMA HandlerTypes ==
  ASSUME TypeOK, NEW r \in Requests, HandlerOnly(r)
  PROVE  TypeOK'
<1> USE HotReloadAssumption, ConfigFileAssumption DEF Callers
<1>1. UNCHANGED <<fileVars, mainPc, watchVars, reloadVars>>
  BY HandlerEffect
<1>2. savedAt' \in [Requests -> Nat]
  BY HandlerEffect DEF TypeOK
<1>3. answer' \in [Requests -> {"none", "refused", "error", "saved", "live"}]
  BY HandlerEffect DEF TypeOK
<1>4. save' \in [Requests -> [payload : Payloads, ui : UIs,
                              token : {Token, NoToken}, confirm : BOOLEAN]]
  BY HandlerEffect DEF TypeOK
<1>5. pc' \in [Callers -> {"none", "checked", "save", "rename", "reload",
                           "apply", "done"}]
  BY HandlerEffect DEF TypeOK
<1>6. \A c \in Callers : (pc'[c] = "apply") <=> (pc[c] = "apply")
  BY HandlerEffect DEF TypeOK
<1>7. lookedAt' \in [Requests -> Nat]
  BY HandlerLooks DEF TypeOK
<1> QED
  BY <1>1, <1>2, <1>3, <1>4, <1>5, <1>6, <1>7
     DEF TypeOK, fileVars, watchVars, reloadVars

LEMMA RenameTypes ==
  ASSUME TypeOK, NEW r \in Requests, SaveRenames(r)
  PROVE  TypeOK'
<1> USE HotReloadAssumption, ConfigFileAssumption DEF Callers
<1> DEFINE doc == [payload |-> save[r].payload, ui |-> save[r].ui,
                   token |-> save[r].token]
<1>1. doc \in Documents
  BY DEF TypeOK, Documents
<1>2. /\ Writes(doc)
      /\ sameInode' = FALSE /\ UNCHANGED <<editor, edits, mainPc, save, answer, reloadVars>>
      /\ pc[r] = "rename" /\ pc' = [pc EXCEPT ![r] = "reload"]
      /\ savedAt' = [savedAt EXCEPT ![r] = version + 1]
      /\ lookedAt' = [lookedAt EXCEPT ![r] = 0]
  BY DEF SaveRenames
<1> HIDE DEF doc
<1> QED
  BY <1>1, <1>2, WritesTypes DEF TypeOK, reloadVars

LEMMA TypeStep == TypeOK /\ [Next]_vars => TypeOK'
<1> SUFFICES ASSUME TypeOK, [Next]_vars PROVE TypeOK'
  OBVIOUS
<1>1. CASE MainApplies
  BY <1>1 DEF MainApplies, TypeOK, fileVars, watchVars, requestVars
<1>2. CASE MainWatches
  BY <1>2 DEF MainWatches, TypeOK, fileVars, watchVars, requestVars, reloadVars
<1>3. CASE WatcherSeesEvent \/ TimerExpires
  BY <1>3 DEF WatcherSeesEvent, TimerExpires, TypeOK, fileVars, requestVars, reloadVars
<1>4. CASE WatcherFires
  <2>1. /\ pc[Watcher] = "none" /\ pc' = [pc EXCEPT ![Watcher] = "reload"]
        /\ tick' = FALSE
        /\ UNCHANGED <<fileVars, mainPc, events, timer, requestVars, reloadVars>>
    BY <1>4 DEF WatcherFires, Selecting
  <2> QED
    BY <2>1 DEF TypeOK, Callers, fileVars, requestVars, reloadVars
<1>5. CASE Idle \/ UNCHANGED vars
  BY <1>5 DEF Idle, TypeOK, vars, fileVars, watchVars, requestVars, reloadVars
<1>6. ASSUME NEW r \in Requests, HandlerOnly(r) PROVE TypeOK'
  BY <1>6, HandlerTypes
<1>7. ASSUME NEW r \in Requests, SaveRenames(r) PROVE TypeOK'
  BY <1>7, RenameTypes
<1> QED
  BY <1>1, <1>2, <1>3, <1>4, <1>5, <1>6, <1>7, EditorTypes, ReloadTypes
     DEF Next, HandlerOnly

-----------------------------------------------------------------------------
(* The order of the versions.                                              *)

LEMMA OrderStep == ReloadInv /\ [Next]_vars => Ordered' /\ Promised'
<1> SUFFICES ASSUME ReloadInv, [Next]_vars PROVE Ordered' /\ Promised'
  OBVIOUS
<1> USE HotReloadAssumption, ConfigFileAssumption
<1>0. TypeOK /\ Ordered /\ Promised
  BY DEF ReloadInv
<1>1. ASSUME version' \in {version, version + 1},
             UNCHANGED <<pc, reloadVars, savedAt, answer>>,
             mainPc' = mainPc \/ mainPc' # "starting"
      PROVE  Ordered' /\ Promised'
  BY <1>0, <1>1 DEF TypeOK, Ordered, Promised, LiveIsApplied, reloadVars, Callers
<1>2. ASSUME NEW doc \in HandDocs, EditorReplaces(doc) \/ EditorTruncates(doc)
      PROVE  Ordered' /\ Promised'
  BY <1>1, <1>2 DEF EditorReplaces, EditorTruncates, Writes, requestVars
<1>3. CASE EditorFinishes
  BY <1>1, <1>3 DEF EditorFinishes, Writes, requestVars
<1>4. CASE MainWatches \/ WatcherSeesEvent \/ TimerExpires \/ Idle \/ UNCHANGED vars
  BY <1>1, <1>4 DEF MainWatches, WatcherSeesEvent, TimerExpires, Idle, vars,
                    fileVars, requestVars
<1>5. CASE MainApplies
  BY <1>0, <1>5 DEF MainApplies, TypeOK, Ordered, Promised, LiveIsApplied,
                    fileVars, requestVars, Callers
<1>6. CASE WatcherFires
  BY <1>0, <1>6 DEF WatcherFires, Selecting, TypeOK, Ordered, Promised,
                    LiveIsApplied, fileVars, requestVars, reloadVars, Callers
<1>7. ASSUME NEW c \in Callers, ReloadLoads(c) PROVE Ordered' /\ Promised'
  <2>1. /\ UNCHANGED <<version, mainPc, savedAt, answer, applied>>
        /\ pc[c] = "reload" /\ mu = Nobody /\ mu' = c
        /\ pc' = [pc EXCEPT ![c] = "apply"]
        /\ loaded' = [loaded EXCEPT ![c] = version]
    BY <1>7 DEF ReloadLoads, fileVars, requestVars
  <2> QED
    BY <1>0, <2>1 DEF TypeOK, Ordered, Promised, LiveIsApplied, Callers
<1>8. ASSUME NEW c \in Callers, NEW result \in {"saved", "live"},
             UNCHANGED <<version, mainPc, savedAt, loaded>>,
             pc[c] \in {"reload", "apply"}, mu' = Nobody,
             pc' = [pc EXCEPT ![c] = IF c = Watcher THEN "none" ELSE "done"],
             answer' = [r \in Requests |-> IF r = c THEN result ELSE answer[r]],
             \/ applied' = applied /\ result = "saved"
             \/ pc[c] = "apply" /\ applied' = loaded[c]
      PROVE  Ordered' /\ Promised'
  <2>1. mainPc # "starting" /\ mainPc' # "starting"
    BY <1>0, <1>8 DEF Ordered
  <2>2. applied <= applied' /\ applied' <= version /\ applied' \in Nat
    BY <1>0, <1>8 DEF TypeOK, Ordered, Callers
  <2>3. Ordered'
    BY <1>0, <1>8, <2>1, <2>2 DEF Ordered
  <2>4. LiveIsApplied'
    <3> SUFFICES ASSUME NEW r \in Requests, answer'[r] = "live"
                 PROVE  applied' >= savedAt[r]
      BY <1>8 DEF LiveIsApplied
    <3>1. CASE r = c
      BY <1>0, <1>8, <2>2, <3>1 DEF TypeOK, Promised
    <3>2. CASE r # c
      <4>1. answer[r] = "live"
        BY <1>8, <3>2
      <4>2. savedAt[r] \in Nat /\ applied \in Nat /\ applied >= savedAt[r]
        BY <1>0, <4>1 DEF TypeOK, Promised, LiveIsApplied
      <4> QED
        BY <2>2, <4>2
    <3> QED
      BY <3>1, <3>2
  <2> QED
    BY <1>0, <1>8, <2>3, <2>4 DEF TypeOK, Promised, Callers
<1>9. ASSUME NEW c \in Callers, ReloadRejects(c) PROVE Ordered' /\ Promised'
  BY <1>8, <1>9 DEF ReloadRejects, Reloaded, fileVars, reloadVars
<1>10. ASSUME NEW c \in Callers, ReloadApplies(c) PROVE Ordered' /\ Promised'
  BY <1>8, <1>10 DEF ReloadApplies, Reloaded, fileVars
<1>11. ASSUME NEW c \in Callers, ReloadFails(c) PROVE Ordered' /\ Promised'
  BY <1>8, <1>11 DEF ReloadFails, Reloaded, fileVars
<1>12. ASSUME NEW r \in Requests, HandlerOnly(r) PROVE Ordered' /\ Promised'
  <2>1. /\ UNCHANGED <<version, mainPc, mu, loaded, applied>>
        /\ pc[r] \notin {"reload", "apply", "done"}
    BY <1>0, <1>12, HandlerEffect DEF fileVars, reloadVars
  <2>2. PICK p \in {"checked", "save", "rename", "reload", "done"} :
          pc' = [pc EXCEPT ![r] = p]
    BY <1>0, <1>12, HandlerEffect
  <2>3. savedAt' = [savedAt EXCEPT ![r] = version] \/ savedAt' = savedAt
    BY <1>0, <1>12, HandlerEffect
  <2>4. \/ answer' = answer
        \/ /\ pc' = [pc EXCEPT ![r] = "done"]
           /\ \E a \in {"refused", "error"} : answer' = [answer EXCEPT ![r] = a]
    BY <1>0, <1>12, HandlerEffect
  <2>5. mainPc # "starting"
    BY <1>12, <1>0 DEF HandlerOnly, PostReload, PutRefused, PutChecks, Serving,
       PutNeedsConfirm, PutGoesOn, SaveReadsToken, SaveFails, Ordered, Callers
  <2>6. Ordered'
    BY <1>0, <2>1, <2>5 DEF Ordered
  <2> QED
    BY <1>0, <2>1, <2>2, <2>3, <2>4, <2>6 DEF TypeOK, Promised, LiveIsApplied, Callers
<1>13. ASSUME NEW r \in Requests, SaveRenames(r) PROVE Ordered' /\ Promised'
  <2>1. /\ version' = version + 1
        /\ UNCHANGED <<mainPc, answer, mu, loaded, applied>>
        /\ pc[r] = "rename" /\ pc' = [pc EXCEPT ![r] = "reload"]
        /\ savedAt' = [savedAt EXCEPT ![r] = version + 1]
    BY <1>13 DEF SaveRenames, Writes, reloadVars
  <2>2. mainPc # "starting" /\ answer[r] = "none"
    BY <1>0, <2>1 DEF Ordered, Promised, Callers
  <2>3. Ordered'
    BY <1>0, <2>1, <2>2 DEF TypeOK, Ordered, Callers
  <2> QED
    BY <1>0, <2>1, <2>2, <2>3 DEF TypeOK, Promised, LiveIsApplied, Callers
<1> QED
  BY <1>2, <1>3, <1>4, <1>5, <1>6, <1>7, <1>9, <1>10, <1>11, <1>12, <1>13
     DEF Next, HandlerOnly

-----------------------------------------------------------------------------
(* The theorems.                                                           *)

LEMMA Inductive == Spec => []ReloadInv
<1>1. ReloadInv /\ [Next]_vars => ReloadInv'
  BY TypeStep, OrderStep DEF ReloadInv
<1> QED
  BY <1>1, Initially, PTL DEF Spec

\* Types are right, and two reloads never run at once.
THEOREM TypeCorrect == Spec => []TypeOK
<1>1. ReloadInv => TypeOK
  BY DEF ReloadInv
<1> QED
  BY <1>1, Inductive, PTL

\* No reload replaces what it applied by something older, whoever calls
\* Reload and however the calls interleave with edits and saves.
THEOREM Monotonic == Spec => NeverGoesBack
<1>1. ReloadInv /\ [Next]_vars => [applied' >= applied]_vars
  <2> SUFFICES ASSUME ReloadInv, Next PROVE applied' >= applied
    OBVIOUS
  <2>0. TypeOK /\ Ordered
    BY DEF ReloadInv
  <2>1. CASE applied' = applied
    BY <2>0, <2>1 DEF TypeOK
  <2>2. CASE MainApplies
    BY <2>0, <2>2 DEF MainApplies, Ordered
  <2>3. ASSUME NEW c \in Callers, ReloadApplies(c) PROVE applied' >= applied
    BY <2>0, <2>3, HotReloadAssumption DEF ReloadApplies, TypeOK, Ordered, Callers
  <2>4. \/ applied' = applied
        \/ MainApplies
        \/ \E c \in Callers : ReloadApplies(c)
    BY DEF Next, EditorReplaces, EditorTruncates, EditorFinishes, MainWatches,
       WatcherSeesEvent, TimerExpires, WatcherFires, ReloadLoads, ReloadRejects,
       ReloadFails, PostReload, PutRefused, PutChecks, PutNeedsConfirm,
       PutGoesOn, SaveReadsToken, SaveRenames, SaveFails, Idle, reloadVars, vars
  <2> QED
    BY <2>1, <2>2, <2>3, <2>4
<1> QED
  BY <1>1, Inductive, PTL DEF Spec, NeverGoesBack

\* A request that was told its configuration is live finds it applied.
THEOREM SavedIsLive == Spec => []LiveIsApplied
<1>1. ReloadInv => LiveIsApplied
  BY DEF ReloadInv, Promised
<1> QED
  BY <1>1, Inductive, PTL

-----------------------------------------------------------------------------
(* What a save writes.                                                     *)

\* A request past the check carries routes and a web_ui section that are valid
\* beside each other.
Checked ==
  \A r \in Requests :
    pc[r] \in {"checked", "save", "rename"} =>
      /\ save[r].payload \notin BadPayloads
      /\ save[r].ui = UIExposed => save[r].payload \notin UIRoutePayloads \union {NoRoutes}

LEMMA CheckedStep == TypeOK /\ Checked /\ [Next]_vars => Checked'
<1> SUFFICES ASSUME TypeOK, Checked, [Next]_vars PROVE Checked'
  OBVIOUS
<1> USE HotReloadAssumption, ConfigFileAssumption DEF Checked, Callers
<1>1. CASE UNCHANGED <<pc, save>>
  BY <1>1
<1>2. ASSUME NEW c \in Callers, NEW p \in {"none", "reload", "apply", "done"},
             pc' = [pc EXCEPT ![c] = p], UNCHANGED save
      PROVE  Checked'
  BY <1>2 DEF TypeOK
<1>3. ASSUME NEW c \in Callers,
             ReloadLoads(c) \/ ReloadRejects(c) \/ ReloadApplies(c) \/ ReloadFails(c)
      PROVE  Checked'
  BY <1>2, <1>3 DEF ReloadLoads, ReloadRejects, ReloadApplies, ReloadFails,
                    Reloaded, requestVars
<1>4. CASE WatcherFires
  BY <1>2, <1>4 DEF WatcherFires, requestVars
<1>5. ASSUME NEW r \in Requests, PostReload(r) \/ SaveRenames(r) \/ SaveFails(r)
                                  \/ PutNeedsConfirm(r)
      PROVE  Checked'
  BY <1>2, <1>5 DEF PostReload, SaveRenames, SaveFails, PutNeedsConfirm, Ends
<1>6. ASSUME NEW r \in Requests, NEW p \in Payloads, PutRefused(r, p)
      PROVE  Checked'
  BY <1>2, <1>6 DEF PutRefused, Ends
<1>7. ASSUME NEW r \in Requests, NEW p \in Payloads, NEW b \in BOOLEAN,
             PutChecks(r, p, b)
      PROVE  Checked'
  <2>1. /\ p \notin BadPayloads
        /\ file.ui = UIExposed => p \notin UIRoutePayloads \union {NoRoutes}
    BY <1>7 DEF PutChecks, Valid, FromPayload
  <2>2. save' = [save EXCEPT ![r] = [payload |-> p, ui |-> file.ui,
                                     token |-> NoToken, confirm |-> b]]
    BY <1>7 DEF PutChecks
  <2>3. pc' = [pc EXCEPT ![r] = "checked"]
    BY <1>7 DEF PutChecks
  <2> QED
    BY <2>1, <2>2, <2>3 DEF TypeOK
<1>8. ASSUME NEW r \in Requests, PutGoesOn(r) PROVE Checked'
  BY <1>8 DEF PutGoesOn, requestVars, TypeOK
<1>9. ASSUME NEW r \in Requests, SaveReadsToken(r) PROVE Checked'
  <2>1. pc[r] = "save"
    BY <1>9 DEF SaveReadsToken
  <2>2. CASE UNCHANGED save /\ pc' = [pc EXCEPT ![r] = "done"]
    BY <1>2, <2>2
  <2>3. CASE /\ pc' = [pc EXCEPT ![r] = "rename"]
             /\ save' = [save EXCEPT ![r].token = file.token]
    BY <2>1, <2>3 DEF TypeOK
  <2> QED
    BY <1>9, <2>2, <2>3 DEF SaveReadsToken, Ends
<1> QED
  BY <1>1, <1>3, <1>4, <1>5, <1>6, <1>7, <1>8, <1>9
     DEF Next, EditorReplaces, EditorTruncates, EditorFinishes, MainApplies,
         MainWatches, WatcherSeesEvent, TimerExpires, Idle, requestVars, vars

\* Whatever happens to the file between the check of a request and its save, the
\* save writes a file that loads, unless the token was missing when it looked.
THEOREM SavedIsLoadable == Spec => SavesAreLoadable
<1> DEFINE Good == \A r \in Requests :
             SaveRenames(r) => Loadable(file') \/ save[r].token = NoToken
<1>1. Init => Checked
  BY DEF Init, Checked, Callers
<1>2. TypeOK /\ Checked /\ [Next]_vars => [Good]_vars
  <2> SUFFICES ASSUME TypeOK, Checked, NEW r \in Requests, SaveRenames(r),
                      save[r].token # NoToken
               PROVE  Loadable(file')
    OBVIOUS
  <2>1. file' = [payload |-> save[r].payload, ui |-> save[r].ui, token |-> Token]
    BY DEF SaveRenames, Writes, TypeOK
  <2>2. file' \in Documents
    BY <2>1 DEF Documents, TypeOK
  <2>3. file' # Broken
    BY <2>2, ConfigFileAssumption
  <2>4. Valid(file')
    BY <2>1 DEF Valid, Checked, SaveRenames
  <2> QED
    BY <2>3, <2>4 DEF Loadable
<1>3. Spec => []Checked
  BY <1>1, CheckedStep, TypeCorrect, PTL DEF Spec
<1> QED
  BY <1>2, <1>3, TypeCorrect, PTL DEF Spec, SavesAreLoadable

-----------------------------------------------------------------------------
(* What a save is based on, and the refinement of SharedConfig.            *)

\* As long as nobody wrote since the look of request r, what it will save is
\* the file with other routes.
Based(r) ==
  lookedAt[r] = version =>
    /\ Loadable(file)
    /\ save[r].ui = file.ui
    /\ pc[r] \in {"save", "rename"} => ~WouldDropAll(r)
    /\ pc[r] = "rename" => save[r].token = file.token

Looked ==
  \A r \in Requests :
    /\ (lookedAt[r] # 0) <=> pc[r] \in {"checked", "save", "rename"}
    /\ lookedAt[r] <= version
    /\ Based(r)

\* A step that writes the file makes every look one of an older version.
LEMMA LookedWrites ==
  ASSUME TypeOK, version >= 1, Looked, NEW doc, Writes(doc),
         \/ UNCHANGED <<pc, save, lookedAt>>
         \/ \E r \in Requests : /\ pc' = [pc EXCEPT ![r] = "reload"]
                                /\ lookedAt' = [lookedAt EXCEPT ![r] = 0]
  PROVE  Looked'
<1>1. version' = version + 1
  BY DEF Writes
<1> SUFFICES ASSUME NEW q \in Requests
             PROVE  /\ (lookedAt'[q] # 0) <=> pc'[q] \in {"checked", "save", "rename"}
                    /\ lookedAt'[q] < version'
  BY <1>1 DEF Looked, Based, TypeOK
<1> QED
  BY <1>1 DEF Looked, TypeOK, Callers

\* A step that leaves the file, and the saves under way, as they are.
LEMMA LookedElsewhere ==
  ASSUME TypeOK, version >= 1, Looked, UNCHANGED <<file, version, save>>,
         \A r \in Requests :
           \/ pc'[r] = pc[r] /\ lookedAt'[r] = lookedAt[r]
           \/ pc'[r] \notin {"checked", "save", "rename"} /\ lookedAt'[r] = 0
  PROVE  Looked'
<1> SUFFICES ASSUME NEW r \in Requests
             PROVE  /\ (lookedAt'[r] # 0) <=> pc'[r] \in {"checked", "save", "rename"}
                    /\ lookedAt'[r] <= version
                    /\ Based(r)'
  BY DEF Looked
<1>1. CASE pc'[r] = pc[r] /\ lookedAt'[r] = lookedAt[r]
  BY <1>1 DEF Looked, Based, WouldDropAll
<1>2. CASE pc'[r] \notin {"checked", "save", "rename"} /\ lookedAt'[r] = 0
  BY <1>2 DEF Based, TypeOK
<1> QED
  BY <1>1, <1>2

LEMMA LookedStep == ReloadInv /\ Looked /\ [Next]_vars => Looked'
<1> SUFFICES ASSUME ReloadInv, Looked, [Next]_vars PROVE Looked'
  OBVIOUS
<1> USE HotReloadAssumption, ConfigFileAssumption DEF Callers
<1>0. TypeOK /\ version >= 1
  BY DEF ReloadInv, Ordered
<1>1. ASSUME UNCHANGED <<file, version, pc, save, lookedAt>> PROVE Looked'
  BY <1>0, <1>1, LookedElsewhere
<1>2. ASSUME NEW doc \in HandDocs, EditorReplaces(doc) \/ EditorTruncates(doc)
      PROVE  Looked'
  BY <1>0, <1>2, LookedWrites DEF EditorReplaces, EditorTruncates, requestVars
<1>3. CASE EditorFinishes
  BY <1>0, <1>1, <1>3, LookedWrites DEF EditorFinishes, requestVars
<1>4. CASE MainApplies \/ MainWatches \/ WatcherSeesEvent \/ TimerExpires \/ Idle
           \/ UNCHANGED vars
  BY <1>1, <1>4 DEF MainApplies, MainWatches, WatcherSeesEvent, TimerExpires,
                    Idle, vars, fileVars, requestVars
<1>5. CASE WatcherFires
  BY <1>0, <1>5, LookedElsewhere DEF WatcherFires, fileVars, requestVars, TypeOK
<1>6. ASSUME NEW c \in Callers,
             ReloadLoads(c) \/ ReloadRejects(c) \/ ReloadApplies(c) \/ ReloadFails(c)
      PROVE  Looked'
  <2>1. /\ pc[c] \in {"reload", "apply"}
        /\ \E p \in {"none", "apply", "done"} : pc' = [pc EXCEPT ![c] = p]
        /\ UNCHANGED <<file, version, save, lookedAt>>
    BY <1>6 DEF ReloadLoads, ReloadRejects, ReloadApplies, ReloadFails, Reloaded,
                fileVars, requestVars
  <2> QED
    BY <1>0, <2>1, LookedElsewhere DEF Looked, TypeOK
<1>7. ASSUME NEW r \in Requests, PostReload(r) PROVE Looked'
  <2>1. /\ pc[r] = "none" /\ pc' = [pc EXCEPT ![r] = "reload"]
        /\ UNCHANGED <<file, version, save, lookedAt>>
    BY <1>7 DEF PostReload, fileVars
  <2> QED
    BY <1>0, <2>1, LookedElsewhere DEF Looked, TypeOK
<1>8. ASSUME NEW r \in Requests, UNCHANGED <<file, version, save>>,
             pc' = [pc EXCEPT ![r] = "done"], lookedAt' = [lookedAt EXCEPT ![r] = 0]
      PROVE  Looked'
  BY <1>0, <1>8, LookedElsewhere DEF TypeOK
<1>9. ASSUME NEW r \in Requests, NEW p \in Payloads, PutRefused(r, p) PROVE Looked'
  BY <1>8, <1>9 DEF PutRefused, Ends, fileVars
<1>10. ASSUME NEW r \in Requests, PutNeedsConfirm(r) \/ SaveFails(r) PROVE Looked'
  BY <1>8, <1>10 DEF PutNeedsConfirm, SaveFails, Ends, fileVars
<1>11. ASSUME NEW r \in Requests, NEW p \in Payloads, NEW b \in BOOLEAN,
              PutChecks(r, p, b)
       PROVE  Looked'
  <2>1. /\ UNCHANGED <<file, version>> /\ Loadable(file)
        /\ pc' = [pc EXCEPT ![r] = "checked"]
        /\ save' = [save EXCEPT ![r] = [payload |-> p, ui |-> file.ui,
                                        token |-> NoToken, confirm |-> b]]
        /\ lookedAt' = [lookedAt EXCEPT ![r] = version]
    BY <1>11 DEF PutChecks, fileVars
  <2>2. ASSUME NEW q \in Requests, q # r
        PROVE  /\ pc'[q] = pc[q] /\ save'[q] = save[q] /\ lookedAt'[q] = lookedAt[q]
    BY <1>0, <2>1, <2>2 DEF TypeOK
  <2>3. /\ pc'[r] = "checked" /\ save'[r].ui = file.ui /\ lookedAt'[r] = version
    BY <1>0, <2>1 DEF TypeOK
  <2> QED
    BY <1>0, <2>1, <2>2, <2>3 DEF Looked, Based, WouldDropAll, TypeOK
<1>12. ASSUME NEW r \in Requests, PutGoesOn(r) PROVE Looked'
  <2>1. /\ UNCHANGED <<file, version, save, lookedAt>>
        /\ pc[r] = "checked" /\ ~WouldDropAll(r)
        /\ pc' = [pc EXCEPT ![r] = "save"]
    BY <1>12 DEF PutGoesOn, fileVars, requestVars
  <2> QED
    BY <1>0, <2>1 DEF Looked, Based, WouldDropAll, TypeOK
<1>13. ASSUME NEW r \in Requests, SaveReadsToken(r) PROVE Looked'
  <2>1. CASE file = Broken
    BY <1>8, <1>13, <2>1 DEF SaveReadsToken, Ends, fileVars
  <2>2. CASE file # Broken
    <3>1. /\ UNCHANGED <<file, version, lookedAt>>
          /\ pc[r] = "save" /\ pc' = [pc EXCEPT ![r] = "rename"]
          /\ save' = [save EXCEPT ![r].token = file.token]
      BY <1>13, <2>2 DEF SaveReadsToken, fileVars
    <3>2. ASSUME NEW q \in Requests, q # r
          PROVE  pc'[q] = pc[q] /\ save'[q] = save[q]
      BY <1>0, <3>1, <3>2 DEF TypeOK
    <3>3. /\ pc'[r] = "rename"
          /\ save'[r].payload = save[r].payload /\ save'[r].ui = save[r].ui
          /\ save'[r].confirm = save[r].confirm /\ save'[r].token = file.token
      BY <1>0, <3>1 DEF TypeOK
    <3> QED
      BY <1>0, <3>1, <3>2, <3>3 DEF Looked, Based, WouldDropAll
  <2> QED
    BY <2>1, <2>2
<1>14. ASSUME NEW r \in Requests, SaveRenames(r) PROVE Looked'
  BY <1>0, <1>14, LookedWrites DEF SaveRenames
<1> QED
  BY <1>2, <1>3, <1>4, <1>5, <1>6, <1>7, <1>9, <1>10, <1>11, <1>12, <1>13, <1>14
     DEF Next

\* The requests whose client has confirmed, as SharedConfig sees them.
LEMMA Confirmed ==
  ASSUME UNCHANGED <<file, version, save, lookedAt, applied>>
  PROVE  UNCHANGED Owner!vars
BY DEF Owner!vars

\* The rename is a Save of SharedConfig.
LEMMA RenameSaves ==
  ASSUME ReloadInv, Checked, Looked, NEW r \in Requests, SaveRenames(r)
  PROVE  Owner!Save(r)
<1> DEFINE doc == [payload |-> save[r].payload, ui |-> save[r].ui,
                   token |-> save[r].token]
<1> USE HotReloadAssumption, ConfigFileAssumption
<1>0. TypeOK /\ version >= 1
  BY DEF ReloadInv, Ordered
<1>1. /\ pc[r] = "rename"
      /\ file' = doc /\ version' = version + 1
      /\ lookedAt' = [lookedAt EXCEPT ![r] = 0]
      /\ UNCHANGED <<save, applied>>
  BY DEF SaveRenames, Writes, reloadVars
<1>2. doc \in Documents /\ doc # Broken
  BY <1>0 DEF TypeOK, Documents
<1>3. /\ doc.payload = save[r].payload /\ doc.ui = save[r].ui
      /\ doc.token = save[r].token
      /\ doc.payload \notin BadPayloads
      /\ doc.ui = UIExposed => doc.payload \notin UIRoutePayloads \union {NoRoutes}
  BY <1>1 DEF Checked
<1> HIDE DEF doc
<1>4. Loadable(doc) \/ doc.token = NoToken
  BY <1>2, <1>3 DEF Loadable, Valid, Documents
<1>5. lookedAt[r] # 0
  BY <1>1 DEF Looked
<1>6. ASSUME lookedAt[r] = version PROVE Owner!ChangesRoutes(r, doc)
  <2>1. /\ Loadable(file) /\ doc.ui = file.ui /\ doc.token = file.token
        /\ ~WouldDropAll(r)
    BY <1>1, <1>3, <1>6 DEF Looked, Based
  <2>2. Loadable(doc)
    BY <1>2, <1>3, <2>1 DEF Loadable, Valid
  <2>3. doc.payload = NoRoutes => file.payload = NoRoutes \/ save[r].confirm
    BY <1>3, <2>1 DEF WouldDropAll
  <2> QED
    BY <2>1, <2>2, <2>3 DEF Owner!ChangesRoutes, Owner!Loadable, Owner!Valid,
                            Loadable, Valid
<1>7. Loadable(doc) <=> Owner!Loadable(doc)
  BY DEF Loadable, Valid, Owner!Loadable, Owner!Valid
<1> QED
  BY <1>1, <1>2, <1>4, <1>5, <1>6, <1>7
     DEF Owner!Save, Owner!Written, Owner!Forgets, Owner!Documents, Documents

\* The check of a request is a Look of SharedConfig.
LEMMA CheckLooks ==
  ASSUME ReloadInv, Looked, NEW r \in Requests, NEW p \in Payloads, NEW b \in BOOLEAN,
         PutChecks(r, p, b)
  PROVE  Owner!Look(r)
<1> DEFINE confirmed == {q \in Requests : save[q].confirm}
<1>0. TypeOK
  BY DEF ReloadInv
<1>1. /\ UNCHANGED <<file, version, applied>>
      /\ pc[r] = "none" /\ Loadable(file)
      /\ save' = [save EXCEPT ![r] = [payload |-> p, ui |-> file.ui,
                                      token |-> NoToken, confirm |-> b]]
      /\ lookedAt' = [lookedAt EXCEPT ![r] = version]
  BY DEF PutChecks, fileVars, reloadVars
<1>2. lookedAt[r] = 0
  BY <1>1 DEF Looked
<1>3. save'[r].confirm = b /\ \A q \in Requests : q # r => save'[q] = save[q]
  BY <1>0, <1>1 DEF TypeOK
<1>4. {q \in Requests : save'[q].confirm} \in {confirmed \union {r}, confirmed \ {r}}
  <2>1. CASE b
    <3>1. {q \in Requests : save'[q].confirm} = confirmed \union {r}
      BY <1>3, <2>1
    <3> QED
      BY <3>1
  <2>2. CASE ~b
    <3>1. {q \in Requests : save'[q].confirm} = confirmed \ {r}
      BY <1>3, <2>2
    <3> QED
      BY <3>1
  <2> QED
    BY <2>1, <2>2
<1> QED
  BY <1>1, <1>2, <1>4 DEF Owner!Look, Owner!Loadable, Owner!Valid, Loadable, Valid

\* A request that ends without a save gives up, or never had looked.
LEMMA EndGivesUp ==
  ASSUME NEW r \in Requests, UNCHANGED <<fileVars, reloadVars>>,
         NEW result, Ends(r, result)
  PROVE  Owner!GiveUp(r)
BY DEF Ends, Owner!GiveUp, Owner!Forgets, fileVars, reloadVars

\* Reading the token changes nothing SharedConfig knows of.
LEMMA TokenStutters ==
  ASSUME TypeOK, NEW r \in Requests, SaveReadsToken(r), file # Broken
  PROVE  UNCHANGED Owner!vars
<1>1. /\ UNCHANGED <<file, version, lookedAt, applied>>
      /\ save' = [save EXCEPT ![r].token = file.token]
  BY DEF SaveReadsToken, fileVars, reloadVars
<1>2. \A q \in Requests : save'[q].confirm = save[q].confirm
  BY <1>1 DEF TypeOK
<1>3. {q \in Requests : save'[q].confirm} = {q \in Requests : save[q].confirm}
  BY <1>2
<1> QED
  BY <1>1, <1>3 DEF Owner!vars

LEMMA EditorEdits ==
  ASSUME TypeOK,
         \/ \E doc \in HandDocs : EditorReplaces(doc) \/ EditorTruncates(doc)
         \/ EditorFinishes
  PROVE  Owner!Edit \/ UNCHANGED Owner!vars
<1> USE HotReloadAssumption, ConfigFileAssumption
<1>1. UNCHANGED <<save, lookedAt, applied>>
  BY DEF EditorReplaces, EditorTruncates, EditorFinishes, requestVars, reloadVars
<1>2. ASSUME NEW doc \in Documents \union {Broken}, Writes(doc) PROVE Owner!Edit
  BY <1>1, <1>2 DEF Writes, Owner!Edit, Owner!Written, Owner!Documents, Documents
<1>3. EmptyDoc \in Documents
  BY DEF EmptyDoc, Documents
<1>4. ASSUME NEW doc \in HandDocs, EditorReplaces(doc) PROVE Owner!Edit
  BY <1>2, <1>4 DEF EditorReplaces
<1>5. ASSUME NEW doc \in HandDocs, EditorTruncates(doc) PROVE Owner!Edit
  BY <1>2, <1>3, <1>5 DEF EditorTruncates
<1>6. CASE EditorFinishes
  <2>1. CASE sameInode
    BY <1>2, <1>6, <2>1 DEF EditorFinishes, TypeOK
  <2>2. CASE ~sameInode
    BY <1>1, <1>6, <2>2, Confirmed DEF EditorFinishes
  <2> QED
    BY <2>1, <2>2
<1> QED
  BY <1>4, <1>5, <1>6

\* What is applied is a version of the file, and none older than before.
LEMMA ReloadsApply ==
  ASSUME ReloadInv, NEW c \in Callers, MainApplies \/ ReloadApplies(c)
  PROVE  Owner!Apply \/ UNCHANGED Owner!vars
<1> USE HotReloadAssumption DEF ReloadInv, TypeOK, Ordered, Callers
<1>1. UNCHANGED <<file, version, save, lookedAt>>
  BY DEF MainApplies, ReloadApplies, Reloaded, fileVars, requestVars
<1>2. applied' = applied \/ applied' \in applied..version
  BY DEF MainApplies, ReloadApplies
<1>3. CASE applied' = applied
  BY <1>1, <1>3, Confirmed
<1>4. CASE applied' \in applied..version
  BY <1>1, <1>4 DEF Owner!Apply
<1> QED
  BY <1>2, <1>3, <1>4

LEMMA StepRefines ==
  ReloadInv /\ Checked /\ Looked /\ [Next]_vars => [Owner!Next]_(Owner!vars)
<1> SUFFICES ASSUME ReloadInv, Checked, Looked, [Next]_vars
             PROVE  Owner!Next \/ UNCHANGED Owner!vars
  OBVIOUS
<1>0. TypeOK
  BY DEF ReloadInv
<1>1. ASSUME UNCHANGED <<fileVars, requestVars, reloadVars>>
      PROVE  UNCHANGED Owner!vars
  BY <1>1, Confirmed DEF fileVars, requestVars, reloadVars
<1>2. CASE MainWatches \/ WatcherSeesEvent \/ TimerExpires \/ WatcherFires \/ Idle
           \/ UNCHANGED vars
  BY <1>1, <1>2 DEF MainWatches, WatcherSeesEvent, TimerExpires, WatcherFires,
                    Idle, vars
<1>3. ASSUME NEW c \in Callers, ReloadLoads(c) \/ ReloadRejects(c) \/ ReloadFails(c)
      PROVE  UNCHANGED Owner!vars
  BY <1>3, Confirmed DEF ReloadLoads, ReloadRejects, ReloadFails, Reloaded,
                         fileVars, requestVars, reloadVars
<1>4. ASSUME NEW c \in Callers, MainApplies \/ ReloadApplies(c)
      PROVE  Owner!Apply \/ UNCHANGED Owner!vars
  BY <1>4, ReloadsApply
<1>5. Watcher \in Callers
  BY DEF Callers
<1>6. ASSUME NEW r \in Requests, PostReload(r) \/ PutGoesOn(r)
      PROVE  UNCHANGED Owner!vars
  BY <1>6, Confirmed DEF PostReload, PutGoesOn, fileVars, requestVars, reloadVars
<1>7. ASSUME NEW r \in Requests, NEW p \in Payloads, PutRefused(r, p)
      PROVE  Owner!GiveUp(r)
  BY <1>7, EndGivesUp DEF PutRefused
<1>8. ASSUME NEW r \in Requests, PutNeedsConfirm(r) \/ SaveFails(r)
      PROVE  Owner!GiveUp(r)
  BY <1>8, EndGivesUp DEF PutNeedsConfirm, SaveFails
<1>9. ASSUME NEW r \in Requests, SaveReadsToken(r)
      PROVE  Owner!GiveUp(r) \/ UNCHANGED Owner!vars
  <2>1. CASE file = Broken
    BY <1>9, <2>1, EndGivesUp DEF SaveReadsToken
  <2>2. CASE file # Broken
    BY <1>0, <1>9, <2>2, TokenStutters
  <2> QED
    BY <2>1, <2>2
<1>10. ASSUME NEW r \in Requests, NEW p \in Payloads, NEW b \in BOOLEAN,
              PutChecks(r, p, b)
       PROVE  Owner!Look(r)
  BY <1>10, CheckLooks
<1>11. ASSUME NEW r \in Requests, SaveRenames(r) PROVE Owner!Save(r)
  BY <1>11, RenameSaves
<1> QED
  BY <1>0, <1>2, <1>3, <1>4, <1>5, <1>6, <1>7, <1>8, <1>9, <1>10, <1>11, EditorEdits
     DEF Next, Owner!Next

\* Everything that happens to config.yml is a step of SharedConfig: a save that
\* nobody interferes with changes the routes and nothing else, no save removes
\* all of them unasked, and nothing older is ever applied again.
THEOREM KeepsTheFile == Spec => ConfigSpec
<1>1. Init => Owner!Init
  BY HotReloadAssumption
     DEF Init, NoSave, Owner!Init, Owner!Documents, Owner!Loadable, Owner!Valid,
         Documents, Loadable, Valid
<1>2. Init => Checked /\ Looked
  BY DEF Init, Checked, Looked, Based, Callers
<1>3. Spec => [](Checked /\ Looked)
  <2>1. ReloadInv /\ (Checked /\ Looked) /\ [Next]_vars => (Checked /\ Looked)'
    BY CheckedStep, LookedStep DEF ReloadInv
  <2> QED
    BY <1>2, <2>1, Inductive, PTL DEF Spec
<1> QED
  BY <1>1, <1>3, StepRefines, Inductive, PTL DEF Spec, ConfigSpec, Owner!Spec

-----------------------------------------------------------------------------
(* No edit is forgotten.                                                   *)

Pending ==
  \/ events \/ timer \/ tick
  \/ \E c \in Callers : pc[c] = "reload"

Read ==
  \/ version = 1
  \/ \E c \in Callers : loaded[c] = version

\* The hand-over from one stage of the watcher to the next leaves no gap, and
\* neither does the one from a save to the reload that follows it.
Noticed ==
  /\ ~EditsDuringStart /\ editor # Nobody => mainPc = "watching"
  /\ ~EditsDuringStart /\ Loadable(file) => Pending \/ Read

\* What a reload has read is applied once the reload is over.
Fulfilled ==
  ~ReloadsFail =>
    /\ mainPc \in {"serving", "watching"} => applied >= 1
    /\ \A c \in Callers : pc[c] # "apply" => loaded[c] <= applied

\* No step drops an edit that is neither pending nor read.
LEMMA NoticedStep == TypeOK /\ Noticed /\ [Next]_vars => Noticed'
<1> SUFFICES ASSUME TypeOK, Noticed, [Next]_vars PROVE Noticed'
  OBVIOUS
<1> USE HotReloadAssumption, ConfigFileAssumption DEF Callers
<1>1. CASE EditsDuringStart
  BY <1>1 DEF Noticed
<1>2. CASE ~EditsDuringStart
  <2>1. ASSUME UNCHANGED <<file, version, editor, loaded>>,
               mainPc' = mainPc \/ mainPc = "starting" \/ mainPc = "serving",
               Pending => Pending'
        PROVE  Noticed'
    BY <1>2, <2>1 DEF Noticed, Read
  <2>2. ASSUME mainPc = "watching", UNCHANGED mainPc, NEW doc, Writes(doc)
        PROVE  Noticed'
    BY <2>2 DEF Noticed, Writes, Pending
  <2>3. ASSUME NEW doc \in HandDocs, EditorReplaces(doc) \/ EditorTruncates(doc)
        PROVE  Noticed'
    BY <1>2, <2>2, <2>3 DEF EditorReplaces, EditorTruncates, MayEdit
  <2>4. CASE EditorFinishes
    <3>1. mainPc = "watching" /\ mainPc' = mainPc /\ editor' = Nobody
      BY <1>2, <2>4 DEF EditorFinishes, Noticed
    <3>2. CASE sameInode
      BY <2>2, <2>4, <3>1, <3>2 DEF EditorFinishes
    <3>3. CASE ~sameInode
      BY <2>4, <3>1, <3>3 DEF EditorFinishes, Noticed, Pending, Read, watchVars, reloadVars
    <3> QED
      BY <3>2, <3>3
  <2>5. CASE MainApplies \/ MainWatches \/ Idle \/ UNCHANGED vars
    BY <2>1, <2>5 DEF MainApplies, MainWatches, Idle, vars, fileVars, watchVars,
                      reloadVars, Pending
  <2>6. CASE WatcherSeesEvent \/ TimerExpires
    BY <2>1, <2>6 DEF WatcherSeesEvent, TimerExpires, fileVars, reloadVars, Pending
  <2>7. CASE WatcherFires
    <3>1. pc'[Watcher] = "reload"
      BY <2>7 DEF WatcherFires, TypeOK
    <3> QED
      BY <2>1, <2>7, <3>1 DEF WatcherFires, fileVars, reloadVars, Pending
  <2>8. ASSUME NEW c \in Callers, ReloadLoads(c) PROVE Noticed'
    <3>1. loaded'[c] = version /\ UNCHANGED <<file, version, editor, mainPc>>
      BY <2>8 DEF ReloadLoads, fileVars, TypeOK
    <3> QED
      BY <3>1 DEF Noticed, Read
  <2>9. ASSUME NEW c \in Callers, ReloadRejects(c) PROVE Noticed'
    BY <2>9 DEF ReloadRejects, fileVars, Noticed
  <2>10. ASSUME NEW c \in Callers, pc[c] # "reload", NEW p,
                pc' = [pc EXCEPT ![c] = p], UNCHANGED watchVars
         PROVE  Pending => Pending'
    BY <2>10 DEF Pending, watchVars, TypeOK
  <2>11. ASSUME NEW c \in Callers, ReloadApplies(c) \/ ReloadFails(c) PROVE Noticed'
    BY <2>1, <2>10, <2>11 DEF ReloadApplies, ReloadFails, Reloaded, fileVars
  <2>12. ASSUME NEW r \in Requests, HandlerOnly(r) PROVE Noticed'
    <3>1. /\ UNCHANGED <<file, version, editor, loaded, mainPc, watchVars>>
          /\ pc[r] # "reload"
          /\ \E p \in {"checked", "save", "rename", "reload", "done"} :
               pc' = [pc EXCEPT ![r] = p]
      BY <2>12, HandlerEffect DEF fileVars, reloadVars
    <3> QED
      BY <2>1, <2>10, <3>1
  <2>13. ASSUME NEW r \in Requests, SaveRenames(r) PROVE Noticed'
    <3>1. pc'[r] = "reload" /\ UNCHANGED <<editor, mainPc>>
      BY <2>13 DEF SaveRenames, TypeOK
    <3> QED
      BY <3>1 DEF Noticed, Pending
  <2> QED
    BY <2>3, <2>4, <2>5, <2>6, <2>7, <2>8, <2>9, <2>11, <2>12, <2>13
       DEF Next, HandlerOnly
<1> QED
  BY <1>1, <1>2

LEMMA FulfilledStep == ReloadInv /\ Fulfilled /\ [Next]_vars => Fulfilled'
<1> SUFFICES ASSUME ReloadInv, Fulfilled, [Next]_vars, ~ReloadsFail PROVE Fulfilled'
  BY DEF Fulfilled
<1> USE HotReloadAssumption DEF Callers
<1>0. TypeOK /\ Ordered
  BY DEF ReloadInv
<1>1. ASSUME UNCHANGED <<loaded, applied>>,
             mainPc' = mainPc \/ mainPc = "serving",
             \A c \in Callers : pc'[c] # "apply" => pc[c] # "apply"
      PROVE  Fulfilled'
  BY <1>1 DEF Fulfilled
<1>2. ASSUME UNCHANGED <<pc, mainPc, reloadVars>> PROVE Fulfilled'
  BY <1>1, <1>2 DEF reloadVars
<1>3. ASSUME NEW doc \in HandDocs, EditorReplaces(doc) \/ EditorTruncates(doc)
      PROVE  Fulfilled'
  BY <1>2, <1>3 DEF EditorReplaces, EditorTruncates
<1>4. CASE EditorFinishes \/ WatcherSeesEvent \/ TimerExpires \/ Idle \/ UNCHANGED vars
  BY <1>2, <1>4 DEF EditorFinishes, WatcherSeesEvent, TimerExpires, Idle, vars
<1>5. CASE MainWatches
  BY <1>1, <1>5 DEF MainWatches, reloadVars
<1>6. CASE MainApplies
  BY <1>0, <1>6 DEF MainApplies, Fulfilled, Ordered, TypeOK
<1>7. CASE WatcherFires
  BY <1>0, <1>1, <1>7 DEF WatcherFires, reloadVars, Selecting, TypeOK
<1>8. ASSUME NEW c \in Callers, ReloadLoads(c) PROVE Fulfilled'
  <2>1. /\ UNCHANGED <<mainPc, applied>>
        /\ pc'[c] = "apply"
        /\ \A d \in Callers : d # c => pc'[d] = pc[d] /\ loaded'[d] = loaded[d]
    BY <1>0, <1>8 DEF ReloadLoads, TypeOK
  <2> QED
    BY <2>1 DEF Fulfilled
<1>9. ASSUME NEW c \in Callers, ReloadRejects(c) PROVE Fulfilled'
  BY <1>0, <1>1, <1>9 DEF ReloadRejects, Reloaded, reloadVars, TypeOK
<1>10. ASSUME NEW c \in Callers, ReloadApplies(c) PROVE Fulfilled'
  <2>1. /\ UNCHANGED <<mainPc, loaded>> /\ applied' = loaded[c] /\ mu = c
        /\ \A d \in Callers : d # c => pc'[d] = pc[d]
    BY <1>0, <1>10 DEF ReloadApplies, Reloaded, TypeOK
  <2>2. applied <= applied'
    BY <1>0, <2>1 DEF Ordered
  <2>3. \A d \in Callers : d # c => pc[d] # "apply"
    BY <1>0, <2>1 DEF TypeOK
  <2>4. \A d \in Callers : loaded[d] <= applied'
    BY <1>0, <2>1, <2>2, <2>3 DEF Fulfilled, TypeOK
  <2> QED
    BY <1>0, <2>1, <2>2, <2>4 DEF Fulfilled, TypeOK
<1>11. ASSUME NEW c \in Callers, ReloadFails(c) PROVE Fulfilled'
  BY <1>11 DEF ReloadFails
<1>12. ASSUME NEW r \in Requests, HandlerOnly(r) PROVE Fulfilled'
  BY <1>0, <1>1, <1>12, HandlerEffect DEF fileVars, reloadVars, TypeOK
<1>13. ASSUME NEW r \in Requests, SaveRenames(r) PROVE Fulfilled'
  BY <1>0, <1>1, <1>13 DEF SaveRenames, reloadVars, TypeOK
<1> QED
  BY <1>3, <1>4, <1>5, <1>6, <1>7, <1>8, <1>9, <1>10, <1>11, <1>12, <1>13
     DEF Next, HandlerOnly

\* At rest DockFlare has read, and unless a reload failed applied, the file as
\* it is, whatever the order of edits, ticks, resets and blocked reloads was.
THEOREM RestIsCurrent == Spec => []NothingForgotten
<1>1. Init => Noticed /\ Fulfilled
  BY DEF Init, Noticed, Fulfilled, Read
<1>2. ReloadInv /\ (Noticed /\ Fulfilled) /\ [Next]_vars => (Noticed /\ Fulfilled)'
  BY NoticedStep, FulfilledStep DEF ReloadInv
<1>3. ReloadInv /\ Noticed /\ Fulfilled => NothingForgotten
  <2> SUFFICES ASSUME ReloadInv, Noticed, Fulfilled, mainPc = "watching", AtRest,
                      Loadable(file), ~EditsDuringStart
               PROVE  /\ version = 1 \/ \E c \in Callers : loaded[c] = version
                      /\ applied = version \/ ReloadsFail
    BY DEF NothingForgotten
  <2>1. Read
    BY DEF Noticed, Pending, AtRest
  <2>2. ASSUME ~ReloadsFail PROVE applied = version
    BY <2>1, <2>2 DEF Read, Fulfilled, AtRest, ReloadInv, Ordered, TypeOK
  <2> QED
    BY <2>1, <2>2 DEF Read
<1> QED
  BY <1>1, <1>2, <1>3, Inductive, PTL DEF Spec

=============================================================================
