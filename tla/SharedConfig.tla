---------------------------- MODULE SharedConfig ----------------------------
(***************************************************************************)
(* What DockFlare promises the owner of config.yml, a file that people and *)
(* the web UI write and nobody locks.                                      *)
(*                                                                         *)
(* A save from the web UI is one atomic edit of the routes as long as      *)
(* nobody else writes the file between the look it is based on and the     *)
(* rename: the web_ui section and the token stay, and all routes go only   *)
(* if the client said that it means it.  When somebody did write, the save *)
(* still leaves a file that loads, or one without a token.  What is        *)
(* applied is some version of the file, and never an older one than before.*)
(***************************************************************************)
EXTENDS ConfigFile, Naturals

CONSTANT Requests    \* requests to the web UI

VARIABLES
  file,       \* the content of config.yml
  version,    \* number of writes to it so far
  lookedAt,   \* per request: the version its save is based on, or 0
  confirmed,  \* requests whose client agreed to lose all routes
  applied     \* the version that was applied last, or 0

vars == <<file, version, lookedAt, confirmed, applied>>

Init ==
  /\ file \in {doc \in Documents : Loadable(doc)}
  /\ version = 1
  /\ lookedAt = [r \in Requests |-> 0]
  /\ confirmed = {}
  /\ applied = 0

Written(doc) == file' = doc /\ version' = version + 1

\* Somebody writes the file.
Edit ==
  /\ \E doc \in Documents \union {Broken} : Written(doc)
  /\ UNCHANGED <<lookedAt, confirmed, applied>>

\* A save begins: request r has looked at the file as it is now.
Look(r) ==
  /\ lookedAt[r] = 0
  /\ Loadable(file)
  /\ lookedAt' = [lookedAt EXCEPT ![r] = version]
  /\ confirmed' \in {confirmed \union {r}, confirmed \ {r}}
  /\ UNCHANGED <<file, version, applied>>

Forgets(r) == lookedAt' = [lookedAt EXCEPT ![r] = 0]

\* Only the routes change, and not from some to none behind the client's back.
ChangesRoutes(r, doc) ==
  /\ Loadable(doc)
  /\ doc.ui = file.ui
  /\ doc.token = file.token
  /\ doc.payload = NoRoutes => file.payload = NoRoutes \/ r \in confirmed

Save(r) ==
  /\ lookedAt[r] # 0
  /\ \E doc \in Documents :
       /\ Written(doc)
       /\ lookedAt[r] = version => ChangesRoutes(r, doc)
       /\ Loadable(doc) \/ doc.token = NoToken
  /\ Forgets(r)
  /\ UNCHANGED <<confirmed, applied>>

GiveUp(r) ==
  /\ Forgets(r)
  /\ UNCHANGED <<file, version, confirmed, applied>>

\* A reload that succeeds.
Apply ==
  /\ applied' \in applied..version
  /\ UNCHANGED <<file, version, lookedAt, confirmed>>

Next == Edit \/ Apply \/ \E r \in Requests : Look(r) \/ Save(r) \/ GiveUp(r)

Spec == Init /\ [][Next]_vars

=============================================================================
