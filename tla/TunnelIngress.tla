--------------------------- MODULE TunnelIngress ---------------------------
(***************************************************************************)
(* ingress.Manager: how Sync brings the tunnel's remote ingress in line    *)
(* with config.yml.  It compares with a cache of what it last applied,     *)
(* reads the remote configuration, merges, and writes it back.  The API    *)
(* has no compare-and-set: the dashboard may edit between the read and the *)
(* write, and the outcome of a write may never become known.               *)
(***************************************************************************)
EXTENDS TunnelMirror

CONSTANTS
  Nothing,         \* nil: no cache, no configuration
  EditsBetween,    \* the dashboard edits while no Sync is running
  EditsDuring,     \* the dashboard edits during a Sync
  LostResponses,   \* a PUT may be applied although Sync sees an error
  LateWrites       \* such a PUT may even be applied some time later

ASSUME TunnelAssumption ==
  /\ Nothing \notin Configs
  /\ EditsBetween \in BOOLEAN /\ EditsDuring \in BOOLEAN
  /\ LostResponses \in BOOLEAN /\ LateWrites \in BOOLEAN

VARIABLES
  lastApplied,   \* m.lastApplied: a list of rules, or Nothing
  pc,            \* where Sync is: idle, before the GET, before the PUT
  cfg,           \* the configuration of the Sync in progress
  next,          \* what that Sync is about to PUT, or Nothing
  late,          \* a PUT the client has given up on, or Nothing
  last,          \* history: the last Sync that returned, [cfg, outcome]
  overtaken      \* history: the tunnel changed since Sync read or wrote it

syncVars == <<lastApplied, pc, cfg, next, last>>
vars == <<remote, late, overtaken, syncVars>>

Succeeded == {"skipped", "matched", "written"}
Outcomes  == Succeeded \union {"none", "left", "error"}

TypeOK ==
  /\ pc \in {"idle", "get", "put"}
  /\ cfg \in Configs \union {Nothing}
  /\ (pc = "idle") <=> (cfg = Nothing)
  /\ pc # "put" => next = Nothing
  /\ last.cfg \in Configs \union {Nothing}
  /\ last.outcome \in Outcomes
  /\ remote.settings \in Settings
  /\ lastApplied # Nothing => lastApplied # <<>>
  /\ overtaken \in BOOLEAN

Init ==
  /\ MirrorInit
  /\ lastApplied = Nothing
  /\ pc = "idle" /\ cfg = Nothing /\ next = Nothing
  /\ late = Nothing
  /\ last = [cfg |-> Nothing, outcome |-> "none"]
  /\ overtaken = FALSE

-----------------------------------------------------------------------------
(* Sync, from its call to the decision of applyIngress.  EnsureDNS and the *)
(* redirects, which follow a success, do not touch this state.             *)

\* Mutant: what one Sync was about to write is still there for the next.
ReturnsKeepingNext(c, outcome) ==
  /\ pc' = "idle" /\ cfg' = Nothing /\ next' = next
  /\ last' = [cfg |-> c, outcome |-> outcome]

\* The end of a Sync.
Returns(c, outcome) ==
  /\ pc' = "idle" /\ cfg' = Nothing /\ next' = Nothing
  /\ last' = [cfg |-> c, outcome |-> outcome]

\* "With no routes configured it is a no-op."
SyncLeavesAlone(c) ==
  /\ pc = "idle"
  /\ c.routes = <<>>
  /\ Returns(c, "left")
  /\ UNCHANGED <<remote, late, overtaken, lastApplied>>

\* Resolve finds a route whose container is missing or out of reach.
SyncRejects(c) ==
  /\ pc = "idle"
  /\ c.routes # <<>>
  /\ Returns(c, "error")
  /\ UNCHANGED <<remote, late, overtaken, lastApplied>>

Unchanged(c) ==
  lastApplied # Nothing /\ SameRules(lastApplied, Desired(c))

\* "Ingress unchanged, skipping Cloudflare API"
SyncSkips(c) ==
  /\ pc = "idle"
  /\ c.routes # <<>>
  /\ Unchanged(c)
  /\ Returns(c, "skipped")
  /\ UNCHANGED <<remote, late, overtaken, lastApplied>>

SyncAsks(c) ==
  /\ pc = "idle"
  /\ c.routes # <<>>
  /\ ~Unchanged(c)
  /\ pc' = "get"
  /\ cfg' = c
  /\ UNCHANGED <<remote, late, overtaken, lastApplied, next, last>>

-----------------------------------------------------------------------------
(* applyIngress after the cache: the GET and the PUT.                      *)

\* The list to publish, given what the GET returned.
Merged(c) == CarryOverOriginRequests(Desired(c), remote.ingress)

\* "Ingress already up to date"
GetMatches ==
  /\ pc = "get"
  /\ SameRules(remote.ingress, Merged(cfg))
  /\ lastApplied' = Merged(cfg)
  /\ overtaken' = FALSE
  /\ Returns(cfg, "matched")
  /\ UNCHANGED <<remote, late>>

GetDiffers ==
  /\ pc = "get"
  /\ ~SameRules(remote.ingress, Merged(cfg))
  /\ next' = [remote EXCEPT !.ingress = Merged(cfg)]
  /\ pc' = "put"
  /\ UNCHANGED <<remote, late, overtaken, lastApplied, cfg, last>>

\* "reading tunnel configuration: %w"
GetFails ==
  /\ pc = "get"
  /\ Returns(cfg, "error")
  /\ UNCHANGED <<remote, late, overtaken, lastApplied>>

\* The PUT is answered.
PutSucceeds ==
  /\ pc = "put"
  /\ remote' = next
  /\ lastApplied' = next.ingress
  /\ overtaken' = FALSE
  /\ Returns(cfg, "written")
  /\ UNCHANGED late

\* Mutant: the cache is filled before the error of the PUT is looked at.
PutFailsRemembered ==
  /\ pc = "put"
  /\ lastApplied' = next.ingress
  /\ Returns(cfg, "error")
  /\ UNCHANGED <<remote, late, overtaken>>

\* "updating tunnel ingress: %w", and the PUT did nothing.
PutFails ==
  /\ pc = "put"
  /\ Returns(cfg, "error")
  /\ UNCHANGED <<remote, late, overtaken, lastApplied>>

\* The PUT is applied, its answer is not received.
PutResponseLost ==
  /\ pc = "put"
  /\ LostResponses
  /\ remote' = next
  /\ overtaken' = TRUE
  /\ Returns(cfg, "error")
  /\ UNCHANGED <<late, lastApplied>>

\* The client gives up (requestTimeout, a cancelled context) on a PUT that is
\* still under way.
PutAbandoned ==
  /\ pc = "put"
  /\ LateWrites
  /\ late = Nothing
  /\ late' = next
  /\ Returns(cfg, "error")
  /\ UNCHANGED <<remote, overtaken, lastApplied>>

LatePutLands ==
  /\ late # Nothing
  /\ remote' = late
  /\ late' = Nothing
  /\ overtaken' = TRUE
  /\ UNCHANGED syncVars

\* DockFlare is restarted: the cache is in memory only.
Restart ==
  /\ lastApplied' = Nothing /\ overtaken' = FALSE
  /\ Returns(Nothing, "none")
  /\ \/ UNCHANGED <<remote, late>>
     \/ pc = "put" /\ LostResponses /\ remote' = next /\ UNCHANGED late

Dashboard ==
  /\ IF pc = "idle" THEN EditsBetween ELSE EditsDuring
  /\ DashboardEdits
  /\ overtaken' = TRUE
  /\ UNCHANGED <<late, syncVars>>

Next ==
  \/ \E c \in Configs : \/ SyncLeavesAlone(c) \/ SyncRejects(c)
                        \/ SyncSkips(c) \/ SyncAsks(c)
  \/ GetMatches \/ GetDiffers \/ GetFails
  \/ PutSucceeds \/ PutFails \/ PutResponseLost \/ PutAbandoned
  \/ LatePutLands
  \/ Restart
  \/ Dashboard

Spec == Init /\ [][Next]_vars

-----------------------------------------------------------------------------
(* Properties.                                                             *)

\* "Sync brings the tunnel's ingress in line with cfg" (Manager.Sync): after a
\* Sync that reports success, also one that trusted the cache, the tunnel
\* serves exactly the routes of its configuration.  Only the dashboard and a
\* PUT without an answer can have changed that since DockFlare last read or
\* wrote the tunnel; an error, a rejected configuration or a restart cannot.
InSync ==
  pc = "idle" /\ last.outcome \in Succeeded /\ ~overtaken
    => Serves(remote.ingress, last.cfg)

\* What Sync compares with before it calls the API is what the tunnel has, also
\* after configurations without routes, failed writes and restarts came between:
\* a change of config.yml is never taken for one already applied.  Only the
\* dashboard and a PUT without an answer can make the cache stale.
CacheIsTunnel ==
  lastApplied # Nothing /\ ~overtaken => SameRules(lastApplied, remote.ingress)

\* "A partial apply would silently take working hostnames offline" (Sync):
\* whatever the dashboard does meanwhile and however late a PUT is applied, a
\* write of DockFlare leaves the complete list of one configuration.
NeverPartial ==
  [][remote'.ingress # remote.ingress
       => Dashboard \/ \E c \in Configs : Serves(remote'.ingress, c)]_vars

=============================================================================
