------------------------------ MODULE Networks ------------------------------
(***************************************************************************)
(* The Docker networks DockFlare moves in and out of: network.Manager,     *)
(* whose Sync every reload runs first, ingress.Resolve, which then checks  *)
(* the routes against what was joined, and main, which starts with one     *)
(* such reload and ends with Disconnect.  Docker answers call by call; a   *)
(* reload may still be running while main shuts down, and memberships      *)
(* outlive the process that made them.                                     *)
(***************************************************************************)
EXTENDS Naturals

CONSTANTS
  Containers,
  Nets,         \* names of Docker networks
  Home,         \* the networks DockFlare's own container is created with
  Configs,      \* what a file asks for: [list, routes, closed]
  Layouts,      \* how Docker may be found: [present, networks]
  SelfKnown,    \* values of Tracking: may SelfContainerID fail
  Nothing,      \* no container is being worked on
  MaxChanges    \* bound: changes made to containers and networks by others

\* list is containers:, routes the containers the routes name, closed those
\* of them named with a port they do not expose.
ASSUME NetworksAssumption ==
  /\ Home \subseteq Nets
  /\ Configs \subseteq [list : SUBSET Containers, routes : SUBSET Containers,
                        closed : SUBSET Containers]
  /\ Layouts \subseteq [present : SUBSET Containers,
                         networks : [Containers -> SUBSET Nets]]
  /\ SelfKnown \subseteq BOOLEAN
  /\ Nothing \notin [container : Containers, left : SUBSET Nets]
  /\ MaxChanges \in Nat

VARIABLES
  present,         \* at Docker: the containers that exist
  networks,        \* at Docker: the networks of each of them
  member,          \* at Docker: the networks DockFlare is in
  tracking,        \* selfID # ""
  joined,          \* m.joinedNets
  mainPc,          \* where main is, or how its process ended
  leaves,          \* Disconnect: its snapshot of joinedNets, less those done
  pc,              \* where the reload that holds r.mu is
  caller,          \* whose context it has: main's, or that of a request
  config,          \* what it applies
  containersLeft,  \* Sync: containers still to be inspected
  at,              \* Sync: the container at hand, with its networks left
  routesLeft,      \* Resolve: containers still to be checked
  problems,        \* Resolve: its errors
  made,            \* history: memberships this process created
  lost,            \* history: joined networks DockFlare was thrown out of
  leftover,        \* history: networks joined or left without DockFlare knowing
  settled,         \* history: containers gone through, unchanged since
  reached,         \* history: containers that passed Resolve, unchanged since
  changes

othersVars == <<present, networks>>
dockerVars == <<othersVars, member>>
syncVars   == <<config, containersLeft, at, routesLeft, problems>>
pastVars   == <<made, lost, leftover, settled, reached>>
mainVars   == <<mainPc, leaves, tracking>>
vars == <<dockerVars, joined, mainVars, pc, caller, syncVars, pastVars, changes>>

Ended   == {"stopped", "failed", "killed"}
Serving == {"boot", "running", "cancelled"}
Reasons == {"unread", "absent", "unreachable", "port"}
Idle    == [list |-> {}, routes |-> {}, closed |-> {}]

TypeOK ==
  /\ present \in SUBSET Containers
  /\ networks \in [Containers -> SUBSET Nets]
  /\ member \in SUBSET Nets
  /\ tracking \in BOOLEAN /\ joined \in SUBSET Nets
  /\ mainPc \in Serving \union {"leaving"} \union Ended
  /\ leaves \in SUBSET joined /\ (mainPc # "leaving" => leaves = {})
  /\ pc \in {"idle", "containers", "routes"} /\ (mainPc \in Ended => pc = "idle")
  /\ caller \in {"main", "request"}
  /\ config \in Configs \union {Idle}
  /\ containersLeft \in SUBSET config.list
  /\ at \in [container : config.list, left : (SUBSET Nets) \ {{}}] \union {Nothing}
  /\ at # Nothing => pc = "containers" /\ tracking
  /\ routesLeft \in SUBSET config.routes
  /\ problems \in SUBSET [container : config.routes, why : Reasons]
  /\ made \in SUBSET Nets /\ lost \in SUBSET joined /\ leftover \in SUBSET Nets
  /\ settled \in SUBSET Containers /\ reached \in SUBSET Containers
  /\ changes \in 0..MaxChanges

Init ==
  /\ \E l \in Layouts : present = l.present /\ networks = l.networks
  /\ member = Home
  /\ tracking \in SelfKnown /\ joined = {}
  /\ mainPc = "boot" /\ leaves = {}
  /\ pc = "idle" /\ caller = "main" /\ config = Idle
  /\ containersLeft = {} /\ at = Nothing /\ routesLeft = {} /\ problems = {}
  /\ made = {} /\ lost = {} /\ leftover = {} /\ settled = {} /\ reached = {}
  /\ changes = 0

-----------------------------------------------------------------------------
(* Manager.Sync, from main or under r.mu.                                  *)

ReloadEnds ==
  /\ pc' = "idle" /\ caller' = "main" /\ config' = Idle
  /\ containersLeft' = {} /\ at' = Nothing /\ routesLeft' = {}
  /\ problems' = {}

\* The context of the calls is not cancelled.
Live == caller = "request" \/ mainPc \in {"boot", "running"}

\* Mutant: Sync starts over, so that a network created anew is joined again.
SyncBeginsAfresh(c, x) ==
  /\ pc = "idle"
  /\ \/ mainPc = "boot" /\ x = "main"
     \/ mainPc \in {"running", "cancelled", "leaving"}
  /\ pc' = "containers" /\ caller' = x
  /\ config' = c /\ containersLeft' = c.list /\ routesLeft' = c.routes
  /\ problems' = {}
  /\ joined' = {}
  /\ UNCHANGED <<dockerVars, mainVars, at, pastVars, changes>>

\* The startup reload is main's own; once it is over, the watcher's have
\* main's context and those of the web UI their request's.  Nothing waits
\* for them at shutdown.
SyncBegins(c, x) ==
  /\ pc = "idle"
  /\ \/ mainPc = "boot" /\ x = "main"
     \/ mainPc \in {"running", "cancelled", "leaving"}
  /\ pc' = "containers" /\ caller' = x
  /\ config' = c /\ containersLeft' = c.list /\ routesLeft' = c.routes
  /\ problems' = {}
  /\ UNCHANGED <<dockerVars, joined, mainVars, at, pastVars, changes>>

AtContainer(c) ==
  /\ pc = "containers" /\ at = Nothing /\ c \in containersLeft
  /\ containersLeft' = containersLeft \ {c}
  /\ UNCHANGED <<dockerVars, joined, mainVars, pc, caller, config, routesLeft,
                 problems, made, lost, leftover, reached, changes>>

Working(c, nets) ==
  IF nets = {} THEN Nothing ELSE [container |-> c, left |-> nets]

\* "inspecting container": the loop goes on with the next one.
ContainerUnread(c) ==
  /\ AtContainer(c)
  /\ UNCHANGED <<at, settled>>

ContainerAbsent(c) ==
  /\ AtContainer(c)
  /\ Live /\ c \notin present
  /\ UNCHANGED <<at, settled>>

ContainerInspected(c) ==
  /\ AtContainer(c)
  /\ Live /\ c \in present
  /\ at' = IF tracking THEN Working(c, networks[c]) ELSE Nothing
  /\ settled' = settled \union {c}

AtNetwork(n) ==
  /\ at # Nothing /\ n \in at.left
  /\ at' = Working(at.container, at.left \ {n})
  /\ UNCHANGED <<othersVars, mainVars, pc, caller, config, containersLeft,
                 routesLeft, problems, lost, reached, changes>>

\* Mutant: break where the loop says continue.
NetworkKnownEnds(n) ==
  /\ at # Nothing /\ n \in at.left
  /\ n \in joined
  /\ at' = Nothing
  /\ UNCHANGED <<dockerVars, joined, mainVars, pc, caller, config,
                 containersLeft, routesLeft, problems, pastVars, changes>>

\* alreadyJoined, by name.
NetworkKnown(n) ==
  /\ AtNetwork(n)
  /\ n \in joined
  /\ UNCHANGED <<member, joined, made, leftover, settled>>

\* The call takes effect; DockFlare may have been in the network before.
Connects(n) ==
  /\ member' = member \union {n}
  /\ made' = made \union ({n} \ member)

\* ConnectNetwork returns nil, for "already exists" too.  Nobody but this
\* reload adds to joinedNets, so that call and entry can be one step.
NetworkJoined(n) ==
  /\ AtNetwork(n)
  /\ Live /\ n \notin joined
  /\ Connects(n)
  /\ joined' = joined \union {n}
  /\ leftover' = IF mainPc = "leaving" THEN leftover \union {n}
                                       ELSE leftover \ {n}
  /\ UNCHANGED settled

\* Mutant: joinedNets is set before the call, and stays set if it fails.
NetworkFailsRemembered(n) ==
  /\ AtNetwork(n)
  /\ n \notin joined
  /\ joined' = joined \union {n}
  /\ settled' = settled \ {at.container}
  /\ UNCHANGED <<member, made, leftover>>

\* "connecting to Docker network": the next network is tried.
NetworkFails(n) ==
  /\ AtNetwork(n)
  /\ n \notin joined
  /\ settled' = settled \ {at.container}
  /\ UNCHANGED <<member, joined, made, leftover>>

\* Docker connects, but the answer is an error or late for the context.
NetworkAnswerLost(n) ==
  /\ AtNetwork(n)
  /\ n \notin joined
  /\ Connects(n)
  /\ leftover' = leftover \union {n}
  /\ settled' = settled \ {at.container}
  /\ UNCHANGED joined

SyncDone ==
  /\ pc = "containers" /\ at = Nothing /\ containersLeft = {}
  /\ pc' = "routes"
  /\ UNCHANGED <<dockerVars, joined, mainVars, caller, syncVars, pastVars, changes>>

-----------------------------------------------------------------------------
(* ingress.Resolve, which inspects the containers of the routes again.     *)

\* Mutant: a container without a network passes.
ProblemUnattachedPasses(c) ==
  IF c \notin present THEN {"absent"}
  ELSE IF tracking /\ networks[c] # {} /\ networks[c] \intersect joined = {}
         THEN {"unreachable"}
  ELSE IF c \in config.closed THEN {"port"}
  ELSE {}

\* What is wrong with the route: not found, checkReachable, checkPort.
Problem(c) ==
  IF c \notin present THEN {"absent"}
  ELSE IF tracking /\ networks[c] \intersect joined = {} THEN {"unreachable"}
  ELSE IF c \in config.closed THEN {"port"}
  ELSE {}

AtRoute(c) ==
  /\ pc = "routes" /\ c \in routesLeft
  /\ routesLeft' = routesLeft \ {c}
  /\ UNCHANGED <<dockerVars, joined, mainVars, pc, caller, config,
                 containersLeft, at, made, lost, leftover, settled, changes>>

RouteUnread(c) ==
  /\ AtRoute(c)
  /\ problems' = problems \union {[container |-> c, why |-> "unread"]}
  /\ UNCHANGED reached

RouteChecked(c) ==
  /\ AtRoute(c)
  /\ Live
  /\ problems' = problems \union {[container |-> c, why |-> w] : w \in Problem(c)}
  /\ reached' = IF Problem(c) = {} THEN reached \union {c} ELSE reached

\* Reload returns.  At startup a ValidationError is fatal, and so is a
\* cloudflared that cannot be started.
ReloadDone ==
  /\ pc = "routes" /\ routesLeft = {}
  /\ ReloadEnds
  /\ mainPc' \in IF mainPc # "boot" THEN {mainPc}
                 ELSE IF problems = {} THEN {"running", "failed"} ELSE {"failed"}
  /\ UNCHANGED <<dockerVars, joined, leaves, tracking, pastVars, changes>>

-----------------------------------------------------------------------------
(* main: the end of a process, and the next one.                           *)

\* A signal or CrashCh.
Cancel ==
  /\ mainPc = "running"
  /\ mainPc' = "cancelled"
  /\ UNCHANGED <<dockerVars, joined, leaves, tracking, pc, caller, syncVars,
                 pastVars, changes>>

\* Mutant: Disconnect asks Docker for the names.
DisconnectBeginsAll ==
  /\ mainPc = "cancelled"
  /\ mainPc' = "leaving"
  /\ leaves' = IF tracking THEN member ELSE {}
  /\ UNCHANGED <<dockerVars, joined, tracking, pc, caller, syncVars, pastVars,
                 changes>>

\* proc.Stop has returned; Disconnect copies the names.
DisconnectBegins ==
  /\ mainPc = "cancelled"
  /\ mainPc' = "leaving"
  /\ leaves' = IF tracking THEN joined ELSE {}
  /\ UNCHANGED <<dockerVars, joined, tracking, pc, caller, syncVars, pastVars,
                 changes>>

Leaving(n) ==
  /\ mainPc = "leaving" /\ n \in leaves
  /\ UNCHANGED <<othersVars, joined, mainPc, tracking, pc, caller, syncVars, lost,
                 settled, reached, changes>>

\* DisconnectNetwork returns nil, for "is not connected" too.
Leave(n) ==
  /\ Leaving(n)
  /\ leaves' = leaves \ {n}
  /\ member' = member \ {n} /\ made' = made \ {n}
  /\ UNCHANGED leftover

\* An error, or shutdownCtx is over: logged, and the next one is tried.
LeaveFails(n) ==
  /\ Leaving(n)
  /\ leaves' = leaves \ {n}
  /\ leftover' = leftover \union {n}
  /\ \/ UNCHANGED <<member, made>>
     \/ member' = member \ {n} /\ made' = made \ {n}

\* A reload in flight ends with its process.
Ends(how) ==
  /\ mainPc' = how /\ leaves' = {}
  /\ ReloadEnds
  /\ UNCHANGED <<dockerVars, joined, tracking, pastVars, changes>>

\* Mutant: main waits for the reload in flight.
ExitWaits ==
  /\ mainPc = "leaving" /\ leaves = {} /\ pc = "idle"
  /\ Ends("stopped")

Exit ==
  /\ mainPc = "leaving" /\ leaves = {}
  /\ Ends("stopped")

\* SIGKILL, or a signal before signal.Notify.
Killed ==
  /\ mainPc \notin Ended
  /\ Ends("killed")

\* The same container is started again, or compose created a new one.
Restarted ==
  /\ mainPc \in Ended
  /\ mainPc' = "boot"
  /\ member' \in {member, Home}
  /\ joined' = {} /\ made' = {} /\ lost' = {} /\ leftover' = {}
  /\ settled' = {} /\ reached' = {}
  /\ UNCHANGED <<othersVars, leaves, tracking, pc, caller, syncVars, changes>>

-----------------------------------------------------------------------------
(* What others do to containers and networks.                              *)

\* Stopped, started, removed, created again, moved to other networks.
ContainerChanges(c) ==
  /\ changes < MaxChanges
  /\ present' \in {present \union {c}, present \ {c}}
  /\ \E nets \in SUBSET Nets :
       networks' = [networks EXCEPT ![c] = nets]
  /\ settled' = settled \ {c} /\ reached' = reached \ {c}
  /\ changes' = changes + 1
  /\ UNCHANGED <<member, joined, mainVars, pc, caller, syncVars, made, lost,
                 leftover>>

\* n is removed and created anew, or DockFlare is disconnected by hand.
NetworkLost(n) ==
  /\ changes < MaxChanges /\ n \in member
  /\ member' = member \ {n} /\ made' = made \ {n}
  /\ lost' = lost \union ({n} \intersect joined)
  /\ changes' = changes + 1
  /\ UNCHANGED <<othersVars, joined, mainVars, pc, caller, syncVars, leftover,
                 settled, reached>>

-----------------------------------------------------------------------------
Reload ==
  \/ \E c \in Configs, x \in {"main", "request"} : SyncBegins(c, x)
  \/ \E c \in Containers :
       \/ ContainerUnread(c) \/ ContainerAbsent(c) \/ ContainerInspected(c)
       \/ RouteUnread(c) \/ RouteChecked(c)
  \/ \E n \in Nets :
       \/ NetworkKnown(n) \/ NetworkJoined(n)
       \/ NetworkFails(n) \/ NetworkAnswerLost(n)
  \/ SyncDone \/ ReloadDone

DisconnectGoesOn ==
  \/ \E n \in Nets : Leave(n) \/ LeaveFails(n)
  \/ Exit

Disconnect == DisconnectBegins \/ DisconnectGoesOn

Main == Cancel \/ Disconnect \/ Killed \/ Restarted

Others ==
  \/ \E c \in Containers : ContainerChanges(c)
  \/ \E n \in Nets : NetworkLost(n)

Next == Reload \/ Main \/ Others

\* Once Disconnect has its snapshot, each of its calls ends within the ten
\* seconds of shutdownCtx.  Nothing else is assumed to happen: Stop, which
\* comes before, may wait for ever (StopFinishes of Connector), and so may a
\* call of a reload, whose context need not have a deadline.
Spec == Init /\ [][Next]_vars /\ WF_vars(DisconnectGoesOn)

-----------------------------------------------------------------------------
\* What joinedNets claims is so, for every network nobody threw DockFlare out
\* of: a failed or unanswered ConnectNetwork never counts as joined, across
\* reloads, errors and restarts, until Disconnect begins.
JoinedIsTrue ==
  mainPc \in Serving => joined \ lost \subseteq member

Pending(c) == IF at # Nothing /\ at.container = c THEN at.left ELSE {}

\* DockFlare is in every network of a container that a Sync went through
\* without an error, whichever reload joined it and for whichever container,
\* unless it was thrown out or the container has changed since.
SyncConnects ==
  tracking /\ mainPc \in Serving =>
    \A c \in settled : networks[c] \ Pending(c) \subseteq member \union lost

\* A container whose routes Resolve accepted shares a network with DockFlare,
\* as long as the container is as it was and nobody threw DockFlare out.
AcceptedIsReachable ==
  tracking /\ mainPc \in Serving =>
    \A c \in reached : \E n \in networks[c] : n \in member \union lost

\* Networks are joined before routes are checked: no route of a container
\* that Sync went through and that has not changed since is called
\* unreachable, except if the container is in no network at all, nor absent.
NoFalseAlarm ==
  \A p \in problems :
    p.container \in settled =>
      /\ p.why = "unreachable" => networks[p.container] = {}
      /\ p.why # "absent"

\* A process that shuts down in order is in none of the networks it joined,
\* except those it could not know of or could not leave: a lost answer, an
\* error of Disconnect, a reload that joined after the snapshot.
ExitLeaves ==
  mainPc = "stopped" => (joined \union made) \intersect member \subseteq leftover

\* What DockFlare promises the owners of Docker networks, in every order of
\* reloads, lost calls, shutdown and restarts: see GuestNetworks.
Guest == INSTANCE GuestNetworks
           WITH phase    <- IF mainPc \in Serving THEN "serving"
                            ELSE IF mainPc = "leaving" THEN "leaving" ELSE "gone",
                list     <- config.list,
                invited  <- IF at = Nothing THEN {} ELSE at.left,
                mine     <- joined,
                byOthers <- changes

GuestSpec == Guest!Spec

\* Disconnect ends and main with it, whatever Docker answers, although a reload
\* may still hold r.mu, hang in a call for ever, or join further networks.
LeavingEnds == mainPc = "leaving" ~> mainPc \in {"stopped", "killed"}

=============================================================================
