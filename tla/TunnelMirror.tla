---------------------------- MODULE TunnelMirror ----------------------------
(***************************************************************************)
(* What DockFlare promises the owner of a tunnel's remote configuration.   *)
(*                                                                         *)
(* The configuration changes in two ways only.  Somebody edits it in the   *)
(* Zero Trust dashboard, or DockFlare publishes one whole configuration:   *)
(* it replaces the ingress by a complete list for the routes of one        *)
(* config.yml, keeps every setting that is not its own, and does not write *)
(* when nothing would change.                                              *)
(***************************************************************************)
EXTENDS IngressRules

CONSTANTS Configs,     \* the contents config.yml may have
          Ingresses,   \* lists somebody may save in the dashboard
          Origins,     \* originRequests somebody may give to a rule there
          Settings     \* values of the tunnel's warp-routing and originRequest

\* Validate and ValidateRoutes: no hostname is empty or used twice, and a web
\* UI is exposed only beside at least one route.
WellFormed(c) ==
  /\ c = [routes |-> c.routes, ui |-> c.ui]
  /\ c.routes = [i \in 1..Len(c.routes) |-> c.routes[i]]
  /\ Len(c.routes) \in Nat
  /\ c.routes = <<>> => c.ui = NoHostname
  /\ \A i \in 1..Len(c.routes) :
       LET r == c.routes[i]
       IN /\ r = [hostname |-> r.hostname, target |-> r.target, https |-> r.https]
          /\ r.hostname \notin {NoHostname, c.ui}
          /\ r.https \in BOOLEAN
          /\ \A j \in 1..Len(c.routes) : c.routes[j].hostname = r.hostname => i = j

ASSUME ConfigsAssumption == \A c \in Configs : WellFormed(c)

\* A list in the dashboard is a sequence of rules.
ASSUME IngressesAssumption ==
  \A list \in Ingresses :
    /\ Len(list) \in Nat
    /\ list = [i \in 1..Len(list) |->
                 [hostname |-> list[i].hostname, path |-> list[i].path,
                  service |-> list[i].service, origin |-> list[i].origin]]

VARIABLE remote        \* the tunnel's configuration: [ingress, settings]

InitialRemote == [ingress : Ingresses \union {<<>>}, settings : Settings]

\* A public hostname list saved in the dashboard.
DashboardSavesIngress(list) ==
  remote' = [remote EXCEPT !.ingress = list]

\* The advanced settings of one public hostname.
DashboardSetsOrigin(i, origin) ==
  remote' = [remote EXCEPT !.ingress[i].origin = origin]

DashboardSavesSettings(s) ==
  remote' = [remote EXCEPT !.settings = s]

DashboardEdits ==
  \/ \E list \in Ingresses : DashboardSavesIngress(list)
  \/ \E i \in DOMAIN remote.ingress, o \in Origins : DashboardSetsOrigin(i, o)
  \/ \E s \in Settings : DashboardSavesSettings(s)

Publish(cfg) ==
  /\ cfg.routes # <<>>
  /\ Serves(remote'.ingress, cfg)
  /\ KeepsForeignSettings(remote.ingress, remote'.ingress)
  /\ remote'.settings = remote.settings
  /\ ~SameRules(remote.ingress, remote'.ingress)

MirrorInit == remote \in InitialRemote

MirrorNext == DashboardEdits \/ \E cfg \in Configs : Publish(cfg)

MirrorSpec == MirrorInit /\ [][MirrorNext]_remote

=============================================================================
