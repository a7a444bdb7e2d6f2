---------------------------- MODULE IngressRules ----------------------------
(***************************************************************************)
(* The pure functions of package ingress on lists of ingress rules:        *)
(* BuildIngress, WithUIRule, CarryOverOriginRequests and SameRules.        *)
(*                                                                         *)
(* A rule is [hostname, path, service, origin].  Its origin is the empty   *)
(* set when originRequest is absent; otherwise it holds one decoded        *)
(* object, a function from the keys of the JSON object to their values.    *)
(* A configuration is [routes, ui], the ui being the hostname of an        *)
(* exposed web UI or NoHostname; a route is [hostname, target, https], the *)
(* target being its container and port.                                    *)
(***************************************************************************)
EXTENDS Integers, Sequences

CONSTANTS NoHostname,  \* the empty hostname, and the UI that is not exposed
          NoPath       \* the empty path

\* noTLSVerifyKey, "the only originRequest key DockFlare owns"
NoTLSVerify == "noTLSVerify"

\* catchAllService and the origin of the web UI's own rule
CatchAllService == <<"http_status:404">>
UIService       == <<"http", "localhost", "port">>

Absent == {}

\* decodeOriginRequest: absent, null and {} are the empty object.
Decode(origin) ==
  IF origin = Absent THEN [k \in {} |-> k] ELSE CHOOSE o \in origin : TRUE

SetKey(origin, key, value) ==
  {[k \in DOMAIN Decode(origin) \union {key} |->
      IF k = key THEN value ELSE Decode(origin)[k]]}

\* mustDeleteOriginKey returns nil for the object that becomes empty.
DeleteKey(origin, key) ==
  IF DOMAIN Decode(origin) \subseteq {key} THEN Absent
  ELSE {[k \in DOMAIN Decode(origin) \ {key} |-> Decode(origin)[k]]}

Rule(hostname, service, origin) ==
  [hostname |-> hostname, path |-> NoPath, service |-> service, origin |-> origin]

CatchAll == Rule(NoHostname, CatchAllService, Absent)

ServiceURL(route) == <<IF route.https THEN "https" ELSE "http", route.target>>

RouteRule(route) ==
  Rule(route.hostname, ServiceURL(route),
       IF route.https THEN SetKey(Absent, NoTLSVerify, TRUE) ELSE Absent)

\* Mutant: the rule that terminates the list is forgotten.
BuildIngressOpen(routes) == [i \in 1..Len(routes) |-> RouteRule(routes[i])]

BuildIngress(routes) ==
  [i \in 1..Len(routes) + 1 |->
     IF i <= Len(routes) THEN RouteRule(routes[i]) ELSE CatchAll]

\* The UI goes just before the last rule.
WithUIRule(rules, hostname) ==
  IF hostname = NoHostname \/ rules = <<>> THEN rules
  ELSE [i \in 1..Len(rules) + 1 |->
          CASE i < Len(rules) -> rules[i]
            [] i = Len(rules) -> Rule(hostname, UIService, Absent)
            [] i > Len(rules) -> rules[Len(rules)]]

\* What Manager.Sync wants the tunnel to have.
Desired(cfg) == WithUIRule(BuildIngress(cfg.routes), cfg.ui)

\* byHostname keeps the last originRequest that is present of each hostname.
Carriers(remote, hostname) ==
  {j \in DOMAIN remote : /\ remote[j].hostname = hostname
                         /\ remote[j].origin # Absent}

Base(remote, hostname) ==
  remote[CHOOSE j \in Carriers(remote, hostname) :
           \A k \in Carriers(remote, hostname) : k <= j].origin

\* "Ours wins on the key we own; theirs survives on every other key."
MergedOrigin(origin, base) ==
  IF NoTLSVerify \in DOMAIN Decode(origin)
  THEN SetKey(base, NoTLSVerify, TRUE)
  ELSE DeleteKey(base, NoTLSVerify)

\* Mutant: the originRequests of the remote rules are not carried over.
CarryNothingOver(desired, remote) == desired

CarryOverOriginRequests(desired, remote) ==
  [i \in DOMAIN desired |->
     IF Carriers(remote, desired[i].hostname) = {} THEN desired[i]
     ELSE [desired[i] EXCEPT !.origin =
             MergedOrigin(@, Base(remote, desired[i].hostname))]]

SameRule(a, b) ==
  /\ a.hostname = b.hostname
  /\ a.path = b.path
  /\ a.service = b.service
  /\ Decode(a.origin) = Decode(b.origin)

SameRules(a, b) ==
  /\ DOMAIN a = DOMAIN b
  /\ \A i \in DOMAIN a : SameRule(a[i], b[i])

-----------------------------------------------------------------------------
(* What a published list has to be, however it is built: BuildIngress,     *)
(* WithUIRule and CarryOverOriginRequests do not occur below.  How a       *)
(* single originRequest is read (Decode, DeleteKey, Carriers, Base) does.  *)

SkipsVerification(rule) ==
  /\ NoTLSVerify \in DOMAIN Decode(rule.origin)
  /\ Decode(rule.origin)[NoTLSVerify] = TRUE

RouteCount(cfg)     == Len(cfg.routes)
PublishedCount(cfg) == IF cfg.ui = NoHostname THEN Len(cfg.routes)
                       ELSE Len(cfg.routes) + 1

\* The list routes the hostnames of cfg in the order of config.yml, then the
\* web UI, then answers 404 to everything else, and it skips the verification
\* of the origin's certificate where and only where the origin speaks https.
Serves(list, cfg) ==
  /\ DOMAIN list = 1..PublishedCount(cfg) + 1
  /\ \A i \in DOMAIN list : list[i].path = NoPath
  /\ \A i \in 1..RouteCount(cfg) :
       /\ list[i].hostname = cfg.routes[i].hostname
       /\ list[i].service = ServiceURL(cfg.routes[i])
       /\ SkipsVerification(list[i]) <=> cfg.routes[i].https
  /\ cfg.ui # NoHostname =>
       /\ list[PublishedCount(cfg)].hostname = cfg.ui
       /\ list[PublishedCount(cfg)].service = UIService
  /\ list[PublishedCount(cfg) + 1].hostname = NoHostname
  /\ list[PublishedCount(cfg) + 1].service = CatchAllService

\* The settings of a hostname that are not DockFlare's.  Of several rules for
\* one hostname the last that has settings counts.
ForeignSettings(list, hostname) ==
  IF Carriers(list, hostname) = {} THEN Decode(Absent)
  ELSE Decode(DeleteKey(Base(list, hostname), NoTLSVerify))

\* Every hostname served before and after keeps those settings.
KeepsForeignSettings(before, after) ==
  \A j \in DOMAIN after :
    (\E i \in DOMAIN before : before[i].hostname = after[j].hostname) =>
      ForeignSettings(after, after[j].hostname)
        = ForeignSettings(before, after[j].hostname)

=============================================================================
