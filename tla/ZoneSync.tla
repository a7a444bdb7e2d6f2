------------------------------ MODULE ZoneSync ------------------------------
(***************************************************************************)
(* What ingress.Manager does in the zones once the ingress is in place:    *)
(* ensureDNS creates the CNAMEs, syncRedirects the http->https rules.      *)
(* Each zone answers for itself: a call may be refused, its answer may be  *)
(* lost, the dashboard edits the same lists, and what DockFlare knows      *)
(* about the zones is lost with its process.                               *)
(***************************************************************************)
EXTENDS Integers, FiniteSets

CONSTANTS
  Hosts,        \* hostnames of the routes
  Zones,        \* zone IDs, numbers so that their sorted order is <
  Owns,         \* the pairs <<z, h>> where h is z's name or ends in .<name>
  NameLength,   \* per zone: the length of its name
  Configs,      \* what a configuration asks for: [dns, https]
  Theirs,       \* redirect rules of others, see SharedRules
  FirstClouds,  \* what the first process finds: [rulesets, records, account]
  OldRule,      \* a rule written by a DockFlare with another ruleVersion
  Nothing,      \* nil
  LostAnswers,  \* a write may be applied although DockFlare sees an error
  MaxEdits      \* bound: changes made in the dashboard

OwnRules == Hosts \union {OldRule}
Ruleset  == [theirs : Theirs, ours : SUBSET OwnRules, last : BOOLEAN]

\* What findDNSRecord finds: no record, one that is not a CNAME to a tunnel,
\* one to another tunnel or not proxied, or exactly the wanted one.
RecordKind == {"none", "foreign", "tunnel", "ours"}

ASSUME ZoneAssumption ==
  /\ Zones \subseteq Nat /\ IsFiniteSet(Zones)
  /\ NameLength \in [Zones -> Nat]
  /\ Configs \subseteq [dns : SUBSET Hosts, https : SUBSET Hosts]
  /\ FirstClouds \subseteq [rulesets : [Zones -> Ruleset],
                             records  : [Hosts -> RecordKind],
                             account  : SUBSET Zones]
  /\ Nothing \notin [zone : Zones, rules : Ruleset]
  /\ LostAnswers \in BOOLEAN
  /\ MaxEdits \in Nat

VARIABLES
  rulesets,        \* at Cloudflare, per zone: [theirs, ours, last]
  records,         \* at Cloudflare, per hostname: its DNS record
  account,         \* at Cloudflare: the zones of the account
  zones,           \* c.zones: the zones once listed, {} for nil
  redirectZones,   \* c.redirectZones
  redirectsInUse,  \* m.redirectsInUse
  dnsEnsured,      \* m.dnsEnsured
  pc,              \* where Sync is
  https,           \* hostnames with force_https in the Sync in progress
  hostsLeft,       \* ensureDNS: hostnames still to be looked at
  byZone,          \* SyncHTTPSRedirects: hostnames per zone
  zonesLeft,       \* SyncHTTPSRedirects: zones still to be visited
  found,           \* what the GET before a write returned, or Nothing
  failed, wrote,   \* zones with an error, whether "written" is not empty
  last,            \* history: the last syncRedirects that returned
  unseen,          \* history: zones whose own rules changed unseen
  inherited,       \* history: some zone was ever unseen with own rules
  moved,           \* history: hostnames whose record changed since it was read
  edits

cloudVars  == <<rulesets, records, account>>
memoryVars == <<zones, redirectZones, redirectsInUse, dnsEnsured>>
syncVars   == <<pc, https, hostsLeft, found>>
zoneVars   == <<byZone, zonesLeft, failed, wrote>>
pastVars   == <<last, unseen, inherited, moved>>
vars == <<cloudVars, memoryVars, syncVars, zoneVars, pastVars, edits>>

TypeOK ==
  /\ rulesets \in [Zones -> Ruleset]
  /\ records \in [Hosts -> RecordKind]
  /\ account \in SUBSET Zones /\ zones \in SUBSET account
  /\ redirectZones \in SUBSET Zones
  /\ redirectsInUse \in BOOLEAN
  /\ dnsEnsured \in SUBSET Hosts
  /\ pc \in {"idle", "dns", "record", "zones", "put"}
  /\ https \in SUBSET Hosts /\ hostsLeft \in SUBSET Hosts
  /\ pc = "record" => found \in [host : hostsLeft, kind : {"none", "tunnel"}]
  /\ pc = "put" => found \in [zone : zonesLeft, rules : Ruleset]
  /\ byZone \in [Zones -> SUBSET Hosts]
  /\ zonesLeft \in SUBSET Zones /\ failed \in SUBSET Zones
  /\ wrote \in BOOLEAN
  /\ last \in [want : [Zones -> SUBSET Hosts], failed : SUBSET Zones]
  /\ unseen \in SUBSET Zones /\ inherited \in BOOLEAN
  /\ moved \in SUBSET Hosts
  /\ edits \in 0..MaxEdits

NoHosts == [z \in Zones |-> {}]
\* Nothing is promised by a process that has not finished a Sync.
NoSync  == [want |-> NoHosts, failed |-> Zones]

Holding == {z \in Zones : rulesets[z].ours # {}}

\* A first process, in zones where an older version may have been at work.
Init ==
  /\ \E cloud \in FirstClouds :
       /\ rulesets = cloud.rulesets
       /\ records  = cloud.records
       /\ account  = cloud.account
  /\ zones = {} /\ redirectZones = {}
  /\ redirectsInUse = FALSE /\ dnsEnsured = {}
  /\ pc = "idle" /\ https = {}
  /\ hostsLeft = {}
  /\ byZone = NoHosts /\ zonesLeft = {} /\ failed = {} /\ wrote = FALSE
  /\ found = Nothing
  /\ last = NoSync
  /\ unseen = Holding /\ inherited = (Holding # {})
  /\ moved = {}
  /\ edits = 0

-----------------------------------------------------------------------------
(* zoneFor.                                                                *)

\* listZones asks once and keeps a list that is not empty.
Known == IF zones # {} THEN zones ELSE account

\* "Preferring the longest match": at most one zone.
ZoneFor(h) ==
  {z \in Known : /\ <<z, h>> \in Owns
                 /\ \A y \in Known : <<y, h>> \in Owns => NameLength[y] <= NameLength[z]}

\* Looking hostnames up may fail in the listing only.
ZonesListed == zones' = Known

-----------------------------------------------------------------------------
(* Sync after applyIngress: ensureDNS, one hostname after the other.       *)

SyncReaches(c) ==
  /\ pc = "idle"
  /\ pc' = "dns" /\ hostsLeft' = c.dns /\ https' = c.https
  /\ UNCHANGED <<cloudVars, memoryVars, found, zoneVars, pastVars, edits>>

\* The loop goes on, whatever came of this hostname.
HostDone(h) ==
  /\ hostsLeft' = hostsLeft \ {h}
  /\ pc' = "dns" /\ found' = Nothing
  /\ UNCHANGED <<https, zoneVars, redirectZones, redirectsInUse, last, unseen,
                 inherited>>

DnsCached(h) ==
  /\ pc = "dns" /\ h \in hostsLeft
  /\ h \in dnsEnsured
  /\ HostDone(h)
  /\ UNCHANGED <<cloudVars, zones, dnsEnsured, moved, edits>>

\* "DNS for %s: %v": the zones cannot be listed, no zone owns the hostname,
\* its record cannot be read.
DnsFails(h) ==
  /\ pc = "dns" /\ h \in hostsLeft \ dnsEnsured
  /\ HostDone(h)
  /\ ZonesListed \/ UNCHANGED zones
  /\ UNCHANGED <<cloudVars, dnsEnsured, moved, edits>>

\* EnsureTunnelCNAME when the record is there, or is not to be touched.
DnsSettled(h) ==
  /\ pc = "dns" /\ h \in hostsLeft \ dnsEnsured
  /\ ZoneFor(h) # {} /\ ZonesListed
  /\ \/ /\ records[h] = "ours"
        /\ dnsEnsured' = dnsEnsured \union {h}
     \/ records[h] = "foreign" /\ UNCHANGED dnsEnsured
  /\ moved' = moved \ {h}
  /\ HostDone(h)
  /\ UNCHANGED <<cloudVars, edits>>

\* Mutant: whatever record there is will be repointed.
DnsDecidesToRepoint(h) ==
  /\ pc = "dns" /\ h \in hostsLeft \ dnsEnsured
  /\ ZoneFor(h) # {} /\ ZonesListed
  /\ pc' = "record"
  /\ found' = [host |-> h, kind |-> IF records[h] = "none" THEN "none" ELSE "tunnel"]
  /\ moved' = moved \ {h}
  /\ UNCHANGED <<cloudVars, https, hostsLeft, zoneVars, redirectZones,
                 redirectsInUse, dnsEnsured, last, unseen, inherited, edits>>

DnsDecides(h) ==
  /\ pc = "dns" /\ h \in hostsLeft \ dnsEnsured
  /\ ZoneFor(h) # {} /\ ZonesListed
  /\ records[h] \in {"none", "tunnel"}
  /\ pc' = "record" /\ found' = [host |-> h, kind |-> records[h]]
  /\ moved' = moved \ {h}
  /\ UNCHANGED <<cloudVars, https, hostsLeft, zoneVars, redirectZones,
                 redirectsInUse, dnsEnsured, last, unseen, inherited, edits>>

\* The POST creates a record where there is none, the PATCH changes the one
\* that was found, whatever it has become meanwhile.
RecordApplies ==
  /\ (records[found.host] = "none") <=> (found.kind = "none")
  /\ records' = [records EXCEPT ![found.host] = "ours"]
  /\ UNCHANGED <<rulesets, account>>

RecordWritten ==
  /\ pc = "record"
  /\ RecordApplies
  /\ dnsEnsured' = dnsEnsured \union {found.host}
  /\ moved' = moved \ {found.host}
  /\ HostDone(found.host)
  /\ UNCHANGED <<zones, edits>>

\* Mutant: the cache is filled before the error of the write is looked at.
RecordFailsRemembered ==
  /\ pc = "record"
  /\ UNCHANGED cloudVars \/ (LostAnswers /\ RecordApplies)
  /\ dnsEnsured' = dnsEnsured \union {found.host}
  /\ HostDone(found.host)
  /\ UNCHANGED <<zones, moved, edits>>

\* The write is refused, or applied without an answer.
RecordFails ==
  /\ pc = "record"
  /\ UNCHANGED cloudVars \/ (LostAnswers /\ RecordApplies)
  /\ HostDone(found.host)
  /\ UNCHANGED <<zones, dnsEnsured, moved, edits>>

DnsStep ==
  \/ \E h \in hostsLeft :
       DnsCached(h) \/ DnsFails(h) \/ DnsSettled(h) \/ DnsDecides(h)
  \/ RecordWritten \/ RecordFails

-----------------------------------------------------------------------------
(* syncRedirects and SyncHTTPSRedirects, zone after zone.                  *)

Returns(want, bad) ==
  /\ pc' = "idle" /\ https' = {} /\ found' = Nothing
  /\ byZone' = NoHosts /\ failed' = {} /\ wrote' = FALSE
  /\ last' = [want |-> want, failed |-> bad]
  /\ UNCHANGED <<cloudVars, redirectZones, dnsEnsured, hostsLeft, zonesLeft,
                 unseen, moved, edits>>

\* "Never used and still not used: make no call at all."
RedirectsSkipped ==
  /\ pc = "dns" /\ hostsLeft = {}
  /\ https = {} /\ ~redirectsInUse
  /\ Returns(NoHosts, {})
  /\ UNCHANGED <<zones, redirectsInUse, inherited>>

\* The zones cannot be listed, or one hostname is in none of them: no zone is
\* visited, not even the others.
RedirectsUnzoned ==
  /\ pc = "dns" /\ hostsLeft = {}
  /\ https # {}
  /\ \/ zones = {} /\ UNCHANGED zones
     \/ (\E h \in https : ZoneFor(h) = {}) /\ ZonesListed
  /\ Returns(NoHosts, Zones)
  /\ UNCHANGED <<redirectsInUse, inherited>>

\* Mutant: only the zones that have hostnames are visited.
RedirectsGroupedOnly ==
  /\ pc = "dns" /\ hostsLeft = {}
  /\ https # {} \/ redirectsInUse
  /\ \A h \in https : ZoneFor(h) # {}
  /\ IF https = {} THEN UNCHANGED zones ELSE ZonesListed
  /\ byZone' = [z \in Zones |-> {h \in https : z \in ZoneFor(h)}]
  /\ zonesLeft' = {z \in Zones : byZone'[z] # {}}
  /\ pc' = "zones"
  /\ UNCHANGED <<cloudVars, redirectZones, redirectsInUse, dnsEnsured, https,
                 hostsLeft, found, failed, wrote, pastVars, edits>>

\* The hostnames by zone, and the zones "we wrote to before".
RedirectsGrouped ==
  /\ pc = "dns" /\ hostsLeft = {}
  /\ https # {} \/ redirectsInUse
  /\ \A h \in https : ZoneFor(h) # {}
  /\ IF https = {} THEN UNCHANGED zones ELSE ZonesListed
  /\ byZone' = [z \in Zones |-> {h \in https : z \in ZoneFor(h)}]
  /\ zonesLeft' = {z \in Zones : byZone'[z] # {}} \union redirectZones
  /\ pc' = "zones"
  /\ UNCHANGED <<cloudVars, redirectZones, redirectsInUse, dnsEnsured, https,
                 hostsLeft, found, failed, wrote, pastVars, edits>>

\* The next zone in sorted order.
AtZone(z) == pc = "zones" /\ z \in zonesLeft /\ \A y \in zonesLeft : z <= y

\* A zone without an error is revisited as long as it has hostnames.
ZoneDone(z) ==
  /\ pc' = "zones" /\ found' = Nothing
  /\ zonesLeft' = zonesLeft \ {z}
  /\ redirectZones' = IF byZone[z] # {} THEN redirectZones \union {z}
                                        ELSE redirectZones \ {z}
  /\ unseen' = unseen \ {z}
  /\ UNCHANGED <<records, account, zones, redirectsInUse, dnsEnsured, https,
                 hostsLeft, byZone, failed, last, inherited, moved, edits>>

\* A zone with an error stays as it is in redirectZones; the others go on.
ZoneFailed(z) ==
  /\ pc' = "zones" /\ found' = Nothing
  /\ zonesLeft' = zonesLeft \ {z}
  /\ failed' = failed \union {z}
  /\ UNCHANGED <<records, account, memoryVars, https, hostsLeft, byZone, wrote,
                 last, moved, edits>>

\* Only the descriptions of DockFlare's own rules are compared.
ZoneMatches(z) ==
  /\ AtZone(z)
  /\ rulesets[z].ours = byZone[z]
  /\ ZoneDone(z)
  /\ UNCHANGED <<rulesets, wrote>>

\* Mutant: the zone is struck off the list before its PUT.
ZoneDiffersStruckOff(z) ==
  /\ AtZone(z)
  /\ rulesets[z].ours # byZone[z]
  /\ pc' = "put" /\ found' = [zone |-> z, rules |-> rulesets[z]]
  /\ zonesLeft' = zonesLeft \ {z}
  /\ UNCHANGED <<cloudVars, memoryVars, https, hostsLeft, byZone, failed, wrote,
                 pastVars, edits>>

\* Mutant: the zone is written without a look at whether it differs.
ZoneDiffersOrNot(z) ==
  /\ AtZone(z)
  /\ pc' = "put" /\ found' = [zone |-> z, rules |-> rulesets[z]]
  /\ UNCHANGED <<cloudVars, memoryVars, https, hostsLeft, zoneVars, pastVars,
                 edits>>

ZoneDiffers(z) ==
  /\ AtZone(z)
  /\ rulesets[z].ours # byZone[z]
  /\ pc' = "put" /\ found' = [zone |-> z, rules |-> rulesets[z]]
  /\ UNCHANGED <<cloudVars, memoryVars, https, hostsLeft, zoneVars, pastVars,
                 edits>>

\* The GET is refused, or a rule in the answer is no JSON object.
ZoneUnreadable(z) ==
  /\ AtZone(z)
  /\ ZoneFailed(z)
  /\ UNCHANGED <<rulesets, unseen, inherited>>

\* Mutant: the rules of others are not written back.
PutDropsTheirs ==
  \E t \in Theirs :
    rulesets' = [rulesets EXCEPT ![found.zone] =
                   [theirs |-> t, ours |-> byZone[found.zone], last |-> TRUE]]

\* The list that was read without DockFlare's rules, and the wanted ones last.
PutApplies ==
  rulesets' = [rulesets EXCEPT ![found.zone] =
                 [theirs |-> found.rules.theirs,
                  ours   |-> byZone[found.zone], last |-> TRUE]]

PutSucceeds ==
  /\ pc = "put"
  /\ PutApplies
  /\ ZoneDone(found.zone)
  /\ wrote' = TRUE

PutFails ==
  /\ pc = "put"
  /\ ZoneFailed(found.zone)
  /\ UNCHANGED <<rulesets, unseen, inherited>>

\* "A failed PUT wrote nothing" is not certain.
PutAnswerLost ==
  /\ pc = "put" /\ LostAnswers
  /\ PutApplies
  /\ ZoneFailed(found.zone)
  /\ unseen' = unseen \union {found.zone} /\ inherited' = TRUE

\* Mutant: after an error only an empty "written" leaves the switch alone.
SwitchOnErrorOnly == IF failed = {} THEN https # {} ELSE redirectsInUse

\* The switch at the end of syncRedirects.
Switch ==
  IF failed = {} THEN https # {}
  ELSE IF wrote THEN TRUE
  ELSE redirectsInUse

RedirectsDone ==
  /\ pc = "zones" /\ zonesLeft = {}
  /\ redirectsInUse' = Switch
  /\ inherited' = IF failed = {} THEN unseen # {} ELSE inherited
  /\ Returns(byZone, failed)
  /\ UNCHANGED zones

RedirectStep ==
  \/ RedirectsSkipped \/ RedirectsUnzoned \/ RedirectsGrouped
  \/ \E z \in zonesLeft : ZoneMatches(z) \/ ZoneDiffers(z) \/ ZoneUnreadable(z)
  \/ PutSucceeds \/ PutFails \/ PutAnswerLost
  \/ RedirectsDone

-----------------------------------------------------------------------------
(* The process and everybody else.                                         *)

\* Everything DockFlare knows about the zones is in memory.
Restart ==
  /\ zones' = {} /\ redirectZones' = {}
  /\ redirectsInUse' = FALSE /\ dnsEnsured' = {}
  /\ pc' = "idle" /\ https' = {} /\ hostsLeft' = {} /\ found' = Nothing
  /\ byZone' = NoHosts /\ zonesLeft' = {} /\ failed' = {} /\ wrote' = FALSE
  /\ last' = NoSync
  /\ unseen' = unseen \union Holding
  /\ inherited' = (unseen' # {})
  /\ UNCHANGED <<cloudVars, moved, edits>>

Edited == edits < MaxEdits /\ edits' = edits + 1

\* Somebody changes rules of their own, the order, or removes DockFlare's.
RulesEdited(z) ==
  /\ Edited
  /\ \E r \in Ruleset :
       /\ r # rulesets[z]
       /\ r.ours \in {rulesets[z].ours, {}}
       /\ r.ours = {} => r.last
       /\ rulesets' = [rulesets EXCEPT ![z] = r]
       /\ unseen' = IF r.ours = rulesets[z].ours THEN unseen ELSE unseen \union {z}
  /\ UNCHANGED <<records, account, memoryVars, syncVars, zoneVars, last,
                 inherited, moved>>

RecordEdited(h) ==
  /\ Edited
  /\ \E c \in Configs : h \in c.dns
  /\ \E k \in RecordKind \ {records[h], "ours"} : records' = [records EXCEPT ![h] = k]
  /\ moved' = moved \union {h}
  /\ UNCHANGED <<rulesets, account, memoryVars, syncVars, zoneVars, last, unseen,
                 inherited>>

ZoneAdded(z) ==
  /\ Edited
  /\ z \notin account
  /\ account' = account \union {z}
  /\ UNCHANGED <<rulesets, records, memoryVars, syncVars, zoneVars, pastVars>>

Dashboard ==
  \/ \E z \in Zones : RulesEdited(z) \/ ZoneAdded(z)
  \/ \E h \in Hosts : RecordEdited(h)

Next ==
  \/ \E c \in Configs : SyncReaches(c)
  \/ DnsStep \/ RedirectStep
  \/ Restart
  \/ Dashboard

Spec == Init /\ [][Next]_vars

-----------------------------------------------------------------------------
(* Properties.                                                             *)

Shared == INSTANCE SharedRules WITH
            seen <- IF pc = "put" THEN found ELSE Nothing

\* Rules of others survive every write in the order in which they were read,
\* and DockFlare's come last (redirect.go): ZoneSync implements SharedRules.
SharedSpec == Shared!SharedSpec

\* "Makes exactly the given hostnames redirect [...] and removes DockFlare's
\* rules for hostnames no longer listed" (SyncHTTPSRedirects), in every zone
\* that reported no error, whatever happened in the others and before.  Only
\* where the own rules changed unseen, by a removal in the dashboard, before a
\* restart, by a PUT whose answer was lost, may they be others; and a zone no
\* hostname is left in may have been missed since such a change.
RedirectsMatch ==
  pc = "idle" => \A z \in Zones \ (last.failed \union unseen) :
    \/ rulesets[z].ours = last.want[z]
    \/ inherited /\ last.want[z] = {}

\* "An empty slice means everything already matched" (SyncHTTPSRedirects): a
\* zone that matched is not written again as long as the configuration asks the
\* same of it, whatever others add, reorder or have failed there meanwhile.
MatchedIsLeftAlone ==
  [][pc = "zones" /\ pc' = "put" =>
       LET z == found'.zone
       IN \/ byZone[z] # last.want[z]
          \/ z \in last.failed \union unseen
          \/ inherited /\ last.want[z] = {}]_vars

\* "Still allowing the last hostname to be removed and cleaned up" (Manager):
\* also when a zone that failed before is the only other one.
RemovedAreCleanedUp ==
  pc = "idle" => \A z \in Zones \ (last.failed \union unseen) :
    rulesets[z].ours = last.want[z]

\* A hostname whose CNAME counts as verified has it (dnsEnsured), unless
\* somebody changed the record since.
EnsuredPointsHere ==
  \A h \in dnsEnsured \ moved : records[h] = "ours"

\* "Silently repointing someone's A record at our tunnel would be the wrong
\* kind of automatic" (EnsureTunnelCNAME): a record that points to no tunnel is
\* overwritten only if it became one after it was read.
NeverRepoints ==
  [][\A h \in Hosts :
       records[h] = "foreign" /\ records'[h] = "ours" => h \in moved]_vars

=============================================================================
