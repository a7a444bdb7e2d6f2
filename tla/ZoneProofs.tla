----------------------------- MODULE ZoneProofs -----------------------------
(***************************************************************************)
(* What holds of ZoneSync for any number of zones and hostnames: types,    *)
(* the refinement of SharedRules, the CNAMEs, and where the redirect rules *)
(* match, and that no zone in line with its configuration is written.      *)
(***************************************************************************)
EXTENDS ZoneSync, TLAPS

-----------------------------------------------------------------------------
(* Types.                                                                  *)

LEMMA TypeInit == Init => TypeOK
<1> SUFFICES ASSUME Init
             PROVE  TypeOK
  OBVIOUS
<1>1. PICK cloud \in FirstClouds : /\ rulesets = cloud.rulesets
                                  /\ records  = cloud.records
                                  /\ account  = cloud.account
  BY DEF Init
<1>2. /\ rulesets \in [Zones -> Ruleset]
      /\ records \in [Hosts -> RecordKind]
      /\ account \in SUBSET Zones
  BY <1>1, ZoneAssumption
<1>3. NoHosts \in [Zones -> SUBSET Hosts]
  BY DEF NoHosts
<1>4. /\ unseen \in SUBSET Zones /\ inherited \in BOOLEAN
      /\ edits \in 0..MaxEdits
  BY ZoneAssumption DEF Init, Holding
<1> QED
  BY <1>2, <1>3, <1>4 DEF Init, TypeOK, NoSync

LEMMA ZoneForKnown ==
  ASSUME TypeOK, NEW h
  PROVE  /\ Known \in SUBSET account
         /\ ZoneFor(h) \subseteq Zones
BY DEF TypeOK, Known, ZoneFor

\* ensureDNS.
LEMMA TypeDns ==
  ASSUME TypeOK, DnsStep
  PROVE  TypeOK'
<1> USE DEF TypeOK, cloudVars
<1>1. ASSUME NEW h \in hostsLeft, DnsCached(h)
      PROVE  TypeOK'
  BY <1>1 DEF DnsCached, HostDone, zoneVars
<1>2. ASSUME NEW h \in hostsLeft, DnsFails(h)
      PROVE  TypeOK'
  BY <1>2, ZoneForKnown DEF DnsFails, HostDone, zoneVars, ZonesListed
<1>3. ASSUME NEW h \in hostsLeft, DnsSettled(h)
      PROVE  TypeOK'
  BY <1>3, ZoneForKnown DEF DnsSettled, HostDone, zoneVars, ZonesListed
<1>4. ASSUME NEW h \in hostsLeft, DnsDecides(h)
      PROVE  TypeOK'
  BY <1>4, ZoneForKnown DEF DnsDecides, zoneVars, ZonesListed
<1>5. CASE RecordWritten
  BY <1>5 DEF RecordWritten, RecordApplies, HostDone, zoneVars, RecordKind
<1>6. CASE RecordFails
  BY <1>6 DEF RecordFails, RecordApplies, HostDone, zoneVars, RecordKind
<1> QED
  BY <1>1, <1>2, <1>3, <1>4, <1>5, <1>6 DEF DnsStep

\* syncRedirects before the first zone.
LEMMA TypeGrouping ==
  ASSUME TypeOK, RedirectsSkipped \/ RedirectsUnzoned \/ RedirectsGrouped
  PROVE  TypeOK'
<1> USE DEF TypeOK, cloudVars
<1>1. CASE RedirectsSkipped
  BY <1>1 DEF RedirectsSkipped, Returns, NoHosts
<1>2. CASE RedirectsUnzoned
  BY <1>2, ZoneForKnown DEF RedirectsUnzoned, Returns, NoHosts, ZonesListed
<1>3. CASE RedirectsGrouped
  BY <1>3, ZoneForKnown DEF RedirectsGrouped, ZonesListed, pastVars
<1> QED
  BY <1>1, <1>2, <1>3

\* One zone of SyncHTTPSRedirects.
LEMMA TypeZone ==
  ASSUME TypeOK,
         \/ \E z \in zonesLeft : ZoneMatches(z) \/ ZoneDiffers(z) \/ ZoneUnreadable(z)
         \/ PutSucceeds \/ PutFails \/ PutAnswerLost
  PROVE  TypeOK'
<1> USE DEF TypeOK
<1>1. ASSUME NEW z \in zonesLeft, ZoneMatches(z)
      PROVE  TypeOK'
  BY <1>1 DEF ZoneMatches, AtZone, ZoneDone
<1>2. ASSUME NEW z \in zonesLeft, ZoneDiffers(z)
      PROVE  TypeOK'
  BY <1>2 DEF ZoneDiffers, AtZone, cloudVars, memoryVars, zoneVars, pastVars
<1>3. ASSUME NEW z \in zonesLeft, ZoneUnreadable(z)
      PROVE  TypeOK'
  BY <1>3 DEF ZoneUnreadable, AtZone, ZoneFailed, memoryVars
<1>4. CASE PutSucceeds
  BY <1>4 DEF PutSucceeds, PutApplies, ZoneDone, Ruleset, OwnRules
<1>5. CASE PutFails
  BY <1>5 DEF PutFails, ZoneFailed, memoryVars
<1>6. CASE PutAnswerLost
  <2>1. found.zone \in zonesLeft /\ found.rules.theirs \in Theirs
    BY <1>6 DEF PutAnswerLost, Ruleset
  <2>2. rulesets' \in [Zones -> Ruleset]
    BY <1>6, <2>1 DEF PutAnswerLost, PutApplies, Ruleset, OwnRules
  <2> QED
    BY <1>6, <2>1, <2>2 DEF PutAnswerLost, ZoneFailed, memoryVars
<1> QED
  BY <1>1, <1>2, <1>3, <1>4, <1>5, <1>6

LEMMA TypeStep == TypeOK /\ [Next]_vars => TypeOK'
<1> SUFFICES ASSUME TypeOK, [Next]_vars
             PROVE  TypeOK'
  OBVIOUS
<1>1. ASSUME NEW c \in Configs, SyncReaches(c)
      PROVE  TypeOK'
  BY <1>1, ZoneAssumption DEF TypeOK, SyncReaches, cloudVars, memoryVars, zoneVars, pastVars
<1>2. CASE DnsStep
  BY <1>2, TypeDns
<1>3. CASE RedirectStep
  <2>1. CASE RedirectsDone
    BY <2>1 DEF TypeOK, RedirectsDone, Switch, Returns, NoHosts, cloudVars
  <2> QED
    BY <1>3, <2>1, TypeGrouping, TypeZone DEF RedirectStep
<1>4. CASE Restart
  BY <1>4 DEF TypeOK, Restart, NoHosts, NoSync, Holding, cloudVars
<1>5. CASE Dashboard
  <2>1. /\ UNCHANGED <<memoryVars, syncVars, zoneVars, last, inherited>>
        /\ Edited
    BY <1>5 DEF Dashboard, RulesEdited, ZoneAdded, RecordEdited, pastVars
  <2>2. edits' \in 0..MaxEdits
    BY <2>1, ZoneAssumption DEF Edited, TypeOK
  <2>3. rulesets' \in [Zones -> Ruleset] /\ unseen' \in SUBSET Zones
    BY <1>5 DEF Dashboard, RulesEdited, ZoneAdded, RecordEdited, pastVars, TypeOK
  <2>4. records' \in [Hosts -> RecordKind] /\ moved' \in SUBSET Hosts
    BY <1>5 DEF Dashboard, RulesEdited, ZoneAdded, RecordEdited, pastVars, TypeOK
  <2>5. account' \in SUBSET Zones /\ account \subseteq account'
    BY <1>5 DEF Dashboard, RulesEdited, ZoneAdded, RecordEdited, TypeOK
  <2> QED
    BY <2>1, <2>2, <2>3, <2>4, <2>5 DEF TypeOK, memoryVars, syncVars, zoneVars
<1>6. CASE UNCHANGED vars
  BY <1>6 DEF TypeOK, vars, cloudVars, memoryVars, syncVars, zoneVars, pastVars
<1> QED
  BY <1>1, <1>2, <1>3, <1>4, <1>5, <1>6 DEF Next

\* TypeOK is inductive as it stands.
THEOREM ZoneTypes == Spec => []TypeOK
BY TypeInit, TypeStep, PTL DEF Spec

-----------------------------------------------------------------------------
(* The refinement of SharedRules.                                          *)

SeenBy == IF pc = "put" THEN found ELSE Nothing

\* A step that changes neither a ruleset nor what a write is about to replace.
LEMMA SharedStutter ==
  ASSUME rulesets' = rulesets, SeenBy' = SeenBy
  PROVE  [Shared!SharedNext]_<<rulesets, SeenBy>>
OBVIOUS

LEMMA SharedPublish ==
  ASSUME TypeOK, pc = "put", pc' = "zones", PutApplies
  PROVE  Shared!Publish
<1>1. SeenBy = found /\ SeenBy' = Nothing
  BY DEF SeenBy
<1>2. found # Nothing
  BY ZoneAssumption DEF TypeOK
<1>3. byZone[found.zone] \in SUBSET OwnRules
  BY DEF TypeOK, OwnRules
<1> QED
  BY <1>1, <1>2, <1>3 DEF Shared!Publish, PutApplies, SeenBy

LEMMA SharedZone ==
  ASSUME TypeOK,
         \/ \E z \in zonesLeft : ZoneMatches(z) \/ ZoneDiffers(z) \/ ZoneUnreadable(z)
         \/ PutSucceeds \/ PutFails \/ PutAnswerLost
  PROVE  [Shared!SharedNext]_<<rulesets, SeenBy>>
<1>1. ASSUME NEW z \in zonesLeft, ZoneMatches(z) \/ ZoneUnreadable(z)
      PROVE  UNCHANGED <<rulesets, SeenBy>>
  BY <1>1 DEF ZoneMatches, ZoneUnreadable, ZoneDone, ZoneFailed, AtZone, SeenBy
<1>2. ASSUME NEW z \in zonesLeft, ZoneDiffers(z)
      PROVE  Shared!Look(z) /\ z \in Zones
  BY <1>2 DEF TypeOK, ZoneDiffers, AtZone, Shared!Look, SeenBy, cloudVars
<1>3. CASE PutSucceeds \/ PutAnswerLost
  <2>1. pc = "put" /\ pc' = "zones" /\ PutApplies
    BY <1>3 DEF PutSucceeds, PutAnswerLost, ZoneDone, ZoneFailed
  <2> QED
    BY <2>1, SharedPublish DEF Shared!SharedNext
<1>4. CASE PutFails
  <2>1. Shared!GiveUp
    BY <1>4 DEF PutFails, ZoneFailed, Shared!GiveUp, SeenBy
  <2> QED
    BY <2>1 DEF Shared!SharedNext
<1> QED
  BY <1>1, <1>2, <1>3, <1>4 DEF Shared!SharedNext

LEMMA SharedStep ==
  TypeOK /\ TypeOK' /\ [Next]_vars => [Shared!SharedNext]_<<rulesets, SeenBy>>
<1> SUFFICES ASSUME TypeOK, TypeOK', [Next]_vars
             PROVE  [Shared!SharedNext]_<<rulesets, SeenBy>>
  OBVIOUS
<1>1. ASSUME NEW c \in Configs, SyncReaches(c)
      PROVE  UNCHANGED <<rulesets, SeenBy>>
  BY <1>1 DEF SyncReaches, cloudVars, SeenBy
<1>2. CASE DnsStep
  <2>1. ASSUME NEW h \in hostsLeft,
               DnsCached(h) \/ DnsFails(h) \/ DnsSettled(h) \/ DnsDecides(h)
        PROVE  UNCHANGED <<rulesets, SeenBy>>
    BY <2>1 DEF DnsCached, DnsFails, DnsSettled, DnsDecides, HostDone, cloudVars,
                SeenBy
  <2>2. ASSUME RecordWritten \/ RecordFails
        PROVE  UNCHANGED <<rulesets, SeenBy>>
    BY <2>2 DEF RecordWritten, RecordFails, RecordApplies, HostDone, cloudVars,
                SeenBy
  <2> QED
    BY <1>2, <2>1, <2>2 DEF DnsStep
<1>3. CASE RedirectStep
  <2>1. ASSUME RedirectsSkipped \/ RedirectsUnzoned \/ RedirectsGrouped \/ RedirectsDone
        PROVE  UNCHANGED <<rulesets, SeenBy>>
    BY <2>1 DEF RedirectsSkipped, RedirectsUnzoned, RedirectsGrouped, RedirectsDone,
                Returns, cloudVars, SeenBy
  <2> QED
    BY <1>3, <2>1, SharedZone DEF RedirectStep
<1>4. CASE Restart
  <2>1. Shared!GiveUp
    BY <1>4 DEF Restart, Shared!GiveUp, SeenBy, cloudVars
  <2> QED
    BY <2>1 DEF Shared!SharedNext
<1>5. CASE Dashboard
  <2>1. ASSUME NEW z \in Zones, RulesEdited(z)
        PROVE  Shared!Edit(z)
    <3>1. PICK r \in Ruleset : /\ r.ours \in {rulesets[z].ours, {}}
                               /\ rulesets' = [rulesets EXCEPT ![z] = r]
      BY <2>1 DEF RulesEdited
    <3>2. r \in Shared!Ruleset
      BY <3>1 DEF Ruleset, Shared!Ruleset
    <3> QED
      BY <2>1, <3>1, <3>2 DEF RulesEdited, Shared!Edit, SeenBy, syncVars
  <2>2. ASSUME NEW z \in Zones, ZoneAdded(z)
        PROVE  UNCHANGED <<rulesets, SeenBy>>
    BY <2>2 DEF ZoneAdded, SeenBy, syncVars
  <2>3. ASSUME NEW h \in Hosts, RecordEdited(h)
        PROVE  UNCHANGED <<rulesets, SeenBy>>
    BY <2>3 DEF RecordEdited, SeenBy, syncVars
  <2> QED
    BY <1>5, <2>1, <2>2, <2>3 DEF Dashboard, Shared!SharedNext
<1>6. CASE UNCHANGED vars
  BY <1>6 DEF vars, cloudVars, syncVars, SeenBy
<1> QED
  BY <1>1, <1>2, <1>3, <1>4, <1>5, <1>6 DEF Next

\* Every behaviour of ZoneSync is one of SharedRules, seen through the list that
\* a PUT is about to replace.
THEOREM KeepsOthersRules == Spec => SharedSpec
<1>1. Init => Shared!SharedInit
  <2> SUFFICES ASSUME Init
               PROVE  Shared!SharedInit
    OBVIOUS
  <2>1. TypeOK
    BY TypeInit
  <2> QED
    BY <2>1 DEF Init, TypeOK, Shared!SharedInit, Ruleset, Shared!Ruleset
<1>2. TypeOK /\ TypeOK' /\ [Next]_vars => [Shared!SharedNext]_<<rulesets, SeenBy>>
  BY SharedStep
<1> QED
  BY <1>1, <1>2, ZoneTypes, PTL DEF Spec, SharedSpec, Shared!SharedSpec, SeenBy

-----------------------------------------------------------------------------
(* The CNAMEs.                                                             *)

\* A record that is about to be written is as it was read, or was changed.
WriteIsFresh ==
  pc = "record" => records[found.host] = found.kind \/ found.host \in moved

RecordInv == EnsuredPointsHere /\ WriteIsFresh

LEMMA RecordDns ==
  ASSUME TypeOK, RecordInv, DnsStep
  PROVE  RecordInv'
<1> USE DEF TypeOK, RecordInv, EnsuredPointsHere, WriteIsFresh
<1>1. ASSUME NEW h \in hostsLeft, DnsCached(h) \/ DnsFails(h)
      PROVE  RecordInv'
  BY <1>1 DEF DnsCached, DnsFails, HostDone, cloudVars
<1>2. ASSUME NEW h \in hostsLeft, DnsSettled(h)
      PROVE  RecordInv'
  BY <1>2 DEF DnsSettled, HostDone, cloudVars
<1>3. ASSUME NEW h \in hostsLeft, DnsDecides(h)
      PROVE  RecordInv'
  BY <1>3 DEF DnsDecides, cloudVars
<1>4. CASE RecordWritten
  BY <1>4 DEF RecordWritten, RecordApplies, HostDone
<1>5. CASE RecordFails
  BY <1>5 DEF RecordFails, RecordApplies, HostDone, cloudVars
<1> QED
  BY <1>1, <1>2, <1>3, <1>4, <1>5 DEF DnsStep

LEMMA RecordStep == TypeOK /\ RecordInv /\ [Next]_vars => RecordInv'
<1> SUFFICES ASSUME TypeOK, RecordInv, [Next]_vars
             PROVE  RecordInv'
  OBVIOUS
<1> USE DEF RecordInv, EnsuredPointsHere, WriteIsFresh
<1>1. ASSUME NEW c \in Configs, SyncReaches(c)
      PROVE  RecordInv'
  BY <1>1 DEF SyncReaches, cloudVars, memoryVars, pastVars
<1>2. CASE DnsStep
  BY <1>2, RecordDns
<1>3. CASE RedirectStep
  <2>1. ASSUME RedirectsSkipped \/ RedirectsUnzoned \/ RedirectsGrouped \/ RedirectsDone
        PROVE  RecordInv'
    BY <2>1 DEF RedirectsSkipped, RedirectsUnzoned, RedirectsGrouped, RedirectsDone,
                Returns, cloudVars, pastVars
  <2>2. ASSUME NEW z \in zonesLeft,
               ZoneMatches(z) \/ ZoneDiffers(z) \/ ZoneUnreadable(z)
        PROVE  RecordInv'
    BY <2>2 DEF ZoneMatches, ZoneDiffers, ZoneUnreadable, ZoneDone, ZoneFailed,
                AtZone, cloudVars, memoryVars, pastVars
  <2>3. ASSUME PutSucceeds \/ PutFails \/ PutAnswerLost
        PROVE  RecordInv'
    BY <2>3 DEF PutSucceeds, PutFails, PutAnswerLost, ZoneDone, ZoneFailed,
                memoryVars
  <2> QED
    BY <1>3, <2>1, <2>2, <2>3 DEF RedirectStep
<1>4. CASE Restart
  BY <1>4 DEF Restart
<1>5. CASE Dashboard
  <2>1. ASSUME NEW z \in Zones, RulesEdited(z) \/ ZoneAdded(z)
        PROVE  RecordInv'
    BY <2>1 DEF RulesEdited, ZoneAdded, memoryVars, syncVars, pastVars
  <2>2. ASSUME NEW h \in Hosts, RecordEdited(h)
        PROVE  RecordInv'
    BY <2>2 DEF TypeOK, RecordEdited, memoryVars, syncVars
  <2> QED
    BY <1>5, <2>1, <2>2 DEF Dashboard
<1>6. CASE UNCHANGED vars
  BY <1>6 DEF vars, cloudVars, memoryVars, syncVars, pastVars
<1> QED
  BY <1>1, <1>2, <1>3, <1>4, <1>5, <1>6 DEF Next

LEMMA RecordInvariant == Spec => [](TypeOK /\ RecordInv)
<1>1. Init => RecordInv
  BY DEF Init, RecordInv, EnsuredPointsHere, WriteIsFresh
<1> QED
  BY <1>1, RecordStep, ZoneTypes, PTL DEF Spec

\* The cache of ensureDNS never hides a record that DockFlare failed to write.
THEOREM EnsuredIsTrue == Spec => []EnsuredPointsHere
BY RecordInvariant, PTL DEF RecordInv

\* A record that points to no tunnel is left alone by every step of DockFlare,
\* unless it was changed after it was read.
THEOREM ForeignRecordsStay == Spec => NeverRepoints
<1>1. TypeOK /\ RecordInv /\ [Next]_vars
        => [\A h \in Hosts :
              records[h] = "foreign" /\ records'[h] = "ours" => h \in moved]_vars
  <2> SUFFICES ASSUME TypeOK, RecordInv, Next, NEW h \in Hosts,
                      records[h] = "foreign", records'[h] = "ours"
               PROVE  h \in moved
    OBVIOUS
  <2>1. ASSUME NEW c \in Configs, SyncReaches(c)
        PROVE  FALSE
    BY <2>1 DEF SyncReaches, cloudVars
  <2>2. CASE DnsStep
    <3>1. RecordWritten \/ RecordFails
      BY <2>2 DEF DnsStep, DnsCached, DnsFails, DnsSettled, DnsDecides, cloudVars
    <3>2. pc = "record" /\ RecordApplies
      BY <3>1 DEF RecordWritten, RecordFails, cloudVars
    <3>3. found.host = h /\ found.kind \in {"none", "tunnel"}
      BY <3>2 DEF TypeOK, RecordApplies
    <3> QED
      BY <3>2, <3>3 DEF RecordInv, WriteIsFresh
  <2>3. CASE RedirectStep
    BY <2>3 DEF RedirectStep, RedirectsSkipped, RedirectsUnzoned, RedirectsGrouped,
                RedirectsDone, Returns, ZoneMatches, ZoneDiffers, ZoneUnreadable,
                PutSucceeds, PutFails, PutAnswerLost, ZoneDone, ZoneFailed, cloudVars
  <2>4. CASE Restart
    BY <2>4 DEF Restart, cloudVars
  <2>5. CASE Dashboard
    BY <2>5 DEF TypeOK, Dashboard, RulesEdited, ZoneAdded, RecordEdited
  <2> QED
    BY <2>1, <2>2, <2>3, <2>4, <2>5 DEF Next
<1> QED
  BY <1>1, RecordInvariant, PTL DEF Spec, NeverRepoints

-----------------------------------------------------------------------------
(* The redirect rules.                                                     *)

\* The conjuncts that make RedirectsMatch inductive.

\* A zone with rules of DockFlare that changed only as it knows is revisited.
Tracked == Holding \ unseen \subseteq redirectZones

\* Zones to revisit are revisited also when no hostname is left: from the
\* first write on, since a zone that was empty cannot match.
Armed ==
  redirectZones # {} =>
    redirectsInUse \/ inherited \/ (pc \in {"zones", "put"} /\ wrote)

\* Without an inheritance the own rules of unseen zones were removed.
OnlyRemovals == ~inherited => Holding \cap unseen = {}

\* A zone that was visited without an error is revisited for its hostnames only.
VisitedForHosts ==
  pc \in {"zones", "put"} =>
    \A z \in redirectZones \ (zonesLeft \union failed) : byZone[z] # {}

\* A zone that is not, or no longer, to be visited matches.
VisitedMatch ==
  pc \in {"zones", "put"} =>
    \A z \in Zones \ (zonesLeft \union failed \union unseen) :
      rulesets[z].ours = byZone[z]

\* What was grouped is what the configuration asks for.
Grouped ==
  pc \in {"zones", "put"} => \A z \in Zones : byZone[z] \subseteq https

RedirectInv ==
  /\ Tracked /\ Armed /\ OnlyRemovals
  /\ VisitedForHosts /\ VisitedMatch /\ Grouped
  /\ RedirectsMatch

\* Steps that change nothing RedirectInv speaks of, and end where no zone is
\* being visited and no Sync has returned.
LEMMA RedirectElsewhere ==
  ASSUME RedirectInv, pc' \in {"dns", "record"}, pc \notin {"zones", "put"},
         UNCHANGED <<rulesets, redirectZones, redirectsInUse, unseen, inherited>>
  PROVE  RedirectInv'
BY DEF RedirectInv, Tracked, Armed, OnlyRemovals, VisitedForHosts, VisitedMatch,
       Grouped, RedirectsMatch, Holding

LEMMA RedirectGrouping ==
  ASSUME TypeOK, RedirectInv,
         RedirectsSkipped \/ RedirectsUnzoned \/ RedirectsGrouped
  PROVE  RedirectInv'
<1> USE DEF RedirectInv, Tracked, Armed, OnlyRemovals, VisitedForHosts,
            VisitedMatch, Grouped, RedirectsMatch, Holding, cloudVars
<1>1. CASE RedirectsSkipped
  BY <1>1 DEF RedirectsSkipped, Returns, NoHosts
<1>2. CASE RedirectsUnzoned
  BY <1>2 DEF RedirectsUnzoned, Returns
<1>3. CASE RedirectsGrouped
  BY <1>3 DEF RedirectsGrouped, pastVars
<1> QED
  BY <1>1, <1>2, <1>3

LEMMA RedirectZone ==
  ASSUME TypeOK, RedirectInv, NEW z \in zonesLeft,
         ZoneMatches(z) \/ ZoneDiffers(z) \/ ZoneUnreadable(z)
  PROVE  RedirectInv'
<1> USE DEF RedirectInv, Tracked, Armed, OnlyRemovals, VisitedForHosts,
            VisitedMatch, Grouped, RedirectsMatch, Holding, AtZone
<1>1. CASE ZoneMatches(z)
  BY <1>1 DEF TypeOK, ZoneMatches, ZoneDone
<1>2. CASE ZoneDiffers(z)
  BY <1>2 DEF ZoneDiffers, cloudVars, memoryVars, zoneVars, pastVars
<1>3. CASE ZoneUnreadable(z)
  BY <1>3 DEF ZoneUnreadable, ZoneFailed, memoryVars
<1> QED
  BY <1>1, <1>2, <1>3

LEMMA RedirectPut ==
  ASSUME TypeOK, RedirectInv, PutSucceeds \/ PutFails \/ PutAnswerLost
  PROVE  RedirectInv'
<1> USE DEF RedirectInv, Tracked, Armed, OnlyRemovals, VisitedForHosts,
            VisitedMatch, Grouped, RedirectsMatch, Holding
<1>1. found.zone \in zonesLeft /\ zonesLeft \subseteq Zones
  BY DEF TypeOK, PutSucceeds, PutFails, PutAnswerLost
<1>2. CASE PutSucceeds
  BY <1>1, <1>2 DEF TypeOK, PutSucceeds, PutApplies, ZoneDone
<1>3. CASE PutFails
  BY <1>1, <1>3 DEF PutFails, ZoneFailed, memoryVars
<1>4. CASE PutAnswerLost
  BY <1>1, <1>4 DEF TypeOK, PutAnswerLost, PutApplies, ZoneFailed, memoryVars
<1> QED
  BY <1>2, <1>3, <1>4

LEMMA RedirectEnd ==
  ASSUME TypeOK, RedirectInv, RedirectsDone
  PROVE  RedirectInv'
<1> USE DEF RedirectInv, Tracked, Armed, OnlyRemovals, VisitedForHosts,
            VisitedMatch, Grouped, RedirectsMatch, Holding, RedirectsDone, Returns,
            Switch, cloudVars
<1>1. redirectZones' # {} => redirectsInUse' \/ inherited'
  <2> SUFFICES ASSUME NEW z \in redirectZones
               PROVE  redirectsInUse' \/ inherited'
    OBVIOUS
  <2>1. CASE failed = {}
    <3>1. z \in Zones /\ byZone[z] # {} /\ byZone[z] \subseteq https
      BY <2>1 DEF TypeOK
    <3> QED
      BY <2>1, <3>1
  <2>2. CASE failed # {}
    BY <2>2
  <2> QED
    BY <2>1, <2>2
<1>2. ~inherited' => Holding' \cap unseen' = {}
  OBVIOUS
<1> QED
  BY <1>1, <1>2

LEMMA RedirectDashboard ==
  ASSUME TypeOK, RedirectInv, Dashboard
  PROVE  RedirectInv'
<1> USE DEF RedirectInv, Tracked, Armed, OnlyRemovals, VisitedForHosts,
            VisitedMatch, Grouped, RedirectsMatch, Holding, memoryVars, syncVars,
            zoneVars
<1>1. ASSUME NEW z \in Zones, RulesEdited(z)
      PROVE  RedirectInv'
  <2>1. PICK r \in Ruleset :
          /\ r.ours \in {rulesets[z].ours, {}}
          /\ rulesets' = [rulesets EXCEPT ![z] = r]
          /\ unseen' = IF r.ours = rulesets[z].ours THEN unseen ELSE unseen \union {z}
    BY <1>1 DEF RulesEdited
  <2>2. \A y \in Zones : rulesets'[y].ours = IF y = z THEN r.ours ELSE rulesets[y].ours
    BY <2>1 DEF TypeOK
  <2>3. UNCHANGED <<memoryVars, syncVars, zoneVars, last, inherited>>
    BY <1>1 DEF RulesEdited
  <2>4. \A y \in Zones : y \notin unseen' => /\ y \notin unseen
                                            /\ rulesets'[y].ours = rulesets[y].ours
    BY <2>1, <2>2
  <2>5. Holding' \subseteq Holding /\ Holding' \cap unseen' \subseteq unseen
    BY <2>1, <2>2
  <2>6. Tracked' /\ Armed' /\ OnlyRemovals'
    BY <2>3, <2>4, <2>5
  <2>7. VisitedForHosts' /\ VisitedMatch' /\ Grouped'
    BY <2>3, <2>4
  <2>8. RedirectsMatch'
    BY <2>3, <2>4
  <2> QED
    BY <2>6, <2>7, <2>8
<1>2. ASSUME NEW z \in Zones, ZoneAdded(z)
      PROVE  RedirectInv'
  BY <1>2 DEF ZoneAdded, pastVars
<1>3. ASSUME NEW h \in Hosts, RecordEdited(h)
      PROVE  RedirectInv'
  BY <1>3 DEF RecordEdited
<1> QED
  BY <1>1, <1>2, <1>3 DEF Dashboard

LEMMA RedirectStepKeeps == TypeOK /\ RedirectInv /\ [Next]_vars => RedirectInv'
<1> SUFFICES ASSUME TypeOK, RedirectInv, [Next]_vars
             PROVE  RedirectInv'
  OBVIOUS
<1>1. ASSUME NEW c \in Configs, SyncReaches(c)
      PROVE  RedirectInv'
  BY <1>1, RedirectElsewhere DEF SyncReaches, cloudVars, memoryVars, pastVars
<1>2. CASE DnsStep
  <2>1. /\ pc' \in {"dns", "record"} /\ pc \notin {"zones", "put"}
        /\ UNCHANGED <<rulesets, redirectZones, redirectsInUse, unseen, inherited>>
    BY <1>2 DEF DnsStep, DnsCached, DnsFails, DnsSettled, DnsDecides, RecordWritten,
                RecordFails, RecordApplies, HostDone, cloudVars
  <2> QED
    BY <2>1, RedirectElsewhere
<1>3. CASE RedirectStep
  BY <1>3, RedirectGrouping, RedirectZone, RedirectPut, RedirectEnd DEF RedirectStep
<1>4. CASE Restart
  BY <1>4 DEF Restart, RedirectInv, Tracked, Armed, OnlyRemovals, VisitedForHosts,
              VisitedMatch, Grouped, RedirectsMatch, Holding, NoSync, cloudVars
<1>5. CASE Dashboard
  BY <1>5, RedirectDashboard
<1>6. CASE UNCHANGED vars
  BY <1>6 DEF vars, RedirectInv, Tracked, Armed, OnlyRemovals, VisitedForHosts,
              VisitedMatch, Grouped, RedirectsMatch, Holding, cloudVars, memoryVars,
              syncVars, zoneVars, pastVars
<1> QED
  BY <1>1, <1>2, <1>3, <1>4, <1>5, <1>6 DEF Next

\* The redirect rules of a zone that reported no error are those of the
\* configuration, in every order of syncs, failures, edits and restarts.
THEOREM RedirectsAreRight == Spec => []RedirectsMatch
<1>1. Init => RedirectInv
  <2> SUFFICES ASSUME Init
               PROVE  RedirectInv
    OBVIOUS
  <2>1. /\ pc = "idle" /\ redirectZones = {}
        /\ unseen = Holding /\ inherited = (Holding # {})
        /\ last.failed = Zones
    BY DEF Init, NoSync
  <2>2. Tracked /\ Armed /\ VisitedForHosts /\ VisitedMatch /\ Grouped
    BY <2>1 DEF Tracked, Armed, VisitedForHosts, VisitedMatch, Grouped
  <2>3. OnlyRemovals
    BY <2>1 DEF OnlyRemovals
  <2>4. RedirectsMatch
    BY <2>1 DEF RedirectsMatch
  <2> QED
    BY <2>2, <2>3, <2>4 DEF RedirectInv
<1> QED
  BY <1>1, RedirectStepKeeps, ZoneTypes, PTL DEF Spec, RedirectInv

-----------------------------------------------------------------------------
(* What matched is left alone.                                             *)

\* A zone the last Sync brought in line, and nobody changed DockFlare's rules in.
InLine(z) ==
  \/ z \in last.failed \union unseen
  \/ rulesets[z].ours = last.want[z]
  \/ inherited /\ last.want[z] = {}

\* It stays in line until the Sync in progress has visited it.
UnvisitedInLine ==
  \A z \in Zones : (pc \in {"zones", "put"} => z \in zonesLeft) => InLine(z)

\* Steps that leave the own rules, the last Sync and the flags alone, and do not
\* put a zone back on the list.
LEMMA InLineElsewhere ==
  ASSUME UnvisitedInLine,
         \A z \in Zones : /\ rulesets'[z].ours = rulesets[z].ours \/ z \in unseen'
                          /\ z \in unseen => z \in unseen',
         inherited => inherited', UNCHANGED last,
         \/ pc \notin {"zones", "put"}
         \/ pc' \in {"zones", "put"} /\ zonesLeft' \subseteq zonesLeft
  PROVE  UnvisitedInLine'
<1> SUFFICES ASSUME NEW z \in Zones, pc' \in {"zones", "put"} => z \in zonesLeft'
             PROVE  InLine(z)'
  BY DEF UnvisitedInLine
<1>1. InLine(z)
  BY DEF UnvisitedInLine
<1>2. last' = last
  OBVIOUS
<1>3. rulesets'[z].ours = rulesets[z].ours \/ z \in unseen'
  OBVIOUS
<1>4. z \in unseen => z \in unseen'
  OBVIOUS
<1> QED
  BY <1>1, <1>2, <1>3, <1>4 DEF InLine

LEMMA InLineVisit ==
  ASSUME TypeOK, UnvisitedInLine,
         \/ \E z \in zonesLeft : ZoneMatches(z) \/ ZoneDiffers(z) \/ ZoneUnreadable(z)
         \/ PutSucceeds \/ PutFails \/ PutAnswerLost
  PROVE  UnvisitedInLine'
<1> DEFINE Visit(z) ==
             /\ pc' = "zones" /\ zonesLeft' = zonesLeft \ {z}
             /\ \A y \in Zones : y # z => /\ rulesets'[y].ours = rulesets[y].ours
                                          /\ y \in unseen => y \in unseen'
             /\ inherited => inherited'
             /\ UNCHANGED last
<1>1. ASSUME NEW z, Visit(z), pc \in {"zones", "put"} PROVE UnvisitedInLine'
  BY <1>1 DEF UnvisitedInLine, InLine
<1>2. ASSUME NEW z \in zonesLeft, ZoneMatches(z) PROVE UnvisitedInLine'
  BY <1>1, <1>2 DEF ZoneMatches, AtZone, ZoneDone
<1>3. ASSUME NEW z \in zonesLeft, ZoneDiffers(z) PROVE UnvisitedInLine'
  BY <1>3, InLineElsewhere DEF ZoneDiffers, AtZone, cloudVars, zoneVars, pastVars
<1>4. ASSUME NEW z \in zonesLeft, ZoneUnreadable(z) PROVE UnvisitedInLine'
  BY <1>1, <1>4 DEF ZoneUnreadable, AtZone, ZoneFailed
<1>5. CASE PutSucceeds
  <2>1. \A y \in Zones : y # found.zone => rulesets'[y] = rulesets[y]
    BY <1>5 DEF TypeOK, PutSucceeds, PutApplies
  <2> QED
    BY <1>1, <1>5, <2>1 DEF PutSucceeds, ZoneDone
<1>6. CASE PutFails
  BY <1>1, <1>6 DEF PutFails, ZoneFailed
<1>7. CASE PutAnswerLost
  <2>1. \A y \in Zones : y # found.zone => rulesets'[y] = rulesets[y]
    BY <1>7 DEF TypeOK, PutAnswerLost, PutApplies
  <2> QED
    BY <1>1, <1>7, <2>1 DEF PutAnswerLost, ZoneFailed
<1> QED
  BY <1>2, <1>3, <1>4, <1>5, <1>6, <1>7

LEMMA InLineStep ==
  TypeOK /\ RedirectsMatch' /\ UnvisitedInLine /\ [Next]_vars => UnvisitedInLine'
<1> SUFFICES ASSUME TypeOK, RedirectsMatch', UnvisitedInLine, [Next]_vars
             PROVE  UnvisitedInLine'
  OBVIOUS
<1>1. CASE pc' = "idle"
  BY <1>1 DEF RedirectsMatch, UnvisitedInLine, InLine
<1>2. ASSUME NEW c \in Configs, SyncReaches(c)
      PROVE  UnvisitedInLine'
  BY <1>2, InLineElsewhere DEF SyncReaches, cloudVars, pastVars
<1>3. CASE DnsStep
  <2>1. /\ pc \notin {"zones", "put"}
        /\ UNCHANGED <<rulesets, unseen, inherited, last>>
    BY <1>3 DEF DnsStep, DnsCached, DnsFails, DnsSettled, DnsDecides, RecordWritten,
                RecordFails, RecordApplies, HostDone, cloudVars
  <2> QED
    BY <2>1, InLineElsewhere
<1>4. CASE RedirectStep
  <2>1. CASE RedirectsSkipped \/ RedirectsUnzoned \/ RedirectsDone
    BY <1>1, <2>1 DEF RedirectsSkipped, RedirectsUnzoned, RedirectsDone, Returns
  <2>2. CASE RedirectsGrouped
    BY <2>2, InLineElsewhere DEF RedirectsGrouped, cloudVars, pastVars
  <2> QED
    BY <1>4, <2>1, <2>2, InLineVisit DEF RedirectStep
<1>5. CASE Restart
  BY <1>1, <1>5 DEF Restart
<1>6. CASE Dashboard
  <2>1. ASSUME NEW z \in Zones, RulesEdited(z)
        PROVE  UnvisitedInLine'
    <3>1. PICK r \in Ruleset :
            /\ rulesets' = [rulesets EXCEPT ![z] = r]
            /\ unseen' = IF r.ours = rulesets[z].ours THEN unseen ELSE unseen \union {z}
      BY <2>1 DEF RulesEdited
    <3>2. \A y \in Zones : rulesets'[y].ours = IF y = z THEN r.ours ELSE rulesets[y].ours
      BY <3>1 DEF TypeOK
    <3> QED
      BY <2>1, <3>1, <3>2, InLineElsewhere DEF RulesEdited, syncVars, zoneVars
  <2>2. ASSUME NEW z \in Zones, ZoneAdded(z)
        PROVE  UnvisitedInLine'
    BY <2>2, InLineElsewhere DEF ZoneAdded, syncVars, zoneVars, pastVars
  <2>3. ASSUME NEW h \in Hosts, RecordEdited(h)
        PROVE  UnvisitedInLine'
    BY <2>3, InLineElsewhere DEF RecordEdited, syncVars, zoneVars
  <2> QED
    BY <1>6, <2>1, <2>2, <2>3 DEF Dashboard
<1>7. CASE UNCHANGED vars
  BY <1>7, InLineElsewhere DEF vars, cloudVars, syncVars, zoneVars, pastVars
<1> QED
  BY <1>2, <1>3, <1>4, <1>5, <1>6, <1>7 DEF Next

\* A zone that matched is written again only when the configuration asks something
\* else of it, or DockFlare's own rules were changed: no Sync repeats a write.
THEOREM NoWriteRepeated == Spec => MatchedIsLeftAlone
<1>1. Init => UnvisitedInLine
  BY DEF Init, NoSync, UnvisitedInLine, InLine
<1>2. TypeOK /\ UnvisitedInLine /\ [Next]_vars =>
        [pc = "zones" /\ pc' = "put" =>
           LET z == found'.zone
           IN \/ byZone[z] # last.want[z]
              \/ z \in last.failed \union unseen
              \/ inherited /\ last.want[z] = {}]_vars
  <2> SUFFICES ASSUME TypeOK, UnvisitedInLine, Next, pc = "zones", pc' = "put"
               PROVE  LET z == found'.zone
                      IN \/ byZone[z] # last.want[z]
                         \/ z \in last.failed \union unseen
                         \/ inherited /\ last.want[z] = {}
    OBVIOUS
  <2>1. PICK z \in zonesLeft : ZoneDiffers(z)
    BY DEF Next, SyncReaches, DnsStep, DnsCached, DnsFails, DnsSettled, DnsDecides,
           RecordWritten, RecordFails, RedirectStep, RedirectsSkipped,
           RedirectsUnzoned, RedirectsGrouped, RedirectsDone, Returns, ZoneMatches,
           ZoneUnreadable, PutSucceeds, PutFails, PutAnswerLost, ZoneDone, ZoneFailed,
           Restart, Dashboard, RulesEdited, ZoneAdded, RecordEdited, syncVars
  <2>2. found'.zone = z /\ rulesets[z].ours # byZone[z] /\ z \in Zones
    BY <2>1 DEF TypeOK, ZoneDiffers
  <2>3. InLine(z)
    BY <2>1, <2>2 DEF UnvisitedInLine
  <2> QED
    BY <2>2, <2>3 DEF InLine
<1> QED
  BY <1>1, <1>2, InLineStep, RedirectsAreRight, ZoneTypes, PTL
     DEF Spec, MatchedIsLeftAlone

=============================================================================
