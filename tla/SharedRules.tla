---------------------------- MODULE SharedRules ----------------------------
(***************************************************************************)
(* What DockFlare promises about the redirect rulesets of the zones, lists *)
(* it shares with the dashboard (redirect.go): what somebody else wrote is *)
(* read, preserved and written back, and DockFlare's rules come last.      *)
(* The promise is relative to what was read: the API has no                *)
(* compare-and-set.                                                        *)
(***************************************************************************)
CONSTANTS
  Zones,     \* the zones
  Theirs,    \* what the rules of others, in their order, may be
  OwnRules,  \* the rules DockFlare may have written
  Nothing

VARIABLES
  rulesets,  \* per zone: [theirs, ours, last]
  seen       \* the ruleset DockFlare is about to replace: [zone, rules]

\* theirs: the rules without ruleMarker, in their order, opaque; ours: the
\* rules with it; last: all of ours come after all of theirs.
Ruleset == [theirs : Theirs, ours : SUBSET OwnRules, last : BOOLEAN]

SharedInit ==
  /\ rulesets \in [Zones -> Ruleset]
  /\ seen = Nothing

Look(z) ==
  /\ seen' = [zone |-> z, rules |-> rulesets[z]]
  /\ UNCHANGED rulesets

\* The list that was read, with DockFlare's part replaced and at its end.
Publish ==
  /\ seen # Nothing
  /\ \E ours \in SUBSET OwnRules :
       rulesets' = [rulesets EXCEPT ![seen.zone] =
                      [theirs |-> seen.rules.theirs, ours |-> ours, last |-> TRUE]]
  /\ seen' = Nothing

GiveUp ==
  /\ seen' = Nothing
  /\ UNCHANGED rulesets

\* Somebody edits a zone in the dashboard, where nobody makes rules that
\* carry DockFlare's marker.
Edit(z) ==
  /\ \E r \in Ruleset : /\ r.ours \subseteq rulesets[z].ours
                        /\ rulesets' = [rulesets EXCEPT ![z] = r]
  /\ UNCHANGED seen

SharedNext == Publish \/ GiveUp \/ \E z \in Zones : Look(z) \/ Edit(z)

SharedSpec == SharedInit /\ [][SharedNext]_<<rulesets, seen>>

=============================================================================
