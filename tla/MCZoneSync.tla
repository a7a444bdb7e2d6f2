----------------------------- MODULE MCZoneSync -----------------------------
(***************************************************************************)
(* ZoneSync for TLC: two hostnames, a zone that owns both, and a zone that *)
(* is delegated from it and owns one of them.                              *)
(***************************************************************************)
EXTENDS ZoneSync

CONSTANTS a, b, t1, t2

MCZones == 1..2
MCOwns  == {<<1, a>>, <<1, b>>, <<2, b>>}
MCNameLength == [z \in MCZones |-> z]

Ask(d, s) == [dns |-> d, https |-> s]
MCConfigs == {Ask({}, {}), Ask({a}, {a}), Ask({}, {b}), Ask({a}, {a, b})}

\* Without and with rules of an older version, before and after the zone is
\* delegated, with and without a record.
Rules(t, o) == [theirs |-> t, ours |-> o, last |-> TRUE]
MCFirstClouds ==
  [rulesets : {<<Rules(t1, o), Rules(t2, {})>> : o \in {{}, {OldRule}}},
   records  : {[h \in {a, b} |-> IF h = a THEN k ELSE "foreign"]
                 : k \in {"none", "foreign"}},
   account  : {{1}, {1, 2}}]

=============================================================================
