----------------------------- MODULE MCNetworks -----------------------------
(***************************************************************************)
(* Networks for TLC: two containers, a network DockFlare is created in, and*)
(* one it has to join.                                                     *)
(***************************************************************************)
EXTENDS Networks

CONSTANTS c, d, home, app

Ask(l, r, p) == [list |-> l, routes |-> r, closed |-> p]

\* Both listed; one listed and the other routed to; a closed port.
MCConfigs == {Ask({c, d}, {c, d}, {}), Ask({c}, {d}, {}), Ask({d}, {d}, {d})}

Place(p, x, y) ==
  [present |-> p, networks |-> [k \in {c, d} |-> IF k = c THEN x ELSE y]]
MCLayouts == {Place({c, d}, {home, app}, {app}), Place({c}, {app}, {}),
              Place({c, d}, {home}, {})}

=============================================================================
