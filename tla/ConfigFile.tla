----------------------------- MODULE ConfigFile -----------------------------
(***************************************************************************)
(* What config.yml may hold, and when it can be loaded (package config).   *)
(*                                                                         *)
(* A document is [payload, ui, token].  Its payload is the part the web UI *)
(* edits (containers, routes, manage_dns), its ui the web_ui section, its  *)
(* token the token: field.  Broken is a file that is no YAML.              *)
(***************************************************************************)
CONSTANTS
  Payloads,          \* payloads, among them
  NoRoutes,          \*   one without routes
  BadPayloads,       \*   those ValidateRoutes rejects,
  UIRoutePayloads,   \*   and those with a route for web_ui.hostname
  UIs,               \* web_ui sections: UIOff, UIExposed (the one with a
                     \*   hostname), and others
  UIOff, UIExposed,
  Token, NoToken,    \* token: present or missing
  Broken,
  EnvToken           \* TUNNEL_TOKEN is set in the environment

Documents == [payload : Payloads, ui : UIs, token : {Token, NoToken}]

ASSUME ConfigFileAssumption ==
  /\ NoRoutes \in Payloads
  /\ BadPayloads \subseteq Payloads /\ UIRoutePayloads \subseteq Payloads
  /\ UIOff \in UIs /\ UIExposed \in UIs
  /\ Broken \notin Documents
  /\ EnvToken \in BOOLEAN

\* An empty file is YAML too: no routes, no token, the UI off.
EmptyDoc == [payload |-> NoRoutes, ui |-> UIOff, token |-> NoToken]

\* Validate: a token, valid routes, and if the UI is exposed some routes, none
\* of them for its own hostname.  What the routes are checked for by themselves
\* (hostnames, containers, ports, schemes, duplicates, the API token they need)
\* decides what is in BadPayloads; the sections in UIs pass their own checks.
Valid(doc) ==
  /\ doc.payload \notin BadPayloads
  /\ EnvToken \/ doc.token = Token
  /\ doc.ui = UIExposed => doc.payload \notin UIRoutePayloads \union {NoRoutes}

\* config.Load succeeds.
Loadable(doc) == doc # Broken /\ Valid(doc)

=============================================================================
