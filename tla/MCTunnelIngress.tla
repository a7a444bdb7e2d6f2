-------------------------- MODULE MCTunnelIngress --------------------------
(***************************************************************************)
(* TunnelIngress for TLC: two hostnames, two targets for one of them, a    *)
(* web UI that is exposed or not.                                          *)
(***************************************************************************)
EXTENDS TunnelIngress

CONSTANTS a, b, panel, t1, t2, s1, s2, slow

Route(h, t, s)  == [hostname |-> h, target |-> t, https |-> s]
Config(rs, u)   == [routes |-> rs, ui |-> u]

MCConfigs ==
  { Config(<<>>, NoHostname),
    Config(<<Route(a, t1, FALSE)>>, NoHostname),
    Config(<<Route(a, t1, TRUE)>>, NoHostname),
    Config(<<Route(a, t2, FALSE), Route(b, t1, FALSE)>>, NoHostname),
    Config(<<Route(b, t1, TRUE)>>, panel) }

Slow      == {[connectTimeout |-> slow]}
SlowPlain == {[connectTimeout |-> slow, noTLSVerify |-> FALSE]}
Unchecked == {[noTLSVerify |-> TRUE]}
Empty     == {Decode(Absent)}

MCOrigins  == {Absent, Slow, Unchecked, Empty}
FewOrigins == {Unchecked}

Dash(h, p, o) == [hostname |-> h, path |-> p, service |-> <<"dashboard">>,
                  origin |-> o]

\* What somebody may have saved in the dashboard: one hostname, one hostname
\* with a rule of its own for a path, and the list a new tunnel gets.
MCIngresses ==
  { <<Dash(a, NoPath, Slow), CatchAll>>,
    <<Dash(a, "/api", SlowPlain), Dash(a, NoPath, Absent), CatchAll>>,
    <<CatchAll>> }

FewIngresses == {<<Dash(a, NoPath, Slow), CatchAll>>}

=============================================================================
