---------------------------- MODULE TunnelProofs ----------------------------
(***************************************************************************)
(* What holds of IngressRules and TunnelIngress for every configuration,   *)
(* every remote list and every originRequest.                              *)
(*                                                                         *)
(* First the two operations on an originRequest, then the list Desired     *)
(* builds, then the merged list: it serves its configuration, keeps the    *)
(* foreign settings and is a fixed point of the merge.  From these follow  *)
(* the refinement of TunnelMirror and InSync.  Last, the cache: what it     *)
(* says of the tunnel, and why comparing lists is enough to compare        *)
(* configurations.                                                         *)
(***************************************************************************)
EXTENDS TunnelIngress, TLAPS, SequenceTheorems

-----------------------------------------------------------------------------
(* originRequest                                                           *)

LEMMA DecodePresent ==
  ASSUME NEW o
  PROVE  {o} # Absent /\ Decode({o}) = o
<1>1. {o} # {} /\ \A x \in {o} : x = o
  OBVIOUS
<1>2. (CHOOSE x \in {o} : TRUE) \in {o}
  BY <1>1
<1> QED
  BY <1>1, <1>2 DEF Absent, Decode

LEMMA DecodeAbsent == Decode(Absent) = [k \in {} |-> k]
BY DEF Decode, Absent

\* Setting a key leaves the others as they are.
LEMMA DecodeSetKey ==
  ASSUME NEW o, NEW key
  PROVE  /\ SetKey(o, key, TRUE) # Absent
         /\ Decode(SetKey(o, key, TRUE))
              = [k \in DOMAIN Decode(o) \union {key} |->
                   IF k = key THEN TRUE ELSE Decode(o)[k]]
BY DecodePresent DEF SetKey

\* Deleting a key leaves the others as they are, also when nothing is left.
LEMMA DecodeDeleteKey ==
  ASSUME NEW o, NEW key
  PROVE  Decode(DeleteKey(o, key))
           = [k \in DOMAIN Decode(o) \ {key} |-> Decode(o)[k]]
<1>1. CASE DOMAIN Decode(o) \subseteq {key}
  <2>1. DOMAIN Decode(o) \ {key} = {}
    BY <1>1
  <2>2. DeleteKey(o, key) = Absent
    BY <1>1 DEF DeleteKey
  <2>3. [k \in {} |-> k] = [k \in {} |-> Decode(o)[k]]
    OBVIOUS
  <2> QED
    BY <2>1, <2>2, <2>3, DecodeAbsent
<1>2. CASE ~(DOMAIN Decode(o) \subseteq {key})
  BY <1>2, DecodePresent DEF DeleteKey
<1> QED
  BY <1>1, <1>2

\* Deleting a key forgets whether and how it was set before.
LEMMA DeleteAfterMerge ==
  ASSUME NEW o, NEW base
  PROVE  Decode(DeleteKey(MergedOrigin(o, base), NoTLSVerify))
           = Decode(DeleteKey(base, NoTLSVerify))
<1> DEFINE Rest == [k \in DOMAIN Decode(base) \ {NoTLSVerify} |-> Decode(base)[k]]
<1>1. Decode(DeleteKey(base, NoTLSVerify)) = Rest
  BY DecodeDeleteKey
<1>2. CASE NoTLSVerify \in DOMAIN Decode(o)
  <2> DEFINE S == SetKey(base, NoTLSVerify, TRUE)
  <2>1. MergedOrigin(o, base) = S
    BY <1>2 DEF MergedOrigin
  <2>2. Decode(S) = [k \in DOMAIN Decode(base) \union {NoTLSVerify} |->
                       IF k = NoTLSVerify THEN TRUE ELSE Decode(base)[k]]
    BY DecodeSetKey
  <2> HIDE DEF S
  <2>3. Decode(DeleteKey(S, NoTLSVerify))
          = [k \in DOMAIN Decode(S) \ {NoTLSVerify} |-> Decode(S)[k]]
    BY DecodeDeleteKey
  <2>4. DOMAIN Decode(S) \ {NoTLSVerify} = DOMAIN Decode(base) \ {NoTLSVerify}
    BY <2>2
  <2>5. \A k \in DOMAIN Decode(base) \ {NoTLSVerify} : Decode(S)[k] = Decode(base)[k]
    BY <2>2
  <2> QED
    BY <1>1, <2>1, <2>3, <2>4, <2>5
<1>3. CASE NoTLSVerify \notin DOMAIN Decode(o)
  <2> DEFINE D == DeleteKey(base, NoTLSVerify)
  <2>1. MergedOrigin(o, base) = D
    BY <1>3 DEF MergedOrigin
  <2>2. Decode(D) = Rest
    BY <1>1
  <2> HIDE DEF D
  <2>3. Decode(DeleteKey(D, NoTLSVerify))
          = [k \in DOMAIN Decode(D) \ {NoTLSVerify} |-> Decode(D)[k]]
    BY DecodeDeleteKey
  <2>4. DOMAIN Rest \ {NoTLSVerify} = DOMAIN Decode(base) \ {NoTLSVerify}
    OBVIOUS
  <2> QED
    BY <1>1, <2>1, <2>2, <2>3, <2>4
<1> QED
  BY <1>2, <1>3

\* Merging twice is merging once.
LEMMA MergeTwice ==
  ASSUME NEW o, NEW base
  PROVE  Decode(MergedOrigin(o, MergedOrigin(o, base)))
           = Decode(MergedOrigin(o, base))
<1>1. CASE NoTLSVerify \in DOMAIN Decode(o)
  <2> DEFINE S == SetKey(base, NoTLSVerify, TRUE)
  <2>1. /\ MergedOrigin(o, base) = S
        /\ MergedOrigin(o, S) = SetKey(S, NoTLSVerify, TRUE)
    BY <1>1 DEF MergedOrigin
  <2>2. Decode(S) = [k \in DOMAIN Decode(base) \union {NoTLSVerify} |->
                       IF k = NoTLSVerify THEN TRUE ELSE Decode(base)[k]]
    BY DecodeSetKey
  <2> HIDE DEF S
  <2>3. Decode(SetKey(S, NoTLSVerify, TRUE))
          = [k \in DOMAIN Decode(S) \union {NoTLSVerify} |->
               IF k = NoTLSVerify THEN TRUE ELSE Decode(S)[k]]
    BY DecodeSetKey
  <2>4. DOMAIN Decode(S) \union {NoTLSVerify}
          = DOMAIN Decode(base) \union {NoTLSVerify}
    BY <2>2
  <2>5. \A k \in DOMAIN Decode(base) \union {NoTLSVerify} :
          (IF k = NoTLSVerify THEN TRUE ELSE Decode(S)[k])
            = (IF k = NoTLSVerify THEN TRUE ELSE Decode(base)[k])
    BY <2>2
  <2> QED
    BY <2>1, <2>2, <2>3, <2>4, <2>5
<1>2. CASE NoTLSVerify \notin DOMAIN Decode(o)
  <2>1. MergedOrigin(o, MergedOrigin(o, base))
          = DeleteKey(MergedOrigin(o, base), NoTLSVerify)
    BY <1>2 DEF MergedOrigin
  <2>2. MergedOrigin(o, base) = DeleteKey(base, NoTLSVerify)
    BY <1>2 DEF MergedOrigin
  <2> QED
    BY <2>1, <2>2, DeleteAfterMerge
<1> QED
  BY <1>1, <1>2

-----------------------------------------------------------------------------
(* The list Desired builds.                                                *)

LEMMA LenOfFunction ==
  ASSUME NEW k \in Nat, NEW f, f = [i \in 1..k |-> f[i]]
  PROVE  Len(f) = k
<1> DEFINE S == {f[i] : i \in 1..k}
<1>1. f \in [1..k -> S]
  OBVIOUS
<1>2. f \in Seq(S)
  BY <1>1, SeqDef
<1>3. Len(f) \in Nat /\ DOMAIN f = 1..Len(f)
  BY <1>2, LenProperties
<1>4. DOMAIN f = 1..k
  BY <1>1
<1> QED
  BY <1>3, <1>4

\* Routes first, in their order; then the UI, if it is exposed; then the rule
\* that catches the rest.
LEMMA DesiredShape ==
  ASSUME NEW c, WellFormed(c)
  PROVE  /\ RouteCount(c) \in Nat /\ PublishedCount(c) \in Nat
         /\ DOMAIN Desired(c) = 1..PublishedCount(c) + 1
         /\ \A i \in 1..RouteCount(c) : Desired(c)[i] = RouteRule(c.routes[i])
         /\ IF c.ui = NoHostname THEN PublishedCount(c) = RouteCount(c)
            ELSE /\ PublishedCount(c) = RouteCount(c) + 1
                 /\ Desired(c)[PublishedCount(c)] = Rule(c.ui, UIService, Absent)
         /\ Desired(c)[PublishedCount(c) + 1] = CatchAll
<1> DEFINE n == Len(c.routes)
           B == BuildIngress(c.routes)
<1>1. n \in Nat
  BY DEF WellFormed
<1>2. /\ DOMAIN B = 1..n + 1
      /\ \A i \in 1..n : B[i] = RouteRule(c.routes[i])
      /\ B[n + 1] = CatchAll
      /\ B = [i \in 1..n + 1 |-> B[i]]
  BY <1>1 DEF BuildIngress
<1>3. Len(B) = n + 1
  BY <1>1, <1>2, LenOfFunction
<1>4. B # <<>>
  BY <1>1, <1>2
<1> HIDE DEF B
<1>5. CASE c.ui = NoHostname
  <2>1. Desired(c) = B
    BY <1>5 DEF Desired, WithUIRule, B
  <2> QED
    BY <1>1, <1>2, <1>5, <2>1 DEF PublishedCount, RouteCount
<1>6. CASE c.ui # NoHostname
  <2>1. Desired(c) = [i \in 1..Len(B) + 1 |->
                        CASE i < Len(B) -> B[i]
                          [] i = Len(B) -> Rule(c.ui, UIService, Absent)
                          [] i > Len(B) -> B[Len(B)]]
    BY <1>4, <1>6 DEF Desired, WithUIRule, B
  <2>2. Desired(c) = [i \in 1..n + 2 |->
                        CASE i < n + 1 -> B[i]
                          [] i = n + 1 -> Rule(c.ui, UIService, Absent)
                          [] i > n + 1 -> CatchAll]
    BY <1>1, <1>2, <1>3, <2>1
  <2>3. PublishedCount(c) = n + 1 /\ RouteCount(c) = n
    BY <1>6 DEF PublishedCount, RouteCount
  <2>4. DOMAIN Desired(c) = 1..n + 2
    BY <2>2
  <2>5. \A i \in 1..n : Desired(c)[i] = RouteRule(c.routes[i])
    <3> SUFFICES ASSUME NEW i \in 1..n
                 PROVE  Desired(c)[i] = RouteRule(c.routes[i])
      OBVIOUS
    <3>1. i \in 1..n + 2 /\ i < n + 1 /\ i # n + 1 /\ ~(i > n + 1)
      BY <1>1
    <3>2. Desired(c)[i] = B[i]
      BY <2>2, <3>1
    <3> QED
      BY <1>2, <3>2
  <2>6. Desired(c)[n + 1] = Rule(c.ui, UIService, Absent)
    BY <1>1, <2>2
  <2>7. Desired(c)[n + 2] = CatchAll
    BY <1>1, <2>2
  <2> QED
    BY <1>1, <1>6, <2>3, <2>4, <2>5, <2>6, <2>7
<1> QED
  BY <1>5, <1>6

\* The origin of a route's rule skips the verification or is absent.
LEMMA RouteOrigin ==
  ASSUME NEW route
  PROVE  /\ \/ NoTLSVerify \in DOMAIN Decode(RouteRule(route).origin)
            \/ RouteRule(route).origin = Absent
         /\ IF route.https
            THEN /\ NoTLSVerify \in DOMAIN Decode(RouteRule(route).origin)
                 /\ Decode(RouteRule(route).origin)[NoTLSVerify] = TRUE
            ELSE RouteRule(route).origin = Absent
         /\ RouteRule(route).hostname = route.hostname
         /\ RouteRule(route).service = ServiceURL(route)
         /\ RouteRule(route).path = NoPath
<1>1. /\ RouteRule(route).origin
           = IF route.https THEN SetKey(Absent, NoTLSVerify, TRUE) ELSE Absent
      /\ RouteRule(route).hostname = route.hostname
      /\ RouteRule(route).service = ServiceURL(route)
      /\ RouteRule(route).path = NoPath
  BY DEF RouteRule, Rule
<1>2. /\ NoTLSVerify \in DOMAIN Decode(SetKey(Absent, NoTLSVerify, TRUE))
      /\ Decode(SetKey(Absent, NoTLSVerify, TRUE))[NoTLSVerify] = TRUE
  <2> DEFINE S == Decode(SetKey(Absent, NoTLSVerify, TRUE))
             T == DOMAIN Decode(Absent) \union {NoTLSVerify}
  <2>1. S = [k \in T |-> IF k = NoTLSVerify THEN TRUE ELSE Decode(Absent)[k]]
    BY DecodeSetKey
  <2>2. NoTLSVerify \in T
    OBVIOUS
  <2> HIDE DEF S, T
  <2>3. NoTLSVerify \in DOMAIN S /\ S[NoTLSVerify] = TRUE
    BY <2>1, <2>2
  <2> QED
    BY <2>3 DEF S
<1> QED
  BY <1>1, <1>2

\* The originRequests of the desired rules.
LEMMA DesiredOrigins ==
  ASSUME NEW c, WellFormed(c), NEW i \in DOMAIN Desired(c)
  PROVE  \/ Desired(c)[i].origin = Absent
         \/ Desired(c)[i].origin = SetKey(Absent, NoTLSVerify, TRUE)
<1> DEFINE n == RouteCount(c)
           p == PublishedCount(c)
           D == Desired(c)
<1>1. /\ n \in Nat /\ p \in Nat
      /\ DOMAIN D = 1..p + 1
      /\ \A j \in 1..n : D[j] = RouteRule(c.routes[j])
      /\ IF c.ui = NoHostname THEN p = n
         ELSE p = n + 1 /\ D[p] = Rule(c.ui, UIService, Absent)
      /\ D[p + 1] = CatchAll
  BY DesiredShape
<1> HIDE DEF D, n, p
<1>2. i \in 1..p + 1
  BY <1>1 DEF D
<1>3. CASE i \in 1..n
  <2> DEFINE r == c.routes[i]
  <2>1. D[i] = RouteRule(r)
    BY <1>1, <1>3
  <2> HIDE DEF r
  <2>2. RouteRule(r).origin
          = IF r.https THEN SetKey(Absent, NoTLSVerify, TRUE) ELSE Absent
    BY DEF RouteRule, Rule
  <2>3. D[i].origin = Absent \/ D[i].origin = SetKey(Absent, NoTLSVerify, TRUE)
    BY <2>1, <2>2
  <2> QED
    BY <2>3 DEF D
<1>4. CASE i \notin 1..n
  <2>1. D[i] = CatchAll \/ D[i] = Rule(c.ui, UIService, Absent)
    BY <1>1, <1>2, <1>4
  <2>2. CatchAll.origin = Absent /\ Rule(c.ui, UIService, Absent).origin = Absent
    BY DEF CatchAll, Rule
  <2>3. D[i].origin = Absent
    BY <2>1, <2>2
  <2> QED
    BY <2>3 DEF D
<1> QED
  BY <1>3, <1>4

\* Every rule is a record of its own hostname, and only a route's rule has an
\* originRequest, which then has the one key DockFlare owns.
LEMMA DesiredRules ==
  ASSUME NEW c, WellFormed(c)
  PROVE  /\ \A i \in DOMAIN Desired(c) :
              LET r == Desired(c)[i]
              IN /\ r = Rule(r.hostname, r.service, r.origin)
                 /\ NoTLSVerify \in DOMAIN Decode(r.origin) \/ r.origin = Absent
         /\ \A i, j \in DOMAIN Desired(c) :
              Desired(c)[i].hostname = Desired(c)[j].hostname => i = j
<1> DEFINE n == RouteCount(c)
           p == PublishedCount(c)
           D == Desired(c)
<1>1. /\ n \in Nat /\ p \in Nat
      /\ DOMAIN D = 1..p + 1
      /\ \A i \in 1..n : D[i] = RouteRule(c.routes[i])
      /\ IF c.ui = NoHostname THEN p = n
         ELSE p = n + 1 /\ D[p] = Rule(c.ui, UIService, Absent)
      /\ D[p + 1] = CatchAll
  BY DesiredShape
<1>2. \A i \in 1..n :
        /\ c.routes[i].https \in BOOLEAN
        /\ c.routes[i].hostname \notin {NoHostname, c.ui}
        /\ \A j \in 1..n : c.routes[j].hostname = c.routes[i].hostname => i = j
  BY DEF WellFormed, RouteCount
<1> HIDE DEF D, n, p
<1>3. ASSUME NEW i \in DOMAIN D
      PROVE  \/ i \in 1..n
             \/ c.ui # NoHostname /\ i = p /\ i = n + 1
             \/ i = p + 1
  BY <1>1
<1>4. ASSUME NEW i \in 1..n
      PROVE  /\ D[i] = Rule(D[i].hostname, D[i].service, D[i].origin)
             /\ NoTLSVerify \in DOMAIN Decode(D[i].origin) \/ D[i].origin = Absent
             /\ D[i].hostname = c.routes[i].hostname
  <2> DEFINE r == c.routes[i]
  <2>1. D[i] = RouteRule(r) /\ r.https \in BOOLEAN
    BY <1>1, <1>2
  <2> HIDE DEF r
  <2>2. RouteRule(r)
          = Rule(RouteRule(r).hostname, RouteRule(r).service, RouteRule(r).origin)
    BY DEF RouteRule, Rule
  <2>3. /\ NoTLSVerify \in DOMAIN Decode(RouteRule(r).origin)
             \/ RouteRule(r).origin = Absent
        /\ RouteRule(r).hostname = r.hostname
    BY RouteOrigin
  <2> QED
    BY <2>1, <2>2, <2>3 DEF r
<1>5. /\ CatchAll = Rule(CatchAll.hostname, CatchAll.service, CatchAll.origin)
      /\ CatchAll.hostname = NoHostname /\ CatchAll.origin = Absent
  BY DEF CatchAll, Rule
<1>6. LET u == Rule(c.ui, UIService, Absent)
      IN /\ u = Rule(u.hostname, u.service, u.origin)
         /\ u.hostname = c.ui /\ u.origin = Absent
  BY DEF Rule
<1>7. ASSUME NEW i \in DOMAIN D
      PROVE  /\ D[i] = Rule(D[i].hostname, D[i].service, D[i].origin)
             /\ NoTLSVerify \in DOMAIN Decode(D[i].origin) \/ D[i].origin = Absent
  BY <1>1, <1>3, <1>4, <1>5, <1>6
<1>8. ASSUME NEW i \in DOMAIN D, NEW j \in DOMAIN D, D[i].hostname = D[j].hostname
      PROVE  i = j
  BY <1>1, <1>2, <1>3, <1>4, <1>5, <1>6, <1>8
<1> QED
  BY <1>7, <1>8 DEF D

-----------------------------------------------------------------------------
(* The merged list.                                                        *)

\* The merge sets the owned key exactly when the desired rule has it.
LEMMA MergedKey ==
  ASSUME NEW o, NEW base
  PROVE  IF NoTLSVerify \in DOMAIN Decode(o)
         THEN /\ NoTLSVerify \in DOMAIN Decode(MergedOrigin(o, base))
              /\ Decode(MergedOrigin(o, base))[NoTLSVerify] = TRUE
         ELSE NoTLSVerify \notin DOMAIN Decode(MergedOrigin(o, base))
<1>1. CASE NoTLSVerify \in DOMAIN Decode(o)
  <2> DEFINE S == Decode(SetKey(base, NoTLSVerify, TRUE))
             T == DOMAIN Decode(base) \union {NoTLSVerify}
  <2>1. S = [k \in T |-> IF k = NoTLSVerify THEN TRUE ELSE Decode(base)[k]]
    BY DecodeSetKey
  <2>2. NoTLSVerify \in T
    OBVIOUS
  <2>3. Decode(MergedOrigin(o, base)) = S
    BY <1>1 DEF MergedOrigin
  <2> HIDE DEF S, T
  <2>4. NoTLSVerify \in DOMAIN S /\ S[NoTLSVerify] = TRUE
    BY <2>1, <2>2
  <2> QED
    BY <1>1, <2>3, <2>4
<1>2. CASE NoTLSVerify \notin DOMAIN Decode(o)
  <2>1. MergedOrigin(o, base) = DeleteKey(base, NoTLSVerify)
    BY <1>2 DEF MergedOrigin
  <2> DEFINE S == Decode(DeleteKey(base, NoTLSVerify))
             T == DOMAIN Decode(base) \ {NoTLSVerify}
  <2>2. S = [k \in T |-> Decode(base)[k]]
    BY DecodeDeleteKey
  <2>3. NoTLSVerify \notin T
    OBVIOUS
  <2>4. Decode(MergedOrigin(o, base)) = S
    BY <2>1
  <2> HIDE DEF S, T
  <2>5. NoTLSVerify \notin DOMAIN S
    BY <2>2, <2>3
  <2> QED
    BY <1>2, <2>4, <2>5
<1> QED
  BY <1>1, <1>2

\* CarryOverOriginRequests changes originRequests only.
LEMMA MergedRules ==
  ASSUME NEW c, WellFormed(c), NEW R
  PROVE  LET D == Desired(c)
             M == CarryOverOriginRequests(D, R)
         IN /\ DOMAIN M = DOMAIN D
            /\ \A i \in DOMAIN D :
                 /\ M[i].hostname = D[i].hostname
                 /\ M[i].service = D[i].service
                 /\ M[i].path = D[i].path /\ M[i].path = NoPath
                 /\ M[i].origin = IF Carriers(R, D[i].hostname) = {} THEN D[i].origin
                                  ELSE MergedOrigin(D[i].origin, Base(R, D[i].hostname))
<1> DEFINE D == Desired(c)
           M == CarryOverOriginRequests(D, R)
<1>1. DOMAIN M = DOMAIN D
  BY DEF CarryOverOriginRequests
<1>2. ASSUME NEW i \in DOMAIN D
      PROVE  /\ M[i].hostname = D[i].hostname
             /\ M[i].service = D[i].service
             /\ M[i].path = D[i].path /\ M[i].path = NoPath
             /\ M[i].origin = IF Carriers(R, D[i].hostname) = {} THEN D[i].origin
                              ELSE MergedOrigin(D[i].origin, Base(R, D[i].hostname))
  <2>1. M[i] = IF Carriers(R, D[i].hostname) = {} THEN D[i]
               ELSE [D[i] EXCEPT !.origin =
                       MergedOrigin(D[i].origin, Base(R, D[i].hostname))]
    BY DEF CarryOverOriginRequests
  <2>2. D[i] = [hostname |-> D[i].hostname, path |-> NoPath,
                service |-> D[i].service, origin |-> D[i].origin]
    BY DesiredRules DEF Rule
  <2> HIDE DEF D, M
  <2> QED
    BY <2>1, <2>2
<1> QED
  BY <1>1, <1>2

\* What DockFlare publishes serves its configuration, whatever the tunnel had.
THEOREM MergedServes ==
  ASSUME NEW c, WellFormed(c), NEW R
  PROVE  Serves(CarryOverOriginRequests(Desired(c), R), c)
<1> DEFINE n == RouteCount(c)
           p == PublishedCount(c)
           D == Desired(c)
           M == CarryOverOriginRequests(D, R)
<1>1. /\ n \in Nat /\ p \in Nat
      /\ DOMAIN D = 1..p + 1
      /\ \A i \in 1..n : D[i] = RouteRule(c.routes[i])
      /\ IF c.ui = NoHostname THEN p = n
         ELSE p = n + 1 /\ D[p] = Rule(c.ui, UIService, Absent)
      /\ D[p + 1] = CatchAll
  BY DesiredShape
<1>2. /\ DOMAIN M = DOMAIN D
      /\ \A i \in DOMAIN D :
           /\ M[i].hostname = D[i].hostname
           /\ M[i].service = D[i].service
           /\ M[i].path = D[i].path /\ M[i].path = NoPath
           /\ M[i].origin = IF Carriers(R, D[i].hostname) = {} THEN D[i].origin
                            ELSE MergedOrigin(D[i].origin, Base(R, D[i].hostname))
  BY MergedRules
<1>3. \A i \in 1..n : c.routes[i].https \in BOOLEAN
  BY DEF WellFormed, RouteCount
<1> HIDE DEF D, M, n, p
<1>4. ASSUME NEW i \in 1..n
      PROVE  /\ M[i].hostname = c.routes[i].hostname
             /\ M[i].service = ServiceURL(c.routes[i])
             /\ SkipsVerification(M[i]) <=> c.routes[i].https
  <2>1. i \in DOMAIN D /\ D[i] = RouteRule(c.routes[i])
    BY <1>1
  <2>2. M[i].hostname = c.routes[i].hostname /\ M[i].service = ServiceURL(c.routes[i])
    <3>1. /\ RouteRule(c.routes[i]).hostname = c.routes[i].hostname
          /\ RouteRule(c.routes[i]).service = ServiceURL(c.routes[i])
      BY RouteOrigin
    <3> QED
      BY <1>2, <2>1, <3>1
  <2>3. CASE c.routes[i].https
    <3>1. /\ NoTLSVerify \in DOMAIN Decode(D[i].origin)
          /\ Decode(D[i].origin)[NoTLSVerify] = TRUE
      BY <2>1, <2>3, RouteOrigin
    <3>2. CASE Carriers(R, D[i].hostname) = {}
      <4>1. M[i].origin = D[i].origin
        BY <1>2, <2>1, <3>2
      <4> QED
        BY <2>2, <2>3, <3>1, <4>1 DEF SkipsVerification
    <3>3. CASE Carriers(R, D[i].hostname) # {}
      <4> DEFINE o == MergedOrigin(D[i].origin, Base(R, D[i].hostname))
      <4>1. M[i].origin = o
        BY <1>2, <2>1, <3>3
      <4>2. NoTLSVerify \in DOMAIN Decode(o) /\ Decode(o)[NoTLSVerify] = TRUE
        BY <3>1, MergedKey
      <4> HIDE DEF o
      <4> QED
        BY <2>2, <2>3, <4>1, <4>2 DEF SkipsVerification
    <3> QED
      BY <3>2, <3>3
  <2>4. CASE ~c.routes[i].https
    <3>1. D[i].origin = Absent
      BY <2>1, <2>4, RouteOrigin
    <3>2. NoTLSVerify \notin DOMAIN Decode(D[i].origin)
      BY <3>1, DecodeAbsent
    <3>3. NoTLSVerify \notin DOMAIN Decode(M[i].origin)
      <4>1. CASE Carriers(R, D[i].hostname) = {}
        BY <1>2, <2>1, <3>2, <4>1
      <4>2. CASE Carriers(R, D[i].hostname) # {}
        <5>1. M[i].origin = MergedOrigin(D[i].origin, Base(R, D[i].hostname))
          BY <1>2, <2>1, <4>2
        <5> QED
          BY <3>2, <5>1, MergedKey
      <4> QED
        BY <4>1, <4>2
    <3> QED
      BY <2>2, <2>4, <3>3 DEF SkipsVerification
  <2> QED
    BY <2>3, <2>4
<1>5. DOMAIN M = 1..p + 1 /\ \A i \in DOMAIN M : M[i].path = NoPath
  BY <1>1, <1>2
<1>6. c.ui # NoHostname => M[p].hostname = c.ui /\ M[p].service = UIService
  BY <1>1, <1>2 DEF Rule
<1>7. M[p + 1].hostname = NoHostname /\ M[p + 1].service = CatchAllService
  BY <1>1, <1>2 DEF CatchAll, Rule
<1> QED
  BY <1>4, <1>5, <1>6, <1>7 DEF Serves, M, D, n, p

\* In a merged list a hostname has one rule.
LEMMA MergedCarriers ==
  ASSUME NEW c, WellFormed(c), NEW R,
         NEW j \in DOMAIN CarryOverOriginRequests(Desired(c), R)
  PROVE  LET M == CarryOverOriginRequests(Desired(c), R)
             h == M[j].hostname
         IN /\ Carriers(M, h) = IF M[j].origin = Absent THEN {} ELSE {j}
            /\ M[j].origin # Absent => Base(M, h) = M[j].origin
<1> DEFINE D == Desired(c)
           M == CarryOverOriginRequests(D, R)
           h == M[j].hostname
<1>1. /\ DOMAIN M = DOMAIN D
      /\ \A i \in DOMAIN D : M[i].hostname = D[i].hostname
  BY MergedRules
<1>2. /\ \A i, k \in DOMAIN D : D[i].hostname = D[k].hostname => i = k
      /\ DOMAIN D \subseteq Nat
  BY DesiredShape, DesiredRules
<1>3. j \in DOMAIN M
  OBVIOUS
<1> HIDE DEF M
<1>4. Carriers(M, h) = IF M[j].origin = Absent THEN {} ELSE {j}
  BY <1>1, <1>2, <1>3 DEF Carriers
<1>5. ASSUME M[j].origin # Absent PROVE Base(M, h) = M[j].origin
  <2>1. Carriers(M, h) = {j} /\ j \in Nat
    BY <1>1, <1>2, <1>3, <1>4, <1>5
  <2>2. (CHOOSE i \in Carriers(M, h) : \A k \in Carriers(M, h) : k <= i) = j
    BY <2>1
  <2> QED
    BY <2>2 DEF Base
<1> QED
  BY <1>4, <1>5 DEF M

LEMMA DeleteFromDesired ==
  ASSUME NEW o, o = Absent \/ o = SetKey(Absent, NoTLSVerify, TRUE)
  PROVE  DeleteKey(o, NoTLSVerify) = Absent
<1>1. DeleteKey(Absent, NoTLSVerify) = Absent
  BY DecodeAbsent DEF DeleteKey
<1>2. DeleteKey(SetKey(Absent, NoTLSVerify, TRUE), NoTLSVerify) = Absent
  <2> DEFINE S == SetKey(Absent, NoTLSVerify, TRUE)
             A == Decode(Absent)
  <2>1. Decode(S) = [k \in DOMAIN A \union {NoTLSVerify} |->
                       IF k = NoTLSVerify THEN TRUE ELSE A[k]]
    BY DecodeSetKey
  <2>2. DOMAIN A = {}
    BY DecodeAbsent
  <2> HIDE DEF S, A
  <2>3. DOMAIN Decode(S) = {NoTLSVerify}
    BY <2>1, <2>2
  <2>4. DeleteKey(S, NoTLSVerify) = Absent
    BY <2>3 DEF DeleteKey
  <2> QED
    BY <2>4 DEF S
<1> QED
  BY <1>1, <1>2

\* Publishing keeps what others have set on the hostnames that stay.
THEOREM MergedKeepsForeign ==
  ASSUME NEW c, WellFormed(c), NEW R
  PROVE  KeepsForeignSettings(R, CarryOverOriginRequests(Desired(c), R))
<1> DEFINE D == Desired(c)
           M == CarryOverOriginRequests(D, R)
<1>1. /\ DOMAIN M = DOMAIN D
      /\ \A i \in DOMAIN D :
           /\ M[i].hostname = D[i].hostname
           /\ M[i].origin = IF Carriers(R, D[i].hostname) = {} THEN D[i].origin
                            ELSE MergedOrigin(D[i].origin, Base(R, D[i].hostname))
  BY MergedRules
<1>2. ASSUME NEW j \in DOMAIN M
      PROVE  /\ Carriers(M, M[j].hostname)
                  = IF M[j].origin = Absent THEN {} ELSE {j}
             /\ M[j].origin # Absent => Base(M, M[j].hostname) = M[j].origin
  BY MergedCarriers
<1> HIDE DEF M
<1>3. ASSUME NEW j \in DOMAIN M
      PROVE  ForeignSettings(M, M[j].hostname) = ForeignSettings(R, M[j].hostname)
  <2> DEFINE h == M[j].hostname
             o == D[j].origin
             b == Base(R, h)
  <2>0. DeleteKey(o, NoTLSVerify) = Absent
    BY <1>1, DesiredOrigins, DeleteFromDesired
  <2>1. ForeignSettings(M, h) = Decode(DeleteKey(M[j].origin, NoTLSVerify))
    <3>1. CASE M[j].origin = Absent
      <4>1. ForeignSettings(M, h) = Decode(Absent)
        BY <1>2, <3>1 DEF ForeignSettings
      <4>2. DeleteKey(Absent, NoTLSVerify) = Absent
        BY DeleteFromDesired
      <4> QED
        BY <3>1, <4>1, <4>2
    <3>2. CASE M[j].origin # Absent
      BY <1>2, <3>2 DEF ForeignSettings
    <3> QED
      BY <3>1, <3>2
  <2>2. CASE Carriers(R, h) = {}
    <3>1. M[j].origin = o /\ ForeignSettings(R, h) = Decode(Absent)
      BY <1>1, <2>2 DEF ForeignSettings
    <3> QED
      BY <2>0, <2>1, <3>1
  <2>3. CASE Carriers(R, h) # {}
    <3>1. M[j].origin = MergedOrigin(o, b)
      BY <1>1, <2>3
    <3>2. ForeignSettings(R, h) = Decode(DeleteKey(b, NoTLSVerify))
      BY <2>3 DEF ForeignSettings
    <3> QED
      BY <2>1, <3>1, <3>2, DeleteAfterMerge
  <2> QED
    BY <2>2, <2>3
<1> QED
  BY <1>3 DEF KeepsForeignSettings, M

LEMMA SetTwice ==
  LET o == SetKey(Absent, NoTLSVerify, TRUE)
  IN Decode(MergedOrigin(o, o)) = Decode(o)
<1> DEFINE o == SetKey(Absent, NoTLSVerify, TRUE)
           s == SetKey(o, NoTLSVerify, TRUE)
           A == Decode(Absent)
           T == DOMAIN A \union {NoTLSVerify}
<1>1. Decode(o) = [k \in T |-> IF k = NoTLSVerify THEN TRUE ELSE A[k]]
  BY DecodeSetKey
<1>2. NoTLSVerify \in T
  OBVIOUS
<1> HIDE DEF A, T, o
<1>3. Decode(s) = [k \in DOMAIN Decode(o) \union {NoTLSVerify} |->
                     IF k = NoTLSVerify THEN TRUE ELSE Decode(o)[k]]
  BY DecodeSetKey
<1>4. NoTLSVerify \in DOMAIN Decode(o) /\ DOMAIN Decode(o) = T
  BY <1>1, <1>2
<1>5. MergedOrigin(o, o) = s
  BY <1>4 DEF MergedOrigin
<1> HIDE DEF s
<1>6. \A k \in T : (IF k = NoTLSVerify THEN TRUE ELSE Decode(o)[k])
                     = (IF k = NoTLSVerify THEN TRUE ELSE A[k])
  BY <1>1
<1>7. DOMAIN Decode(o) \union {NoTLSVerify} = T
  BY <1>2, <1>4
<1>8. [k \in DOMAIN Decode(o) \union {NoTLSVerify} |->
         IF k = NoTLSVerify THEN TRUE ELSE Decode(o)[k]]
        = [k \in T |-> IF k = NoTLSVerify THEN TRUE ELSE A[k]]
  BY <1>6, <1>7
<1>9. Decode(s) = Decode(o)
  BY <1>1, <1>3, <1>8, Zenon
<1> QED
  BY <1>5, <1>9 DEF o

\* A Sync that reads what the Sync before it has published does not publish
\* again: publishing settles, whatever was there first.
THEOREM PublishingSettles ==
  ASSUME NEW c, WellFormed(c), NEW R
  PROVE  LET M == CarryOverOriginRequests(Desired(c), R)
         IN SameRules(M, CarryOverOriginRequests(Desired(c), M))
<1> DEFINE D == Desired(c)
           M == CarryOverOriginRequests(D, R)
           N == CarryOverOriginRequests(D, M)
<1>1. /\ DOMAIN M = DOMAIN D
      /\ \A i \in DOMAIN D :
           /\ M[i].hostname = D[i].hostname
           /\ M[i].service = D[i].service
           /\ M[i].path = D[i].path /\ M[i].path = NoPath
           /\ M[i].origin = IF Carriers(R, D[i].hostname) = {} THEN D[i].origin
                            ELSE MergedOrigin(D[i].origin, Base(R, D[i].hostname))
  BY MergedRules
<1>2. ASSUME NEW j \in DOMAIN M
      PROVE  /\ Carriers(M, M[j].hostname)
                  = IF M[j].origin = Absent THEN {} ELSE {j}
             /\ M[j].origin # Absent => Base(M, M[j].hostname) = M[j].origin
  BY MergedCarriers
<1> HIDE DEF M
<1>3. /\ DOMAIN N = DOMAIN D
      /\ \A i \in DOMAIN D :
           /\ N[i].hostname = D[i].hostname
           /\ N[i].service = D[i].service
           /\ N[i].path = D[i].path /\ N[i].path = NoPath
           /\ N[i].origin = IF Carriers(M, D[i].hostname) = {} THEN D[i].origin
                            ELSE MergedOrigin(D[i].origin, Base(M, D[i].hostname))
  BY MergedRules
<1> HIDE DEF N
<1>4. ASSUME NEW j \in DOMAIN M
      PROVE  Decode(M[j].origin) = Decode(N[j].origin)
  <2> DEFINE h == D[j].hostname
             o == D[j].origin
             b == Base(R, h)
  <2>1. j \in DOMAIN D /\ M[j].hostname = h
    BY <1>1
  <2>2. o = Absent \/ o = SetKey(Absent, NoTLSVerify, TRUE)
    BY <2>1, DesiredOrigins
  <2>3. o = Absent \/ NoTLSVerify \in DOMAIN Decode(o)
    BY <2>1, DesiredRules
  <2> HIDE DEF D, h, o, b
  <2>4. CASE M[j].origin = Absent
    <3>1. N[j].origin = o
      BY <1>2, <1>3, <2>1, <2>4 DEF h, o
    <3>2. o = Absent
      <4>1. CASE Carriers(R, h) = {}
        BY <1>1, <2>1, <2>4, <4>1 DEF h, o
      <4>2. CASE Carriers(R, h) # {}
        <5>1. MergedOrigin(o, b) = Absent
          BY <1>1, <2>1, <2>4, <4>2 DEF h, o, b
        <5>2. NoTLSVerify \notin DOMAIN Decode(MergedOrigin(o, b))
          BY <5>1, DecodeAbsent
        <5>3. NoTLSVerify \notin DOMAIN Decode(o)
          BY <5>2, MergedKey
        <5> QED
          BY <2>3, <5>3
      <4> QED
        BY <4>1, <4>2
    <3> QED
      BY <2>4, <3>1, <3>2
  <2>5. CASE M[j].origin # Absent
    <3>1. N[j].origin = MergedOrigin(o, M[j].origin)
      <4>1. Carriers(M, h) # {} /\ Base(M, h) = M[j].origin
        BY <1>2, <2>1, <2>5
      <4> QED
        BY <1>3, <2>1, <4>1 DEF h, o
    <3>2. CASE Carriers(R, h) = {}
      <4>1. M[j].origin = o
        BY <1>1, <2>1, <3>2 DEF h, o
      <4>2. Decode(MergedOrigin(o, o)) = Decode(o)
        BY <2>2, <2>5, <4>1, SetTwice
      <4> QED
        BY <3>1, <4>1, <4>2
    <3>3. CASE Carriers(R, h) # {}
      <4>1. M[j].origin = MergedOrigin(o, b)
        BY <1>1, <2>1, <3>3 DEF h, o, b
      <4> QED
        BY <3>1, <4>1, MergeTwice
    <3> QED
      BY <3>2, <3>3
  <2> QED
    BY <2>4, <2>5
<1>5. SameRules(M, N)
  BY <1>1, <1>3, <1>4 DEF SameRules, SameRule
<1> QED
  BY <1>5 DEF M, N

-----------------------------------------------------------------------------
(* The state machine.                                                      *)

IsConfiguration(r) == r = [ingress |-> r.ingress, settings |-> r.settings]

\* A whole configuration is under way, for every timing of dashboard, API and
\* restarts.
SyncInv ==
  /\ IsConfiguration(remote)
  /\ pc \in {"idle", "get", "put"}
  /\ pc # "idle" => cfg \in Configs /\ cfg.routes # <<>>
  /\ pc = "put" => /\ IsConfiguration(next)
                   /\ \E c \in Configs : Serves(next.ingress, c)
  /\ late # Nothing => /\ IsConfiguration(late)
                       /\ \E c \in Configs : Serves(late.ingress, c)

LEMMA MergedOfConfig ==
  ASSUME NEW c \in Configs
  PROVE  /\ Serves(Merged(c), c)
         /\ KeepsForeignSettings(remote.ingress, Merged(c))
BY ConfigsAssumption, MergedServes, MergedKeepsForeign DEF Merged

LEMMA SyncInitially == Init => SyncInv
BY DEF Init, MirrorInit, InitialRemote, SyncInv, IsConfiguration

LEMMA DashboardKeepsShape ==
  ASSUME IsConfiguration(remote), DashboardEdits
  PROVE  IsConfiguration(remote')
BY DEF IsConfiguration, DashboardEdits, DashboardSavesIngress,
       DashboardSetsOrigin, DashboardSavesSettings

LEMMA SyncStep == SyncInv /\ [Next]_vars => SyncInv'
<1> SUFFICES ASSUME SyncInv, [Next]_vars PROVE SyncInv'
  OBVIOUS
<1> USE DEF SyncInv
<1>1. ASSUME NEW c \in Configs,
             SyncLeavesAlone(c) \/ SyncRejects(c) \/ SyncSkips(c)
      PROVE  SyncInv'
  BY <1>1 DEF SyncLeavesAlone, SyncRejects, SyncSkips, Returns
<1>2. ASSUME NEW c \in Configs, SyncAsks(c) PROVE SyncInv'
  BY <1>2 DEF SyncAsks
<1>3. CASE GetMatches \/ GetFails
  BY <1>3 DEF GetMatches, GetFails, Returns
<1>4. CASE GetDiffers
  <2>1. cfg \in Configs /\ cfg.routes # <<>> /\ cfg' = cfg
    BY <1>4 DEF GetDiffers
  <2>2. IsConfiguration(next') /\ next'.ingress = Merged(cfg)
    BY <1>4 DEF GetDiffers, IsConfiguration
  <2>3. \E c \in Configs : Serves(next'.ingress, c)
    BY <2>1, <2>2, MergedOfConfig
  <2>4. pc' = "put" /\ remote' = remote /\ late' = late
    BY <1>4 DEF GetDiffers
  <2> QED
    BY <2>1, <2>2, <2>3, <2>4
<1>5. CASE PutSucceeds \/ PutFails \/ PutResponseLost
  BY <1>5 DEF PutSucceeds, PutFails, PutResponseLost, Returns
<1>6. CASE PutAbandoned
  BY <1>6 DEF PutAbandoned, Returns
<1>7. CASE LatePutLands
  BY <1>7 DEF LatePutLands, syncVars
<1>8. CASE Restart
  BY <1>8 DEF Restart, Returns
<1>9. CASE Dashboard
  BY <1>9, DashboardKeepsShape DEF Dashboard, syncVars
<1>10. CASE UNCHANGED vars
  BY <1>10 DEF vars, syncVars
<1> QED
  BY <1>1, <1>2, <1>3, <1>4, <1>5, <1>6, <1>7, <1>8, <1>9, <1>10 DEF Next

\* "A partial apply would silently take working hostnames offline" (Sync): no
\* write of DockFlare publishes part of a configuration.
THEOREM WholeLists == Spec => NeverPartial
<1>1. SyncInv /\ [Next]_vars
        => [remote'.ingress # remote.ingress
              => Dashboard \/ \E c \in Configs : Serves(remote'.ingress, c)]_vars
  <2> SUFFICES ASSUME SyncInv, Next, remote'.ingress # remote.ingress
               PROVE  Dashboard \/ \E c \in Configs : Serves(remote'.ingress, c)
    OBVIOUS
  <2>1. ASSUME NEW c \in Configs, \/ SyncLeavesAlone(c) \/ SyncRejects(c)
                                  \/ SyncSkips(c) \/ SyncAsks(c)
        PROVE  FALSE
    BY <2>1 DEF SyncLeavesAlone, SyncRejects, SyncSkips, SyncAsks
  <2>2. CASE GetMatches \/ GetDiffers \/ GetFails \/ PutFails \/ PutAbandoned
    BY <2>2 DEF GetMatches, GetDiffers, GetFails, PutFails, PutAbandoned
  <2>3. CASE PutSucceeds \/ PutResponseLost \/ LatePutLands \/ Restart
    BY <2>3 DEF SyncInv, PutSucceeds, PutResponseLost, LatePutLands, Restart
  <2> QED
    BY <2>1, <2>2, <2>3 DEF Next
<1> QED
  BY <1>1, SyncInitially, SyncStep, PTL DEF Spec, NeverPartial

\* While the dashboard keeps away from a running Sync and no write is late,
\* what the Sync is about to write fits what the tunnel has.
QuietInv ==
  /\ late = Nothing
  /\ pc = "put" => /\ next = [remote EXCEPT !.ingress = Merged(cfg)]
                   /\ ~SameRules(remote.ingress, Merged(cfg))

LEMMA QuietStep ==
  ASSUME EditsDuring = FALSE, LateWrites = FALSE
  PROVE  QuietInv /\ [Next]_vars => QuietInv'
<1> SUFFICES ASSUME QuietInv, [Next]_vars PROVE QuietInv'
  OBVIOUS
<1> USE DEF QuietInv
<1>1. ASSUME NEW c \in Configs, \/ SyncLeavesAlone(c) \/ SyncRejects(c)
                                \/ SyncSkips(c) \/ SyncAsks(c)
      PROVE  QuietInv'
  BY <1>1 DEF SyncLeavesAlone, SyncRejects, SyncSkips, SyncAsks, Returns
<1>2. CASE GetDiffers
  <2>1. /\ pc' = "put" /\ remote' = remote /\ late' = late /\ cfg' = cfg
        /\ next' = [remote EXCEPT !.ingress = Merged(cfg)]
        /\ ~SameRules(remote.ingress, Merged(cfg))
    BY <1>2 DEF GetDiffers
  <2>2. Merged(cfg)' = Merged(cfg)
    BY <2>1 DEF Merged
  <2> QED
    BY <2>1, <2>2
<1>3. CASE GetMatches \/ GetFails \/ PutSucceeds \/ PutFails \/ PutResponseLost
  BY <1>3 DEF GetMatches, GetFails, PutSucceeds, PutFails, PutResponseLost, Returns
<1>4. CASE PutAbandoned \/ LatePutLands
  BY <1>4 DEF PutAbandoned, LatePutLands
<1>5. CASE Restart
  BY <1>5 DEF Restart, Returns
<1>6. CASE Dashboard
  BY <1>6 DEF Dashboard, syncVars
<1>7. CASE UNCHANGED vars
  <2>1. Merged(cfg)' = Merged(cfg)
    BY <1>7 DEF vars, syncVars, Merged
  <2> QED
    BY <1>7, <2>1 DEF vars, syncVars
<1> QED
  BY <1>1, <1>2, <1>3, <1>4, <1>5, <1>6, <1>7 DEF Next

LEMMA WritePublishes ==
  ASSUME SyncInv, QuietInv, pc = "put", remote' = next
  PROVE  Publish(cfg) /\ cfg \in Configs
<1>1. cfg \in Configs /\ cfg.routes # <<>> /\ IsConfiguration(remote)
  BY DEF SyncInv
<1>2. /\ remote' = [remote EXCEPT !.ingress = Merged(cfg)]
      /\ ~SameRules(remote.ingress, Merged(cfg))
  BY DEF QuietInv
<1>3. remote'.ingress = Merged(cfg) /\ remote'.settings = remote.settings
  BY <1>1, <1>2 DEF IsConfiguration
<1>4. Serves(Merged(cfg), cfg) /\ KeepsForeignSettings(remote.ingress, Merged(cfg))
  BY <1>1, MergedOfConfig
<1> QED
  BY <1>1, <1>2, <1>3, <1>4 DEF Publish

\* As long as the dashboard and a Sync do not overlap and no PUT is applied
\* late, DockFlare is the mirror TunnelMirror promises, lost answers, failures
\* and restarts included.
THEOREM Mirrors ==
  ASSUME EditsDuring = FALSE, LateWrites = FALSE
  PROVE  Spec => MirrorSpec
<1>1. Init => QuietInv
  BY DEF Init, QuietInv
<1>2. QuietInv /\ [Next]_vars => QuietInv'
  BY QuietStep
<1>3. SyncInv /\ QuietInv /\ [Next]_vars => [MirrorNext]_remote
  <2> SUFFICES ASSUME SyncInv, QuietInv, Next, remote' # remote
               PROVE  MirrorNext
    BY DEF vars
  <2>1. ASSUME NEW c \in Configs, \/ SyncLeavesAlone(c) \/ SyncRejects(c)
                                  \/ SyncSkips(c) \/ SyncAsks(c)
        PROVE  FALSE
    BY <2>1 DEF SyncLeavesAlone, SyncRejects, SyncSkips, SyncAsks
  <2>2. CASE GetMatches \/ GetDiffers \/ GetFails \/ PutFails \/ PutAbandoned
    BY <2>2 DEF GetMatches, GetDiffers, GetFails, PutFails, PutAbandoned
  <2>3. CASE LatePutLands
    BY <2>3 DEF LatePutLands, QuietInv
  <2>4. CASE PutSucceeds \/ PutResponseLost \/ Restart
    <3>1. pc = "put" /\ remote' = next
      BY <2>4 DEF PutSucceeds, PutResponseLost, Restart
    <3>2. Publish(cfg) /\ cfg \in Configs
      BY <3>1, WritePublishes
    <3> QED
      BY <3>2 DEF MirrorNext
  <2>5. CASE Dashboard
    BY <2>5 DEF Dashboard, MirrorNext
  <2> QED
    BY <2>1, <2>2, <2>3, <2>4, <2>5 DEF Next
<1>4. Init => MirrorInit
  BY DEF Init
<1> QED
  BY <1>1, <1>2, <1>3, <1>4, SyncInitially, SyncStep, PTL DEF Spec, MirrorSpec

-----------------------------------------------------------------------------
(* InSync.                                                                 *)

LEMMA ServesRespectsSameRules ==
  ASSUME NEW L, NEW K, NEW c, WellFormed(c), SameRules(L, K), Serves(K, c)
  PROVE  Serves(L, c)
<1>1. DOMAIN L = DOMAIN K /\ DOMAIN L = 1..PublishedCount(c) + 1
  BY DEF SameRules, Serves
<1>2. \A i \in DOMAIN L :
        /\ L[i].hostname = K[i].hostname
        /\ L[i].path = K[i].path
        /\ L[i].service = K[i].service
        /\ SkipsVerification(L[i]) <=> SkipsVerification(K[i])
  BY DEF SameRules, SameRule, SkipsVerification
<1>3. /\ RouteCount(c) \in Nat /\ PublishedCount(c) \in Nat
      /\ RouteCount(c) <= PublishedCount(c)
      /\ c.ui # NoHostname => PublishedCount(c) \in 1..PublishedCount(c) + 1
  BY DesiredShape
<1>4. /\ 1..RouteCount(c) \subseteq DOMAIN L
      /\ PublishedCount(c) + 1 \in DOMAIN L
      /\ c.ui # NoHostname => PublishedCount(c) \in DOMAIN L
  BY <1>1, <1>3
<1> HIDE DEF SameRules
<1> QED
  BY <1>1, <1>2, <1>4 DEF Serves

LEMMA SameRulesSymmetric ==
  ASSUME NEW L, NEW K, SameRules(L, K)
  PROVE  SameRules(K, L)
BY DEF SameRules, SameRule

\* What BuildIngress and WithUIRule build serves its configuration.
LEMMA DesiredServes ==
  ASSUME NEW c, WellFormed(c)
  PROVE  Serves(Desired(c), c)
<1> DEFINE D == Desired(c)
           M == CarryOverOriginRequests(D, <<>>)
<1>1. \A h : Carriers(<<>>, h) = {}
  BY DEF Carriers
<1>2. Serves(M, c)
  BY MergedServes
<1>3. /\ DOMAIN M = DOMAIN D
      /\ \A i \in DOMAIN D : M[i] = D[i]
  BY <1>1 DEF CarryOverOriginRequests
<1> HIDE DEF D, M
<1>4. SameRules(D, M)
  BY <1>3 DEF SameRules, SameRule
<1>5. Serves(D, c)
  BY <1>2, <1>4, ServesRespectsSameRules
<1> QED
  BY <1>5 DEF D

\* A route is known by what its rule tells.
LEMMA RouteByItsRule ==
  ASSUME NEW r, NEW q,
         r = [hostname |-> r.hostname, target |-> r.target, https |-> r.https],
         q = [hostname |-> q.hostname, target |-> q.target, https |-> q.https],
         r.https \in BOOLEAN, q.https \in BOOLEAN, r.https <=> q.https,
         r.hostname = q.hostname, ServiceURL(r) = ServiceURL(q)
  PROVE  r = q
<1>1. ServiceURL(r)[2] = r.target /\ ServiceURL(q)[2] = q.target
  BY DEF ServiceURL
<1>2. r.target = q.target /\ r.https = q.https
  BY <1>1
<1> QED
  BY <1>2

\* The UI's origin is never that of a route.
LEMMA UIIsNoRoute == ASSUME NEW r PROVE ServiceURL(r) # UIService
<1>1. Len(ServiceURL(r)) = 2
  BY DEF ServiceURL
<1>2. Len(UIService) = 3
  BY DEF UIService
<1> QED
  BY <1>1, <1>2

\* A list of rules serves at most one configuration: hostnames, targets, schemes,
\* their order and the exposed UI can be read off it.
THEOREM OneConfiguration ==
  ASSUME NEW c, NEW d, NEW L, WellFormed(c), WellFormed(d), Serves(L, c), Serves(L, d)
  PROVE  c = d
<1> DEFINE n == RouteCount(c)
           m == RouteCount(d)
<1>1. /\ n \in Nat /\ m \in Nat
      /\ PublishedCount(c) = IF c.ui = NoHostname THEN n ELSE n + 1
      /\ PublishedCount(d) = IF d.ui = NoHostname THEN m ELSE m + 1
      /\ PublishedCount(c) \in Nat /\ PublishedCount(d) \in Nat
  BY DesiredShape
<1>2. PublishedCount(c) = PublishedCount(d)
  <2> DEFINE P == PublishedCount(c) + 1
             Q == PublishedCount(d) + 1
  <2>1. 1..P = 1..Q
    BY DEF Serves
  <2>2. P \in 1..Q /\ Q \in 1..P
    BY <1>1, <2>1
  <2> QED
    BY <1>1, <2>2
<1>3. ASSUME NEW x, NEW y, WellFormed(x), WellFormed(y), Serves(L, x), Serves(L, y),
             PublishedCount(x) = PublishedCount(y), x.ui # NoHostname
      PROVE  y.ui = x.ui
  <2>1. L[PublishedCount(x)].service = UIService /\ L[PublishedCount(x)].hostname = x.ui
    BY <1>3 DEF Serves
  <2>2. CASE y.ui # NoHostname
    BY <1>3, <2>1, <2>2 DEF Serves
  <2>3. CASE y.ui = NoHostname
    <3>1. PublishedCount(y) = RouteCount(y) /\ RouteCount(y) \in Nat /\ RouteCount(y) # 0
      BY <1>3, <2>3, DesiredShape
    <3>2. RouteCount(y) \in 1..RouteCount(y)
      BY <3>1
    <3>3. L[RouteCount(y)].service = ServiceURL(y.routes[RouteCount(y)])
      BY <1>3, <3>2 DEF Serves
    <3> QED
      BY <1>3, <2>1, <3>1, <3>3, UIIsNoRoute
  <2> QED
    BY <2>2, <2>3
<1>4. c.ui = d.ui
  BY <1>2, <1>3
<1>5. n = m
  BY <1>1, <1>2, <1>4
<1>6. c.routes = d.routes
  <2>1. ASSUME NEW i \in 1..n PROVE c.routes[i] = d.routes[i]
    <3> DEFINE r == c.routes[i]
               q == d.routes[i]
    <3>1. /\ r = [hostname |-> r.hostname, target |-> r.target, https |-> r.https]
          /\ q = [hostname |-> q.hostname, target |-> q.target, https |-> q.https]
          /\ r.https \in BOOLEAN /\ q.https \in BOOLEAN
      BY <1>5, <2>1 DEF WellFormed, RouteCount
    <3>2. /\ L[i].hostname = r.hostname /\ L[i].service = ServiceURL(r)
          /\ SkipsVerification(L[i]) <=> r.https
          /\ L[i].hostname = q.hostname /\ L[i].service = ServiceURL(q)
          /\ SkipsVerification(L[i]) <=> q.https
      BY <1>5, <2>1 DEF Serves
    <3> HIDE DEF r, q
    <3>3. r = q
      BY <3>1, <3>2, RouteByItsRule
    <3> QED
      BY <3>3 DEF r, q
  <2>2. /\ c.routes = [i \in 1..n |-> c.routes[i]]
        /\ d.routes = [i \in 1..n |-> d.routes[i]]
    BY <1>5 DEF WellFormed, RouteCount
  <2> QED
    BY <2>1, <2>2
<1> QED
  BY <1>4, <1>6 DEF WellFormed

\* The comparison with the cache takes no configuration for another: a list that
\* was published for one, whatever it carried over from the tunnel, equals the
\* list wanted for another only if the two are the same.
THEOREM CacheTellsApart ==
  ASSUME NEW c, NEW d, NEW R, WellFormed(c), WellFormed(d),
         SameRules(CarryOverOriginRequests(Desired(c), R), Desired(d))
  PROVE  c = d
<1> DEFINE L == CarryOverOriginRequests(Desired(c), R)
<1>1. Serves(L, c)
  BY MergedServes
<1>2. Serves(L, d)
  BY DesiredServes, ServesRespectsSameRules
<1> QED
  BY <1>1, <1>2, OneConfiguration

\* What the Manager knows about the tunnel, unless it was overtaken: its cache
\* is what the tunnel has.  What it is about to write serves its configuration.
CacheInv ==
  /\ CacheIsTunnel
  /\ pc = "put" => Serves(next.ingress, cfg)
  /\ InSync

LEMMA CacheStep == SyncInv /\ CacheInv /\ [Next]_vars => CacheInv'
<1> SUFFICES ASSUME SyncInv, CacheInv, [Next]_vars PROVE CacheInv'
  OBVIOUS
<1> USE DEF CacheInv, CacheIsTunnel
<1>1. ASSUME NEW c \in Configs, SyncLeavesAlone(c) \/ SyncRejects(c)
      PROVE  CacheInv'
  BY <1>1 DEF SyncLeavesAlone, SyncRejects, Returns, InSync, Succeeded
<1>2. ASSUME NEW c \in Configs, SyncSkips(c) PROVE CacheInv'
  <2>1. /\ lastApplied # Nothing /\ SameRules(lastApplied, Desired(c))
        /\ remote' = remote /\ lastApplied' = lastApplied /\ last'.cfg = c
        /\ overtaken' = overtaken /\ pc' = "idle"
    BY <1>2 DEF SyncSkips, Unchanged, Returns
  <2>2. WellFormed(c)
    BY ConfigsAssumption
  <2>3. Serves(lastApplied, c)
    BY <2>1, <2>2, DesiredServes, ServesRespectsSameRules
  <2>4. ~overtaken => Serves(remote.ingress, c)
    BY <2>1, <2>2, <2>3, SameRulesSymmetric, ServesRespectsSameRules
  <2> QED
    BY <2>1, <2>4 DEF InSync
<1>3. ASSUME NEW c \in Configs, SyncAsks(c) PROVE CacheInv'
  BY <1>3 DEF SyncAsks, InSync
<1>4. CASE GetMatches
  <2>1. /\ SameRules(remote.ingress, Merged(cfg))
        /\ remote' = remote /\ lastApplied' = Merged(cfg) /\ last'.cfg = cfg
        /\ cfg \in Configs /\ pc' = "idle"
    BY <1>4 DEF GetMatches, Returns, SyncInv
  <2>2. WellFormed(cfg)
    BY <2>1, ConfigsAssumption
  <2>3. Serves(remote.ingress, cfg)
    BY <2>1, <2>2, MergedOfConfig, ServesRespectsSameRules
  <2>4. SameRules(lastApplied', remote'.ingress)
    BY <2>1, SameRulesSymmetric
  <2> QED
    BY <2>1, <2>3, <2>4 DEF InSync
<1>5. CASE GetDiffers
  <2>1. /\ cfg \in Configs /\ IsConfiguration(remote)
        /\ remote' = remote /\ lastApplied' = lastApplied /\ cfg' = cfg
        /\ overtaken' = overtaken /\ pc' = "put"
        /\ next' = [remote EXCEPT !.ingress = Merged(cfg)]
    BY <1>5 DEF GetDiffers, SyncInv
  <2>2. next'.ingress = Merged(cfg)
    BY <2>1 DEF IsConfiguration
  <2>3. Serves(next'.ingress, cfg')
    BY <2>1, <2>2, MergedOfConfig
  <2> QED
    BY <2>1, <2>3 DEF InSync
<1>6. CASE PutSucceeds
  <2>1. /\ remote' = next /\ lastApplied' = next.ingress /\ last'.cfg = cfg
        /\ pc' = "idle" /\ Serves(next.ingress, cfg)
    BY <1>6 DEF PutSucceeds, Returns
  <2>2. SameRules(lastApplied', remote'.ingress)
    BY <2>1 DEF SameRules, SameRule
  <2> QED
    BY <2>1, <2>2 DEF InSync
<1>7. CASE GetFails \/ PutFails \/ PutResponseLost \/ PutAbandoned
  BY <1>7 DEF GetFails, PutFails, PutResponseLost, PutAbandoned, Returns, InSync,
              Succeeded
<1>8. CASE LatePutLands \/ Dashboard
  BY <1>8 DEF LatePutLands, Dashboard, syncVars, InSync
<1>9. CASE Restart
  BY <1>9 DEF Restart, Returns, InSync, Succeeded
<1>10. CASE UNCHANGED vars
  BY <1>10 DEF vars, syncVars, InSync
<1> QED
  BY <1>1, <1>2, <1>3, <1>4, <1>5, <1>6, <1>7, <1>8, <1>9, <1>10 DEF Next

\* The cache, the write under way and the answer hold throughout.
LEMMA CacheHolds == Spec => []CacheInv
<1>1. Init => CacheInv
  BY DEF Init, CacheInv, CacheIsTunnel, InSync, Succeeded
<1>2. SyncInv /\ CacheInv /\ [Next]_vars => CacheInv'
  BY CacheStep
<1> QED
  BY <1>1, <1>2, SyncInitially, SyncStep, PTL DEF Spec

\* "Sync brings the tunnel's ingress in line with cfg" (Manager.Sync), also
\* when it trusts its cache, whatever fails, is lost, late or edited meanwhile.
THEOREM TrustedCache == Spec => []InSync
<1>1. CacheInv => InSync
  BY DEF CacheInv
<1> QED
  BY <1>1, CacheHolds, PTL

\* The cache of applyIngress is never ahead of the tunnel or behind it, except
\* for what the dashboard and unanswered writes did since.
THEOREM CacheMatchesTunnel == Spec => []CacheIsTunnel
<1>1. CacheInv => CacheIsTunnel
  BY DEF CacheInv
<1> QED
  BY <1>1, CacheHolds, PTL

-----------------------------------------------------------------------------
(* Types.                                                                  *)

\* What was published or is about to be has settings of the tunnel and at
\* least the catch-all rule.
TypeInv ==
  /\ TypeOK
  /\ pc = "put" => next.settings \in Settings /\ next.ingress # <<>>
  /\ late # Nothing => late.settings \in Settings

LEMMA MergedNotEmpty ==
  ASSUME NEW c \in Configs
  PROVE  Merged(c) # <<>>
<1>1. WellFormed(c)
  BY ConfigsAssumption
<1>2. Serves(Merged(c), c)
  BY MergedOfConfig
<1>3. PublishedCount(c) \in Nat /\ DOMAIN Merged(c) = 1..PublishedCount(c) + 1
  BY <1>1, <1>2, DesiredShape DEF Serves
<1>4. 1 \in DOMAIN Merged(c)
  BY <1>3
<1>5. DOMAIN <<>> = {}
  OBVIOUS
<1> QED
  BY <1>4, <1>5

LEMMA TypeStep == SyncInv /\ TypeInv /\ [Next]_vars => TypeInv'
<1> SUFFICES ASSUME SyncInv, TypeInv, [Next]_vars PROVE TypeInv'
  OBVIOUS
<1> USE DEF TypeInv, TypeOK, Outcomes, Succeeded
<1>1. ASSUME NEW c \in Configs,
             SyncLeavesAlone(c) \/ SyncRejects(c) \/ SyncSkips(c)
      PROVE  TypeInv'
  BY <1>1 DEF SyncLeavesAlone, SyncRejects, SyncSkips, Returns
<1>2. ASSUME NEW c \in Configs, SyncAsks(c) PROVE TypeInv'
  BY <1>2, TunnelAssumption DEF SyncAsks
<1>3. CASE GetMatches \/ GetFails
  <2>1. cfg \in Configs
    BY <1>3 DEF SyncInv, GetMatches, GetFails
  <2>2. CASE GetMatches
    BY <2>1, <2>2, MergedNotEmpty DEF GetMatches, Returns
  <2>3. CASE GetFails
    BY <2>1, <2>3 DEF GetFails, Returns
  <2> QED
    BY <1>3, <2>2, <2>3
<1>4. CASE GetDiffers
  <2>1. cfg \in Configs /\ IsConfiguration(remote)
    BY <1>4 DEF GetDiffers, SyncInv
  <2>2. next'.ingress = Merged(cfg) /\ next'.settings = remote.settings
    BY <1>4, <2>1 DEF GetDiffers, IsConfiguration
  <2> QED
    BY <1>4, <2>1, <2>2, MergedNotEmpty DEF GetDiffers
<1>5. CASE PutSucceeds \/ PutFails \/ PutResponseLost \/ PutAbandoned
  <2>1. /\ pc = "put" /\ cfg \in Configs
        /\ next.settings \in Settings /\ next.ingress # <<>>
    BY <1>5 DEF SyncInv, PutSucceeds, PutFails, PutResponseLost, PutAbandoned
  <2>2. CASE PutSucceeds
    BY <2>1, <2>2 DEF PutSucceeds, Returns
  <2>3. CASE PutFails
    BY <2>1, <2>3 DEF PutFails, Returns
  <2>4. CASE PutResponseLost
    BY <2>1, <2>4 DEF PutResponseLost, Returns
  <2>5. CASE PutAbandoned
    BY <2>1, <2>5 DEF PutAbandoned, Returns
  <2> QED
    BY <1>5, <2>2, <2>3, <2>4, <2>5
<1>6. CASE LatePutLands
  BY <1>6 DEF LatePutLands, syncVars
<1>7. CASE Restart
  BY <1>7 DEF Restart, Returns
<1>8. CASE Dashboard
  <2>1. remote'.settings \in Settings
    BY <1>8 DEF SyncInv, IsConfiguration, Dashboard, DashboardEdits,
                DashboardSavesIngress, DashboardSetsOrigin, DashboardSavesSettings
  <2> QED
    BY <1>8, <2>1 DEF Dashboard, syncVars
<1>9. CASE UNCHANGED vars
  BY <1>9 DEF vars, syncVars
<1> QED
  BY <1>1, <1>2, <1>3, <1>4, <1>5, <1>6, <1>7, <1>8, <1>9 DEF Next

\* Types; in particular a list to publish is never empty and nothing is kept of
\* a write when Sync has returned.
THEOREM TunnelTypes == Spec => []TypeOK
<1>1. Init => TypeInv
  <2> SUFFICES ASSUME Init PROVE TypeInv
    OBVIOUS
  <2>1. remote.settings \in Settings
    BY DEF Init, MirrorInit, InitialRemote
  <2>2. last.cfg = Nothing /\ last.outcome = "none"
    BY DEF Init
  <2> QED
    BY <2>1, <2>2 DEF Init, TypeInv, TypeOK, Outcomes
<1>2. TypeInv => TypeOK
  BY DEF TypeInv
<1> QED
  BY <1>1, <1>2, TypeStep, SyncInitially, SyncStep, PTL DEF Spec

=============================================================================
