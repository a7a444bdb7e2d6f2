---------------------------- MODULE NetworkProofs ----------------------------
(***************************************************************************)
(* What holds of Networks for any containers, networks, configurations and *)
(* number of changes: types, what joinedNets says, what Sync and Resolve   *)
(* establish, what Disconnect leaves behind, and the refinement of         *)
(* GuestNetworks.                                                          *)
(***************************************************************************)
EXTENDS Networks, TLAPS

-----------------------------------------------------------------------------
(* Types.                                                                  *)

LEMMA TypeInit == Init => TypeOK
BY NetworksAssumption DEF Init, TypeOK, Idle, Serving

LEMMA TypeSync ==
  ASSUME TypeOK, NEW c \in Containers,
         ContainerUnread(c) \/ ContainerAbsent(c) \/ ContainerInspected(c)
  PROVE  TypeOK'
<1> USE DEF TypeOK, AtContainer, dockerVars, othersVars, mainVars
<1>1. CASE ContainerUnread(c)
  BY <1>1 DEF ContainerUnread
<1>2. CASE ContainerAbsent(c)
  BY <1>2 DEF ContainerAbsent
<1>3. CASE ContainerInspected(c)
  <2>1. at' \in [container : config.list, left : (SUBSET Nets) \ {{}}] \union {Nothing}
    <3>1. c \in config.list /\ networks[c] \in SUBSET Nets
      BY <1>3 DEF ContainerInspected
    <3>2. CASE at' = Nothing
      BY <3>2
    <3>3. CASE at' # Nothing
      <4>1. at' = [container |-> c, left |-> networks[c]] /\ networks[c] # {}
        BY <1>3, <3>3 DEF ContainerInspected, Working
      <4>2. networks[c] \in (SUBSET Nets) \ {{}}
        BY ONLY <3>1, <4>1
      <4>3. UNCHANGED config
        BY <1>3 DEF ContainerInspected
      <4> QED
        BY ONLY <3>1, <4>1, <4>2, <4>3
    <3> QED
      BY <3>2, <3>3
  <2>2. at' # Nothing => tracking
    BY <1>3 DEF ContainerInspected
  <2> QED
    BY <1>3, <2>1, <2>2 DEF ContainerInspected
<1> QED
  BY <1>1, <1>2, <1>3

LEMMA TypeJoin ==
  ASSUME TypeOK, NEW n \in Nets,
         \/ NetworkKnown(n) \/ NetworkJoined(n)
         \/ NetworkFails(n) \/ NetworkAnswerLost(n)
  PROVE  TypeOK'
<1> USE DEF TypeOK, AtNetwork, othersVars, mainVars
<1>1. AtNetwork(n)
  BY DEF NetworkKnown, NetworkJoined, NetworkFails, NetworkAnswerLost
<1>2. /\ at' \in [container : config.list, left : (SUBSET Nets) \ {{}}] \union {Nothing}
      /\ pc = "containers" /\ tracking
  BY <1>1 DEF Working
<1>3. /\ member' \in SUBSET Nets /\ joined' \in SUBSET Nets
      /\ joined \subseteq joined' /\ made' \in SUBSET Nets
      /\ leftover' \in SUBSET Nets /\ settled' \in SUBSET Containers
  <2>1. CASE NetworkKnown(n)
    BY <2>1 DEF NetworkKnown
  <2>2. CASE NetworkJoined(n)
    BY <2>2 DEF NetworkJoined, Connects
  <2>3. CASE NetworkFails(n)
    BY <2>3 DEF NetworkFails
  <2>4. CASE NetworkAnswerLost(n)
    BY <2>4 DEF NetworkAnswerLost, Connects
  <2> QED
    BY <2>1, <2>2, <2>3, <2>4
<1> QED
  BY <1>1, <1>2, <1>3

LEMMA TypeRoutes ==
  ASSUME TypeOK, NEW c \in Containers, RouteUnread(c) \/ RouteChecked(c)
  PROVE  TypeOK'
<1> USE DEF TypeOK, AtRoute, dockerVars, othersVars, mainVars, Reasons
<1>1. CASE RouteUnread(c)
  BY <1>1 DEF RouteUnread
<1>2. CASE RouteChecked(c)
  <2>1. Problem(c) \subseteq Reasons
    BY DEF Problem
  <2>2. c \in config.routes
    BY <1>2 DEF RouteChecked
  <2>3. problems' \in SUBSET [container : config.routes, why : Reasons]
    BY <1>2, <2>1, <2>2 DEF RouteChecked
  <2>4. reached' \in SUBSET Containers
    BY <1>2 DEF RouteChecked
  <2> QED
    BY <1>2, <2>3, <2>4 DEF RouteChecked
<1> QED
  BY <1>1, <1>2

LEMMA TypeReload == ASSUME TypeOK, Reload PROVE TypeOK'
<1> USE DEF TypeOK, dockerVars, othersVars, mainVars, pastVars, syncVars
<1>1. ASSUME NEW c \in Configs, NEW x \in {"main", "request"}, SyncBegins(c, x)
      PROVE  TypeOK'
  BY <1>1 DEF SyncBegins, Ended
<1>2. CASE SyncDone
  BY <1>2 DEF SyncDone
<1>3. CASE ReloadDone
  BY <1>3 DEF ReloadDone, ReloadEnds, Idle, Serving, Ended
<1> QED
  BY <1>1, <1>2, <1>3, TypeSync, TypeJoin, TypeRoutes DEF Reload

LEMMA TypeMain == ASSUME TypeOK, Main PROVE TypeOK'
<1> USE DEF TypeOK, dockerVars, othersVars, mainVars, pastVars, syncVars,
            Serving, Ended
<1>1. CASE Cancel
  BY <1>1 DEF Cancel
<1>2. CASE DisconnectBegins
  BY <1>2 DEF DisconnectBegins
<1>3. ASSUME NEW n \in Nets, Leave(n) \/ LeaveFails(n)
      PROVE  TypeOK'
  BY <1>3 DEF Leave, LeaveFails, Leaving
<1>4. CASE Exit
  BY <1>4 DEF Exit, Ends, ReloadEnds, Idle
<1>5. CASE Killed
  BY <1>5 DEF Killed, Ends, ReloadEnds, Idle
<1>6. CASE Restarted
  BY <1>6, NetworksAssumption DEF Restarted
<1> QED
  BY <1>1, <1>2, <1>3, <1>4, <1>5, <1>6 DEF Main, Disconnect, DisconnectGoesOn

LEMMA TypeOthers == ASSUME TypeOK, Others PROVE TypeOK'
<1> USE NetworksAssumption DEF TypeOK, mainVars, othersVars, syncVars
<1>1. ASSUME NEW c \in Containers, ContainerChanges(c)
      PROVE  TypeOK'
  BY <1>1 DEF ContainerChanges
<1>2. ASSUME NEW n \in Nets, NetworkLost(n)
      PROVE  TypeOK'
  BY <1>2 DEF NetworkLost
<1> QED
  BY <1>1, <1>2 DEF Others

LEMMA TypeStep == TypeOK /\ [Next]_vars => TypeOK'
<1> SUFFICES ASSUME TypeOK, [Next]_vars
             PROVE  TypeOK'
  OBVIOUS
<1>1. CASE Next
  BY <1>1, TypeReload, TypeMain, TypeOthers DEF Next
<1>2. CASE UNCHANGED vars
  BY <1>2 DEF TypeOK, vars, dockerVars, othersVars, mainVars, syncVars, pastVars
<1> QED
  BY <1>1, <1>2

\* Every variable keeps its type; Disconnect leaves nothing it has not joined.
THEOREM NetworkTypes == Spec => []TypeOK
BY TypeInit, TypeStep, PTL DEF Spec

-----------------------------------------------------------------------------
(* joinedNets and the memberships.                                         *)

\* A process that does not know its own container joins nothing.
Untracked == ~tracking => joined = {} /\ made = {}

\* What this process made it remembers, unless the answer was lost.
Remembered == mainPc \in Serving => made \subseteq joined \union leftover

\* Disconnect still has to leave whatever it may leave.
StillToLeave ==
  mainPc = "leaving" => (joined \union made) \intersect member \subseteq leftover \union leaves

MemberInv == Untracked /\ JoinedIsTrue /\ Remembered /\ StillToLeave /\ ExitLeaves

LEMMA MemberJoin ==
  ASSUME TypeOK, MemberInv, NEW n \in Nets,
         \/ NetworkKnown(n) \/ NetworkJoined(n)
         \/ NetworkFails(n) \/ NetworkAnswerLost(n)
  PROVE  MemberInv'
<1> USE DEF MemberInv, Untracked, JoinedIsTrue, Remembered, StillToLeave,
            ExitLeaves, AtNetwork, mainVars
<1>1. /\ tracking /\ UNCHANGED <<mainPc, tracking, leaves, lost>>
      /\ mainPc # "stopped"
  BY DEF TypeOK, Ended, NetworkKnown, NetworkJoined, NetworkFails, NetworkAnswerLost
<1>2. CASE NetworkKnown(n)
  BY <1>1, <1>2 DEF NetworkKnown
<1>3. CASE NetworkJoined(n)
  BY <1>1, <1>3 DEF NetworkJoined, Connects, Serving
<1>4. CASE NetworkFails(n)
  BY <1>1, <1>4 DEF NetworkFails
<1>5. CASE NetworkAnswerLost(n)
  BY <1>1, <1>5 DEF NetworkAnswerLost, Connects
<1> QED
  BY <1>2, <1>3, <1>4, <1>5

LEMMA MemberReload == ASSUME TypeOK, MemberInv, Reload PROVE MemberInv'
<1>1. CASE UNCHANGED <<joined, member, made, leftover, lost, leaves, tracking, mainPc>>
  BY <1>1 DEF MemberInv, Untracked, JoinedIsTrue, Remembered, StillToLeave, ExitLeaves
<1>2. ASSUME NEW n \in Nets,
             \/ NetworkKnown(n) \/ NetworkJoined(n)
             \/ NetworkFails(n) \/ NetworkAnswerLost(n)
      PROVE  MemberInv'
  BY <1>2, MemberJoin
<1>3. CASE ReloadDone
  <2>1. UNCHANGED <<joined, member, made, leftover, lost, leaves, tracking>>
    BY <1>3 DEF ReloadDone, dockerVars, pastVars
  <2>2. \/ mainPc' = mainPc
        \/ mainPc = "boot" /\ mainPc' \in {"running", "failed"}
    BY <1>3 DEF ReloadDone
  <2> QED
    BY <2>1, <2>2 DEF MemberInv, Untracked, JoinedIsTrue, Remembered, StillToLeave,
                      ExitLeaves, Serving
<1>4. ASSUME NEW c \in Containers,
             \/ ContainerUnread(c) \/ ContainerAbsent(c) \/ ContainerInspected(c)
             \/ RouteUnread(c) \/ RouteChecked(c)
      PROVE  UNCHANGED <<joined, member, made, leftover, lost, leaves, tracking, mainPc>>
  BY <1>4 DEF ContainerUnread, ContainerAbsent, ContainerInspected, RouteUnread,
              RouteChecked, AtContainer, AtRoute, dockerVars, mainVars
<1>5. ASSUME NEW c \in Configs, NEW x \in {"main", "request"},
             SyncBegins(c, x) \/ SyncDone
      PROVE  UNCHANGED <<joined, member, made, leftover, lost, leaves, tracking, mainPc>>
  BY <1>5 DEF SyncBegins, SyncDone, dockerVars, mainVars, pastVars
<1>6. SyncDone => UNCHANGED <<joined, member, made, leftover, lost, leaves, tracking, mainPc>>
  BY DEF SyncDone, dockerVars, mainVars, pastVars
<1> QED
  BY <1>1, <1>2, <1>3, <1>4, <1>5, <1>6 DEF Reload

LEMMA MemberMain == ASSUME TypeOK, MemberInv, Main PROVE MemberInv'
<1> USE DEF MemberInv, Untracked, JoinedIsTrue, Remembered, StillToLeave,
            ExitLeaves, Serving, Ended, dockerVars, mainVars, pastVars
<1>1. CASE Cancel
  BY <1>1 DEF Cancel
<1>2. CASE DisconnectBegins
  BY <1>2 DEF DisconnectBegins
<1>3. ASSUME NEW n \in Nets, Leave(n) \/ LeaveFails(n)
      PROVE  MemberInv'
  BY <1>3 DEF Leave, LeaveFails, Leaving
<1>4. CASE Exit
  BY <1>4 DEF Exit, Ends
<1>5. CASE Killed
  BY <1>5 DEF Killed, Ends
<1>6. CASE Restarted
  BY <1>6 DEF Restarted
<1> QED
  BY <1>1, <1>2, <1>3, <1>4, <1>5, <1>6 DEF Main, Disconnect, DisconnectGoesOn

LEMMA MemberOthers == ASSUME TypeOK, MemberInv, Others PROVE MemberInv'
<1> USE DEF MemberInv, Untracked, JoinedIsTrue, Remembered, StillToLeave,
            ExitLeaves, mainVars
<1>1. ASSUME NEW c \in Containers, ContainerChanges(c)
      PROVE  MemberInv'
  BY <1>1 DEF ContainerChanges
<1>2. ASSUME NEW n \in Nets, NetworkLost(n)
      PROVE  MemberInv'
  BY <1>2 DEF NetworkLost
<1> QED
  BY <1>1, <1>2 DEF Others

LEMMA MemberInvariant == Spec => []MemberInv
<1>1. Init => MemberInv
  BY DEF Init, MemberInv, Untracked, JoinedIsTrue, Remembered, StillToLeave,
         ExitLeaves
<1>2. TypeOK /\ MemberInv /\ [Next]_vars => MemberInv'
  <2> SUFFICES ASSUME TypeOK, MemberInv, [Next]_vars
               PROVE  MemberInv'
    OBVIOUS
  <2>1. CASE Next
    BY <2>1, MemberReload, MemberMain, MemberOthers DEF Next
  <2>2. CASE UNCHANGED vars
    BY <2>2 DEF vars, dockerVars, mainVars, pastVars, MemberInv, Untracked,
                JoinedIsTrue, Remembered, StillToLeave, ExitLeaves
  <2> QED
    BY <2>1, <2>2
<1> QED
  BY <1>1, <1>2, NetworkTypes, PTL DEF Spec

\* joinedNets never claims a membership that was not granted.
THEOREM JoinedNetsAreTrue == Spec => []JoinedIsTrue
BY MemberInvariant, PTL DEF MemberInv

\* An orderly exit takes DockFlare out of everything it knows it joined.
THEOREM DisconnectLeaves == Spec => []ExitLeaves
BY MemberInvariant, PTL DEF MemberInv

-----------------------------------------------------------------------------
(* What Sync and Resolve establish.                                        *)

\* Every network of a settled container is in joinedNets or still to come.
SettledJoined ==
  tracking /\ mainPc \notin Ended =>
    \A c \in settled : networks[c] \ Pending(c) \subseteq joined

SettledPresent == settled \subseteq present

ReachedJoined ==
  tracking => \A c \in reached : \E n \in networks[c] : n \in joined

\* Routes are checked when the joins are over.
ChecksComeLast == problems # {} => pc = "routes"

SyncInv == SettledJoined /\ SettledPresent /\ ReachedJoined /\ ChecksComeLast /\ NoFalseAlarm

\* No container is touched, and no network forgotten.
LEMMA SyncElsewhere ==
  ASSUME SyncInv, UNCHANGED <<present, networks, tracking, settled, reached, at>>,
         joined \subseteq joined', mainPc \in Ended => mainPc' \in Ended,
         problems' = {} \/ UNCHANGED <<problems, pc>>
  PROVE  SyncInv'
BY DEF SyncInv, SettledJoined, SettledPresent, ReachedJoined, ChecksComeLast,
       NoFalseAlarm, Pending

LEMMA SyncContainer ==
  ASSUME TypeOK, SyncInv, NEW c \in Containers,
         ContainerUnread(c) \/ ContainerAbsent(c) \/ ContainerInspected(c)
  PROVE  SyncInv'
<1> USE DEF SyncInv, AtContainer, dockerVars, othersVars, mainVars
<1>1. CASE ContainerUnread(c)
  BY <1>1, SyncElsewhere DEF ContainerUnread
<1>2. CASE ContainerAbsent(c)
  BY <1>2, SyncElsewhere DEF ContainerAbsent
<1>3. CASE ContainerInspected(c)
  <2>1. /\ problems = {} /\ pc = "containers" /\ at = Nothing /\ c \in present
        /\ settled' = settled \union {c}
        /\ UNCHANGED <<present, networks, tracking, joined, mainPc, pc, problems, reached>>
    BY <1>3 DEF ContainerInspected, ChecksComeLast
  <2>2. SettledJoined'
    <3> SUFFICES ASSUME tracking, mainPc \notin Ended, NEW k \in settled'
                 PROVE  networks[k] \ Pending(k)' \subseteq joined
      BY <2>1 DEF SettledJoined
    <3>1. CASE k # c
      BY <2>1, <3>1 DEF SettledJoined, Pending
    <3>2. CASE k = c
      <4>1. at' = Working(c, networks[c])
        BY <1>3 DEF ContainerInspected
      <4>2. CASE networks[c] = {}
        BY <3>2, <4>2
      <4>3. CASE networks[c] # {}
        <5>1. at' = [container |-> c, left |-> networks[c]]
          BY <4>1, <4>3 DEF Working
        <5>2. at' # Nothing
          <6>1. TypeOK'
            BY <1>3, TypeSync
          <6>2. networks[c] \in SUBSET Nets
            BY DEF TypeOK
          <6> QED
            BY <5>1, <6>2, NetworksAssumption
        <5> QED
          BY <3>2, <5>1, <5>2 DEF Pending
      <4> QED
        BY <4>2, <4>3
    <3> QED
      BY <3>1, <3>2
  <2>3. SettledPresent' /\ ReachedJoined' /\ ChecksComeLast' /\ NoFalseAlarm'
    BY <2>1 DEF SettledPresent, ReachedJoined, ChecksComeLast, NoFalseAlarm
  <2> QED
    BY <2>2, <2>3
<1> QED
  BY <1>1, <1>2, <1>3

LEMMA SyncNetwork ==
  ASSUME TypeOK, SyncInv, NEW n \in Nets,
         \/ NetworkKnown(n) \/ NetworkJoined(n)
         \/ NetworkFails(n) \/ NetworkAnswerLost(n)
  PROVE  SyncInv'
<1>1. /\ AtNetwork(n) /\ joined \subseteq joined'
      /\ \/ n \in joined' /\ settled' = settled
         \/ settled' = settled \ {at.container}
  BY DEF NetworkKnown, NetworkJoined, NetworkFails, NetworkAnswerLost
<1>2. /\ at # Nothing /\ n \in at.left /\ pc = "containers"
      /\ at' = Working(at.container, at.left \ {n})
      /\ UNCHANGED <<present, networks, tracking, mainPc, pc, problems, reached>>
  BY <1>1 DEF AtNetwork, TypeOK, othersVars, mainVars
<1>3. /\ at.left \in SUBSET Nets /\ at.container \in Containers
  <2>1. at \in [container : config.list, left : (SUBSET Nets) \ {{}}]
    BY <1>2 DEF TypeOK
  <2>2. config.list \subseteq Containers
    BY NetworksAssumption DEF TypeOK, Idle
  <2> QED
    BY <2>1, <2>2
<1>4. \A c : Pending(c) \ {n} \subseteq Pending(c)'
  <2> SUFFICES ASSUME NEW c, at.container = c
               PROVE  at.left \ {n} \subseteq Pending(c)'
    BY DEF Pending
  <2>1. CASE at.left \ {n} # {}
    <3>1. at' = [container |-> at.container, left |-> at.left \ {n}]
      BY <1>2, <2>1 DEF Working
    <3>2. at' # Nothing
      BY <1>3, <3>1, NetworksAssumption
    <3> QED
      BY <3>1, <3>2 DEF Pending
  <2> QED
    BY <2>1
<1>5. SettledJoined'
  <2> SUFFICES ASSUME tracking, mainPc \notin Ended, NEW c \in settled'
               PROVE  networks[c] \ Pending(c)' \subseteq joined'
    BY <1>2 DEF SettledJoined
  <2>1. networks[c] \ Pending(c) \subseteq joined
    BY <1>1 DEF SyncInv, SettledJoined
  <2>2. CASE n \in joined'
    BY <1>1, <1>4, <2>1, <2>2
  <2>3. CASE c # at.container
    <3>1. Pending(c) = {}
      BY <2>3 DEF Pending
    <3> QED
      BY <1>1, <2>1, <3>1
  <2> QED
    BY <1>1, <2>2, <2>3
<1>6. SettledPresent' /\ ReachedJoined' /\ ChecksComeLast' /\ NoFalseAlarm'
  BY <1>1, <1>2 DEF SyncInv, SettledPresent, ReachedJoined, ChecksComeLast, NoFalseAlarm
<1> QED
  BY <1>5, <1>6 DEF SyncInv

LEMMA SyncRoute ==
  ASSUME TypeOK, SyncInv, NEW c \in Containers, RouteUnread(c) \/ RouteChecked(c)
  PROVE  SyncInv'
<1>1. /\ pc = "routes" /\ at = Nothing
      /\ UNCHANGED <<present, networks, tracking, joined, mainPc, pc, at, settled>>
  BY DEF RouteUnread, RouteChecked, AtRoute, TypeOK, dockerVars, othersVars, mainVars
<1>2. SettledJoined' /\ SettledPresent' /\ ChecksComeLast'
  BY <1>1 DEF SyncInv, SettledJoined, SettledPresent, ChecksComeLast, Pending
<1>3. CASE RouteUnread(c)
  BY <1>1, <1>2, <1>3 DEF RouteUnread, SyncInv, ReachedJoined, NoFalseAlarm
<1>4. CASE RouteChecked(c)
  <2>1. ReachedJoined'
    BY <1>1, <1>4 DEF RouteChecked, Problem, SyncInv, ReachedJoined
  <2>2. ASSUME NEW w \in Problem(c), c \in settled
        PROVE  /\ w = "unreachable" => networks[c] = {}
               /\ w # "absent"
    <3>1. c \in present
      BY <2>2 DEF SyncInv, SettledPresent
    <3>2. ASSUME w = "unreachable"
          PROVE  networks[c] = {}
      <4>1. tracking /\ networks[c] \intersect joined = {}
        BY <2>2, <3>1, <3>2 DEF Problem
      <4>2. mainPc \notin Ended
        BY <1>1 DEF TypeOK
      <4>3. networks[c] \subseteq joined
        BY <1>1, <2>2, <4>1, <4>2 DEF SyncInv, SettledJoined, Pending
      <4> QED
        BY <4>1, <4>3
    <3> QED
      BY <3>1, <3>2, <2>2 DEF Problem
  <2>3. NoFalseAlarm'
    BY <1>1, <1>4, <2>2 DEF RouteChecked, SyncInv, NoFalseAlarm
  <2> QED
    BY <1>2, <2>1, <2>3 DEF SyncInv
<1> QED
  BY <1>3, <1>4

LEMMA SyncMain ==
  ASSUME TypeOK, SyncInv, Main \/ SyncDone \/ ReloadDone
  PROVE  SyncInv'
<1>1. CASE SyncDone
  BY <1>1 DEF SyncDone, SyncInv, SettledJoined, SettledPresent, ReachedJoined,
              ChecksComeLast, NoFalseAlarm, Pending, dockerVars, othersVars,
              mainVars, syncVars, pastVars
<1>2. CASE ReloadDone
  <2>1. at' = at
    BY <1>2 DEF ReloadDone, ReloadEnds, TypeOK
  <2> QED
    BY <1>2, <2>1, SyncElsewhere DEF ReloadDone, ReloadEnds, TypeOK, Ended,
                  dockerVars, othersVars, pastVars
<1>3. CASE Cancel \/ DisconnectBegins
  BY <1>3, SyncElsewhere DEF Cancel, DisconnectBegins, Ended, dockerVars,
                             othersVars, syncVars, pastVars
<1>4. ASSUME NEW n \in Nets, Leave(n) \/ LeaveFails(n)
      PROVE  SyncInv'
  <2>1. /\ UNCHANGED <<present, networks, tracking, settled, reached, at, problems,
                       pc, joined, mainPc>>
    BY <1>4 DEF Leave, LeaveFails, Leaving, othersVars, syncVars
  <2> QED
    BY <2>1, SyncElsewhere
<1>5. CASE Exit \/ Killed
  <2>1. /\ mainPc' \in Ended /\ problems' = {}
        /\ UNCHANGED <<present, networks, tracking, joined, settled, reached>>
    BY <1>5 DEF Exit, Killed, Ends, ReloadEnds, Ended, dockerVars, othersVars, pastVars
  <2> QED
    BY <2>1 DEF SyncInv, SettledJoined, SettledPresent, ReachedJoined,
                ChecksComeLast, NoFalseAlarm
<1>6. CASE Restarted
  BY <1>6 DEF Restarted, TypeOK, Ended, SyncInv, SettledJoined, SettledPresent,
              ReachedJoined, ChecksComeLast, NoFalseAlarm, othersVars, syncVars
<1> QED
  BY <1>1, <1>2, <1>3, <1>4, <1>5, <1>6 DEF Main, Disconnect, DisconnectGoesOn

LEMMA SyncOthers == ASSUME TypeOK, SyncInv, Others PROVE SyncInv'
<1>1. ASSUME NEW c \in Containers, ContainerChanges(c)
      PROVE  SyncInv'
  <2>1. /\ settled' = settled \ {c} /\ reached' = reached \ {c}
        /\ \A k \in settled' \union reached' : networks'[k] = networks[k]
        /\ settled' \subseteq present'
        /\ UNCHANGED <<tracking, joined, mainPc, pc, at, problems>>
    BY <1>1 DEF ContainerChanges, TypeOK, SyncInv, SettledPresent, mainVars, syncVars
  <2> QED
    BY <2>1 DEF SyncInv, SettledJoined, SettledPresent, ReachedJoined,
                ChecksComeLast, NoFalseAlarm, Pending
<1>2. ASSUME NEW n \in Nets, NetworkLost(n)
      PROVE  SyncInv'
  BY <1>2, SyncElsewhere DEF NetworkLost, othersVars, mainVars, syncVars
<1> QED
  BY <1>1, <1>2 DEF Others

LEMMA SyncInvariant == Spec => []SyncInv
<1>1. Init => SyncInv
  BY DEF Init, SyncInv, SettledJoined, SettledPresent, ReachedJoined,
         ChecksComeLast, NoFalseAlarm
<1>2. TypeOK /\ SyncInv /\ [Next]_vars => SyncInv'
  <2> SUFFICES ASSUME TypeOK, SyncInv, [Next]_vars
               PROVE  SyncInv'
    OBVIOUS
  <2>1. ASSUME NEW c \in Configs, NEW x \in {"main", "request"}, SyncBegins(c, x)
        PROVE  SyncInv'
    BY <2>1, SyncElsewhere DEF SyncBegins, dockerVars, othersVars, mainVars, pastVars
  <2>2. CASE Reload
    BY <2>1, <2>2, SyncContainer, SyncNetwork, SyncRoute, SyncMain DEF Reload
  <2>3. CASE Main
    BY <2>3, SyncMain
  <2>4. CASE Others
    BY <2>4, SyncOthers
  <2>5. CASE UNCHANGED vars
    BY <2>5, SyncElsewhere DEF vars, dockerVars, othersVars, mainVars, syncVars, pastVars
  <2> QED
    BY <2>2, <2>3, <2>4, <2>5 DEF Next
<1> QED
  BY <1>1, <1>2, NetworkTypes, PTL DEF Spec

\* A Sync that met no error has put DockFlare into every network of the
\* container.
THEOREM SyncReachesAll == Spec => []SyncConnects
<1>1. JoinedIsTrue /\ SettledJoined => SyncConnects
  BY DEF JoinedIsTrue, SettledJoined, SyncConnects, Serving, Ended
<1> QED
  BY <1>1, MemberInvariant, SyncInvariant, PTL DEF MemberInv, SyncInv

\* Whatever Resolve accepts, DockFlare can reach.
THEOREM AcceptedRoutesAreReachable == Spec => []AcceptedIsReachable
<1>1. JoinedIsTrue /\ ReachedJoined => AcceptedIsReachable
  BY DEF JoinedIsTrue, ReachedJoined, AcceptedIsReachable
<1> QED
  BY <1>1, MemberInvariant, SyncInvariant, PTL DEF MemberInv, SyncInv

\* Joining first, Resolve finds no fault with a container that Sync settled.
THEOREM ResolveIsFair == Spec => []NoFalseAlarm
BY SyncInvariant, PTL DEF SyncInv

-----------------------------------------------------------------------------
(* The guest.                                                              *)

\* A file lists containers.
LEMMA ListedExist == TypeOK => config.list \subseteq Containers
BY NetworksAssumption DEF TypeOK, Idle

\* Entering: a step of Sync with a network of the container at hand.
LEMMA GuestJoin ==
  ASSUME TypeOK, NEW n \in Nets,
         \/ NetworkKnown(n) \/ NetworkJoined(n)
         \/ NetworkFails(n) \/ NetworkAnswerLost(n)
  PROVE  Guest!Declines(n) \/ Guest!Enters(n)
<1>1. AtNetwork(n)
  BY DEF NetworkKnown, NetworkJoined, NetworkFails, NetworkAnswerLost
<1> DEFINE left == IF at = Nothing THEN {} ELSE at.left
<1>2. n \in left /\ left' = left \ {n}
  <2>1. at # Nothing /\ n \in at.left /\ left = at.left
    BY <1>1 DEF AtNetwork
  <2>2. CASE at.left \ {n} = {}
    BY <1>1, <2>1, <2>2 DEF AtNetwork, Working
  <2>3. CASE at.left \ {n} # {}
    <3>1. at' = [container |-> at.container, left |-> at.left \ {n}]
      BY <1>1, <2>3 DEF AtNetwork, Working
    <3>2. at' \in [container : Containers, left : SUBSET Nets]
      BY <2>1, <3>1, ListedExist DEF TypeOK
    <3> QED
      BY <2>1, <3>1, <3>2, NetworksAssumption
  <2> QED
    BY <2>2, <2>3
<1>3. UNCHANGED <<networks, changes, tracking, mainPc, config>>
  BY <1>1 DEF AtNetwork, othersVars, mainVars
<1>4. CASE NetworkKnown(n)
  BY <1>2, <1>3, <1>4 DEF NetworkKnown, Guest!Declines, Guest!othersVars
<1>5. CASE NetworkFails(n)
  BY <1>2, <1>3, <1>5 DEF NetworkFails, Guest!Declines, Guest!othersVars
<1>6. CASE NetworkJoined(n)
  BY <1>2, <1>3, <1>6 DEF NetworkJoined, Connects, Guest!Enters, Guest!othersVars
<1>7. CASE NetworkAnswerLost(n)
  BY <1>2, <1>3, <1>7 DEF NetworkAnswerLost, Connects, Guest!Enters, Guest!othersVars
<1> QED
  BY <1>4, <1>5, <1>6, <1>7

LEMMA GuestReload == ASSUME TypeOK, Reload PROVE [Guest!Next]_(Guest!vars)
<1> USE DEF Guest!Next, Guest!vars, Guest!othersVars, Guest!guestVars
<1>1. ASSUME NEW c \in Configs, NEW x \in {"main", "request"}, SyncBegins(c, x)
      PROVE  Guest!Configure
  <2>1. at = Nothing /\ at' = Nothing
    BY <1>1 DEF SyncBegins, TypeOK
  <2>2. config'.list \in SUBSET Containers
    BY <1>1, NetworksAssumption DEF SyncBegins
  <2> QED
    BY <1>1, <2>1, <2>2
       DEF SyncBegins, Guest!Configure, dockerVars, othersVars, mainVars
<1>2. ASSUME NEW c \in Containers,
             ContainerUnread(c) \/ ContainerAbsent(c) \/ RouteUnread(c) \/ RouteChecked(c)
      PROVE  UNCHANGED Guest!vars
  BY <1>2 DEF ContainerUnread, ContainerAbsent, AtContainer, RouteUnread,
              RouteChecked, AtRoute, dockerVars, othersVars, mainVars
<1>3. ASSUME NEW c \in Containers, ContainerInspected(c)
      PROVE  Guest!Meet(c) \/ UNCHANGED Guest!vars
  <2>1. /\ at = Nothing /\ c \in config.list
        /\ UNCHANGED <<networks, changes, member, tracking, mainPc, config, joined>>
    BY <1>3 DEF ContainerInspected, AtContainer, TypeOK, dockerVars, othersVars,
                mainVars
  <2>2. CASE ~tracking
    BY <1>3, <2>1, <2>2 DEF ContainerInspected
  <2>3. CASE tracking /\ networks[c] = {}
    BY <1>3, <2>1, <2>3 DEF ContainerInspected, Working, Guest!Meet
  <2>4. CASE tracking /\ networks[c] # {}
    <3>1. at' = [container |-> c, left |-> networks[c]]
      BY <1>3, <2>4 DEF ContainerInspected, Working
    <3>2. at' # Nothing
      BY <3>1, NetworksAssumption DEF TypeOK
    <3> QED
      BY <2>1, <2>4, <3>1, <3>2 DEF Guest!Meet
  <2> QED
    BY <2>2, <2>3, <2>4
<1>4. CASE SyncDone
  BY <1>4 DEF SyncDone, dockerVars, othersVars, mainVars, syncVars
<1>5. CASE ReloadDone
  <2>1. at = Nothing /\ at' = Nothing /\ config'.list = {}
    BY <1>5 DEF ReloadDone, ReloadEnds, TypeOK, Idle
  <2>2. UNCHANGED <<networks, changes, member, tracking, joined>>
    BY <1>5 DEF ReloadDone, dockerVars, othersVars
  <2>3. \/ mainPc' = mainPc
        \/ mainPc = "boot" /\ mainPc' = "running"
        \/ mainPc = "boot" /\ mainPc' = "failed"
    BY <1>5 DEF ReloadDone
  <2>4. mainPc' = mainPc \/ (mainPc = "boot" /\ mainPc' = "running")
          => Guest!Configure
    BY <2>1, <2>2 DEF Guest!Configure, Serving
  <2>5. mainPc = "boot" /\ mainPc' = "failed" => Guest!IsGone
    BY <2>1, <2>2 DEF Guest!IsGone, Serving
  <2> QED
    BY <2>3, <2>4, <2>5
<1> QED
  BY <1>1, <1>2, <1>3, <1>4, <1>5, GuestJoin DEF Reload

\* Leaving: Disconnect asks for what joinedNets held, and nothing but Disconnect
\* takes DockFlare out of a network.
LEMMA GuestMain == ASSUME TypeOK, Main PROVE [Guest!Next]_(Guest!vars)
<1> USE DEF Guest!Next, Guest!vars, Guest!othersVars, Guest!guestVars,
            dockerVars, othersVars, syncVars
<1>1. CASE Cancel
  BY <1>1 DEF Cancel, Serving
<1>2. CASE DisconnectBegins
  BY <1>2 DEF DisconnectBegins, Serving, Guest!TurnsToLeave
<1>3. ASSUME NEW n \in Nets, Leave(n) \/ LeaveFails(n)
      PROVE  Guest!Leaves(n) \/ UNCHANGED Guest!vars
  <2>1. /\ mainPc = "leaving" /\ n \in joined
        /\ UNCHANGED <<networks, changes, joined, mainPc, tracking, config, at>>
    BY <1>3 DEF Leave, LeaveFails, Leaving, TypeOK
  <2>2. member' = member \ {n} \/ UNCHANGED member
    BY <1>3 DEF Leave, LeaveFails
  <2> QED
    BY <2>1, <2>2 DEF Guest!Leaves, Serving
<1>4. ASSUME NEW how \in Ended, Ends(how)
      PROVE  Guest!IsGone
  BY <1>4 DEF Ends, ReloadEnds, Idle, Guest!IsGone, Serving, Ended
<1>5. CASE Restarted
  BY <1>5 DEF Restarted, Guest!Returns, Serving, Ended
<1> QED
  BY <1>1, <1>2, <1>3, <1>4, <1>5 DEF Main, Disconnect, DisconnectGoesOn, Exit, Killed, Ended

LEMMA GuestOthers == ASSUME TypeOK, Others PROVE Guest!Others
<1> USE DEF Guest!Others, Guest!guestVars, mainVars, othersVars, syncVars, TypeOK
<1>1. ASSUME NEW c \in Containers, ContainerChanges(c)
      PROVE  Guest!Others
  BY <1>1 DEF ContainerChanges
<1>2. ASSUME NEW n \in Nets, NetworkLost(n)
      PROVE  Guest!Others
  BY <1>2 DEF NetworkLost
<1> QED
  BY <1>1, <1>2 DEF Others

\* Everything that happens to DockFlare's memberships is a step of GuestNetworks:
\* it enters where a listed container was just found, leaves nothing while it
\* serves, and then only what it remembers to have entered.
THEOREM StaysAGuest == Spec => GuestSpec
<1>1. Init => Guest!Init
  BY NetworksAssumption DEF Init, Guest!Init, Idle, Serving
<1>2. TypeOK /\ [Next]_vars => [Guest!Next]_(Guest!vars)
  <2> SUFFICES ASSUME TypeOK, [Next]_vars
               PROVE  [Guest!Next]_(Guest!vars)
    OBVIOUS
  <2>1. CASE UNCHANGED vars
    BY <2>1 DEF vars, dockerVars, othersVars, mainVars, syncVars, Guest!vars,
                Guest!othersVars, Guest!guestVars
  <2> QED
    BY <2>1, GuestReload, GuestMain, GuestOthers DEF Next, Guest!Next
<1> QED
  BY <1>1, <1>2, NetworkTypes, PTL DEF Spec, GuestSpec, Guest!Spec

=============================================================================
