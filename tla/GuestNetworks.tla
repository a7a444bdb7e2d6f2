--------------------------- MODULE GuestNetworks ---------------------------
(***************************************************************************)
(* What DockFlare promises whoever owns the Docker networks it moves in:   *)
(* a guest enters where a container of its list was found to be, stays as  *)
(* long as it serves, whatever reloads and failed calls do meanwhile, and  *)
(* on leaving asks to be taken out of what it remembers to have entered,   *)
(* and of nothing else.  A guest that does not know itself enters nothing. *)
(***************************************************************************)
EXTENDS Naturals

CONSTANTS Containers, Nets, Home

VARIABLES
  networks,  \* the networks of each container
  member,    \* the networks DockFlare is in
  tracking,  \* DockFlare knows its own container
  phase,     \* "serving", "leaving" or "gone"
  list,      \* the containers of its file
  invited,   \* networks a container of the list was just found in
  mine,      \* networks it remembers to have entered
  byOthers   \* number of things others did

othersVars == <<networks, byOthers>>
guestVars  == <<tracking, phase, list, invited, mine>>
vars == <<othersVars, member, guestVars>>

Init ==
  /\ networks \in [Containers -> SUBSET Nets]
  /\ member = Home
  /\ tracking \in BOOLEAN
  /\ phase = "serving"
  /\ list = {} /\ invited = {} /\ mine = {}
  /\ byOthers = 0

\* A reload begins, or ends.
Configure ==
  /\ list' \in SUBSET Containers
  /\ invited = {}
  /\ UNCHANGED <<othersVars, member, tracking, phase, invited, mine>>

\* It sees where a container of its list is.
Meet(c) ==
  /\ c \in list /\ tracking
  /\ invited = {} /\ invited' = networks[c]
  /\ UNCHANGED <<othersVars, member, tracking, phase, list, mine>>

\* It is there already, or gives up.
Declines(n) ==
  /\ invited' = invited \ {n}
  /\ UNCHANGED <<othersVars, member, tracking, phase, list, mine>>

\* It may have been there before, and may not learn that it has entered.
Enters(n) ==
  /\ n \in invited
  /\ invited' = invited \ {n}
  /\ member' = member \union {n}
  /\ mine' \in {mine, mine \union {n}}
  /\ UNCHANGED <<othersVars, tracking, phase, list>>

TurnsToLeave ==
  /\ phase = "serving" /\ phase' = "leaving"
  /\ UNCHANGED <<othersVars, member, tracking, list, invited, mine>>

Leaves(n) ==
  /\ phase = "leaving"
  /\ n \in mine
  /\ member' = member \ {n}
  /\ UNCHANGED <<othersVars, guestVars>>

IsGone ==
  /\ phase' = "gone" /\ list' = {} /\ invited' = {}
  /\ UNCHANGED <<othersVars, member, tracking, mine>>

\* Memberships outlive the process, or the container is created anew.
Returns ==
  /\ phase = "gone" /\ phase' = "serving"
  /\ member' \in {member, Home}
  /\ mine' = {}
  /\ UNCHANGED <<othersVars, tracking, list, invited>>

\* What others do, to their containers or to DockFlare, is theirs.
Others ==
  /\ networks' \in [Containers -> SUBSET Nets]
  /\ member' \in SUBSET member
  /\ byOthers' = byOthers + 1
  /\ UNCHANGED guestVars

Next ==
  \/ Configure \/ TurnsToLeave \/ IsGone \/ Returns \/ Others
  \/ \E c \in Containers : Meet(c)
  \/ \E n \in Nets : Declines(n) \/ Enters(n) \/ Leaves(n)

Spec == Init /\ [][Next]_vars

=============================================================================
