------------------------------- MODULE RoleMap -------------------------------
(***************************************************************************)
(* The role of an identity that the proxy asserts, from the groups that it *)
(* asserts with it, as each of the two portals computes it.                *)
(***************************************************************************)
EXTENDS Naturals, Sequences

CONSTANTS
  Pairs,       \* --sso-group-map: a sequence of <<group, role>>
  GroupLists   \* what X-Auth-Request-Groups lists: sequences of groups

ASSUME PairsAssumption == Pairs \in Seq(STRING \X STRING)
ASSUME GroupListsAssumption == GroupLists \subseteq Seq(STRING)

Rank == [owner |-> 3, admin |-> 2, helpdesk |-> 1, auditor |-> 0]
Role == DOMAIN Rank

Defaults == <<<<"luksmith-owners", "owner">>, <<"luksmith-admins", "admin">>,
              <<"luksmith-auditors", "auditor">>>>

\* The last pair of the group that has a role counts, after the defaults.
MapsTo(g, r) ==
  LET all == Defaults \o Pairs IN
  \E i \in DOMAIN all :
    /\ all[i] = <<g, r>> /\ r \in Role
    /\ \A j \in i + 1..Len(all) : all[j][1] = g => all[j][2] \notin Role

\* Python's map_role: the greatest of the roles that match.
Matched(groups) == {r \in Role : \E i \in DOMAIN groups : MapsTo(groups[i], r)}
MapRole(groups) ==
  IF Matched(groups) = {} THEN "helpdesk"
  ELSE CHOOSE r \in Matched(groups) : \A q \in Matched(groups) : Rank[q] <= Rank[r]

\* Go's mapGroups: one group after the other, "" as long as none has matched.
MapGroups(groups) ==
  LET Better(r, best) == best = "" \/ Rank[r] > Rank[best]
      matched[i \in 0..Len(groups)] ==
        IF i = 0 THEN ""
        ELSE IF \E r \in Role : MapsTo(groups[i], r) /\ Better(r, matched[i - 1])
             THEN CHOOSE r \in Role : MapsTo(groups[i], r)
             ELSE matched[i - 1]
  IN  IF matched[Len(groups)] = "" THEN "helpdesk" ELSE matched[Len(groups)]

\* The contract has both portals give an identity the same role: the order of
\* the groups, repetitions, groups nobody mapped and pairs that map a group again
\* or to no role make no difference between them.
RoleMapsAgree == \A groups \in GroupLists : MapRole(groups) = MapGroups(groups)
=============================================================================
