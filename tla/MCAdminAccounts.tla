--------------------------- MODULE MCAdminAccounts ---------------------------
(* Instances of AdminAccounts for TLC.                                     *)
EXTENDS AdminAccounts, TLC

CONSTANTS t1, t2, u1, u2, u3, s1

Threads == {t1, t2}
Users == {u1, u2, u3}
OneSession == {s1}

\* A default mapped again, twice over, a group of the operator's, and a role that
\* does not exist for another default.
OperatorPairs ==
  <<<<"luksmith-admins", "helpdesk">>, <<"ops", "owner">>,
    <<"luksmith-admins", "admin">>, <<"luksmith-auditors", "root">>>>

\* Up to three groups; nobody has mapped "staff".
Groups == {"luksmith-owners", "luksmith-admins", "luksmith-auditors", "ops", "staff"}
Headers == UNION {[1..n -> Groups] : n \in 0..3}

\* TLC compares the two algorithms on these lists when it starts.
ASSUME SameRoles == RoleMapsAgree

Sym == Permutations(Threads) \cup Permutations(Users)
=============================================================================
