-------------------------- MODULE TwoPersonRelease --------------------------
(***************************************************************************)
(* What the two-person reveal promises: a request is made by one user,     *)
(* granted or refused once by another, and a granted request yields a key  *)
(* at most once.                                                           *)
(***************************************************************************)
EXTENDS Naturals

CONSTANTS User, Request, None

VARIABLES
  asked,    \* who made the request, None if nobody did
  granted,  \* who granted it
  refused,  \* it was refused
  given     \* how often it yielded a key

Init ==
  /\ asked = [r \in Request |-> None]
  /\ granted = [r \in Request |-> None]
  /\ refused = [r \in Request |-> FALSE]
  /\ given = [r \in Request |-> 0]

Ask(r, u) ==
  /\ asked[r] = None
  /\ asked' = [asked EXCEPT ![r] = u]
  /\ UNCHANGED <<granted, refused, given>>

Undecided(r, u) == asked[r] \notin {None, u} /\ granted[r] = None /\ ~refused[r]

Grant(r, u) ==
  /\ Undecided(r, u)
  /\ granted' = [granted EXCEPT ![r] = u]
  /\ UNCHANGED <<asked, refused, given>>

Refuse(r, u) ==
  /\ Undecided(r, u)
  /\ refused' = [refused EXCEPT ![r] = TRUE]
  /\ UNCHANGED <<asked, granted, given>>

Release(r) ==
  /\ granted[r] # None /\ given[r] = 0
  /\ given' = [given EXCEPT ![r] = 1]
  /\ UNCHANGED <<asked, granted, refused>>

Next ==
  \E r \in Request :
    \/ \E u \in User : Ask(r, u) \/ Grant(r, u) \/ Refuse(r, u)
    \/ Release(r)

Spec == Init /\ [][Next]_<<asked, granted, refused, given>>

-----------------------------------------------------------------------------
(* What follows from it.                                                   *)

TypeOK ==
  /\ asked \in [Request -> User \cup {None}]
  /\ granted \in [Request -> User \cup {None}]
  /\ refused \in [Request -> BOOLEAN]
  /\ given \in [Request -> {0, 1}]

\* Two people stand behind every key that was given, and behind every request
\* that can yield one.
TwoPeople ==
  \A r \in Request :
    /\ granted[r] # None => asked[r] \notin {None, granted[r]} /\ ~refused[r]
    /\ given[r] = 1 => granted[r] # None

\* Nothing of a request is taken back: who asked and how it was decided stay,
\* and a key that was given is not given again.
Final ==
  \A r \in Request :
    /\ asked[r] # None => asked'[r] = asked[r]
    /\ granted[r] # None \/ refused[r] =>
         granted'[r] = granted[r] /\ refused'[r] = refused[r]
    /\ given[r] = 1 => given'[r] = 1
=============================================================================
