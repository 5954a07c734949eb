----------------------------- MODULE MCCustomer -----------------------------
(***************************************************************************)
(* The instance of CustomerParts that TLC checks.                          *)
(***************************************************************************)
EXTENDS CustomerParts, TLC

CONSTANTS
    a1, a2, b1, b2,   \* two pairs of names, which Customer.cfg gives to all parts
    a3,               \* a third, where a case needs three
    t1

As == {a1, a2}
Bs == {b1, b2}
OwnerOf == [p \in Projects |-> t1]
TwoSteps == <<"first", "second">>

\* The registries that rest have the users of the first registry
OneInit == AllInit /\ (part = "accounts" \/ \A r \in As : kind[r] = "users")

OneSpec == OneInit /\ [][AllNext]_allVars

-----------------------------------------------------------------------------

\* Bound: sweeps and missions meet only in the rows of the URL registry, so that
\* sweeps are explored after the missions: those that have a row ended, the others
\* were not submitted.  Sweeps do not look at the tenant, which is active meanwhile.
SweepsAfterMissions ==
    (incidents # <<>> \/ \E s \in Sweeps : sweep[s] # Idle) =>
        /\ \A m \in Missions : job[m].stage \in {"idle", "end"}
        /\ Cardinality({m \in Missions : job[m].stage = "end"}) = Len(urls)
        /\ \A t \in Tenants : tenant[t] = "ACTIVE"

\* Bound: the third recovery is asked for where one URL is registered, at which all
\* sweeps look
ThirdOfOneUrl == repairs = 3 => Len(urls) = 1

\* Bound: the third conversation begins when another has ended
ThirdComesLater ==
    chat[a3].at = "idle" \/ \E r \in As : chat[r].at \in {"answered", "lost"}

\* Bound: once a cycle recovered an incident that another had resolved, which needs
\* cycles that overlap, both parts of OutageHasOneIncident allow for it from then on
UntilRevived == ~revived

Bounds == UntilRevived /\ SweepsAfterMissions /\ ThirdOfOneUrl /\ ThirdComesLater

\* The names of a pair are interchangeable
PairSymmetry == Permutations(As) \cup Permutations(Bs)

=============================================================================
