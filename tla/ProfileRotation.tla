--------------------------- MODULE ProfileRotation ---------------------------
(***************************************************************************)
(* ProfileRotation.cs.  The catalogue is sorted by priority and fixed for  *)
(* the life of the Agent, so a profile is its index and the whole state is *)
(* the index tried next (a null _nextProfileId selects the first profile). *)
(***************************************************************************)
EXTENDS Integers

CONSTANT NumProfiles

ASSUME ProfileAssumption == NumProfiles \in Nat \ {0}

Profiles == 1..NumProfiles

\* Mutant: the rotation runs past the end of the catalogue.
MovePastUnwrapped(p) == p + 1

MovePast(p) == (p % NumProfiles) + 1

\* The profile at position i (from 0) of the order that starts at first.
Order(first, i) == ((first - 1 + i) % NumProfiles) + 1

\* Enumerating Order lazily under a filter on the attempted set: the first
\* profile from the captured start that no attempt has used yet, if any.
Untried(first, attempted) ==
  {Order(first, i) : i \in {k \in 0..(NumProfiles - 1) :
     /\ Order(first, k) \notin attempted
     /\ \A j \in 0..(k - 1) : Order(first, j) \in attempted}}
=============================================================================
