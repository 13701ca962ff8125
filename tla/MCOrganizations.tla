-------------------------- MODULE MCOrganizations ---------------------------
(* A small instance of Organizations for TLC. *)
EXTENDS Organizations, FiniteSets, TLC

Symmetry ==
    Permutations(Orgs) \cup Permutations(Users) \cup Permutations(Patches)
        \cup Permutations(Grants) \cup Permutations(Requests)

Busy(threads) == Cardinality({x \in DOMAIN threads : threads[x] # Idle})

\* Before the first PATCH there are two organizations, two administrators and two requests
\* that grant or revoke, one of them once there is a ledger; from then on one organization,
\* one entry and at most one membership, which stays.  No PATCH reads or writes a
\* membership or more of the ledger than whether it is empty, and no grant or revocation
\* reads or writes the ledger or more of an organization than that it exists.
PatchesOrGrants ==
    \/ /\ sent = 0
       /\ \A o \in Orgs, kind \in LoyaltyType :
             programs[o][kind] # Absent => programs[o][kind].terms = DefaultTerms
       /\ txs # <<>> => Busy(grants) <= 1
    \/ /\ Cardinality({o \in Orgs : Exists(o)}) <= 1
       /\ Cardinality({u \in Users : users[u] # "absent"}) <= 1
       /\ Len(members) <= 1 /\ Len(txs) <= 1
       /\ Busy(grants) = 0

=============================================================================
