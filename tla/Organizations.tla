--------------------------- MODULE Organizations ----------------------------
(***************************************************************************)
(* The tenants: organizations with their status, loyalty type and programs  *)
(* (organizations/models.py), what the director does to them               *)
(* (director/views.py), the memberships of their administrators, and the    *)
(* requests of administrators, which carry a copy of the membership and the *)
(* organization from their authentication to their operation.              *)
(*                                                                         *)
(* A PATCH is one transaction at READ COMMITTED that reads the organization *)
(* without a lock: its read, its check, its first UPDATE (which takes the   *)
(* row lock) and its commit are separate actions.  So are the two halves of *)
(* the requests that grant and revoke the access of an administrator.       *)
(* The Mut... operators are deliberate faults that no definition uses.      *)
(***************************************************************************)
EXTENDS Integers, Sequences

CONSTANTS
    Orgs,         \* organizations that may be created
    Users,        \* phone numbers
    Patches,      \* threads of the server that serve the director's PATCH requests
    Grants,       \* threads that serve his POST and DELETE of an administrator
    Requests,     \* threads that serve administrators
    Terms,        \* values of a program's numbers
    DefaultTerms, \* the value a program has when nothing is given
    MaxPatches,   \* bound: PATCH requests sent
    MaxMembers,   \* bound: memberships
    MaxTxs        \* bound: ledger entries

ASSUME OrganizationsAssumption ==
    /\ DefaultTerms \in Terms
    /\ {MaxPatches, MaxMembers, MaxTxs} \subseteq Nat

VARIABLES
    orgs,     \* organizations, by primary key
    programs, \* the visit and the cash-back program of each
    users,    \* the role of the account with this phone, or "absent"
    members,  \* OrganizationAdmin rows, in the order of creation
    patches,  \* the PATCH each thread is serving
    sent,     \* PATCH requests sent so far
    grants,   \* the POST or DELETE of an administrator each thread is serving
    requests, \* the authenticated request each thread is serving
    txs,      \* the ledger: who entered or reversed what for which organization
    blocked   \* organizations the director has blocked and not unblocked since

vars == <<orgs, programs, users, members, patches, sent, grants, requests, txs, blocked>>

-----------------------------------------------------------------------------
(* Rows and threads *)

None == 0
Absent == [absent |-> TRUE]
Idle == [phase |-> "idle"]

LoyaltyType == {"VISIT", "CASHBACK"}

\* PATCH declares loyalty_type as a plain string: "OTHER" is any string that is not a choice.
PatchedType == LoyaltyType \cup {"OTHER"}

OrganizationStatus == {"ACTIVE", "BLOCKED"}
Organization == [type : PatchedType, status : OrganizationStatus]

\* terms stands for the numbers of a program.
Program == [terms : Terms, isActive : BOOLEAN]
DefaultProgram == [terms |-> DefaultTerms, isActive |-> TRUE]

\* The settings a request names: none, the numbers or the switch.
NoEdit == <<>>
Edit == {NoEdit} \cup [terms : Terms] \cup [isActive : BOOLEAN]

\* Organization.program: whatever is not VISIT is served by the cash-back program.
ProgramKind(type) == IF type = "VISIT" THEN "VISIT" ELSE "CASHBACK"

Role == {"absent", "USER", "ORGANIZATION_ADMIN"}
Member == [org : Orgs, user : Users, active : BOOLEAN]

\* read is the row of get_object, type and edit the validated data (a program's edit is
\* for one kind of program), program the one found after the UPDATE of the organization.
Patch == [phase : {"check", "save"}, org : Orgs, read : Organization,
          type : PatchedType, kind : LoyaltyType, edit : Edit]
Saving == [phase : {"commit"}, org : Orgs, read : Organization,
           type : PatchedType, kind : LoyaltyType, edit : Edit, program : Program]

\* active is the membership found, known whether the phone had an account.
Grant == [phase : {"grant"}, org : Orgs, user : Users, known : BOOLEAN, active : Nat]
Revocation == [phase : {"revoke"}, active : Nat \ {0}]

\* user._active_admin_membership and its organization, as authentication read them.
Request == [phase : {"authenticated"}, member : Nat \ {0}, organization : Organization]

\* member is the membership that let the request in, none for the director; related the
\* entry that a reversal takes back.
Tx == [org : Orgs, kind : LoyaltyType \cup {"REVERSAL"}, member : Nat, related : Nat,
       status : {"COMPLETED", "REVERSED"}]

Exists(o) == orgs[o] # Absent
HasTransactions(o) == \E i \in DOMAIN txs : txs[i].org = o
ActiveOf(o) == {i \in DOMAIN members : members[i].org = o /\ members[i].active}
ActiveFor(u) == {i \in DOMAIN members : members[i].user = u /\ members[i].active}

-----------------------------------------------------------------------------
(* The director: organizations *)

\* POST of an organization, one block: the row and the program of its type.
CreateOrganization(o, type, terms) ==
    /\ ~Exists(o)
    /\ orgs' = [orgs EXCEPT ![o] = [type |-> type, status |-> "ACTIVE"]]
    /\ programs' = [programs EXCEPT ![o][type] = [terms |-> terms, isActive |-> TRUE]]
    /\ UNCHANGED <<users, members, patches, sent, grants, requests, txs, blocked>>

\* get_object, then the serializer: the data must fit the type in the request or, if
\* there is none, the type just read.
PatchRead(p, o, type, kind, edit) ==
    /\ patches[p] = Idle
    /\ Exists(o)
    /\ sent < MaxPatches
    /\ IF edit = NoEdit THEN kind = ProgramKind(type) ELSE type \in LoyaltyType => kind = type
    /\ sent' = sent + 1
    /\ patches' = [patches EXCEPT ![p] = [phase |-> "check", org |-> o, read |-> orgs[o],
                                          type |-> type, kind |-> kind, edit |-> edit]]
    /\ UNCHANGED <<orgs, programs, users, members, grants, requests, txs, blocked>>

\* Changing the type is refused once there are transactions: the query is a step of its own.
PatchCheck(p) ==
    /\ patches[p].phase = "check"
    /\ patches' = [patches EXCEPT ![p] =
          IF @.type # @.read.type /\ HasTransactions(@.org) THEN Idle
          ELSE [@ EXCEPT !.phase = "save"]]
    /\ UNCHANGED <<orgs, programs, users, members, sent, grants, requests, txs, blocked>>

MutUnlocked(o) == TRUE

\* Nobody holds the row lock of this organization.
Unlocked(o) == \A p \in Patches : patches[p].phase = "commit" => patches[p].org # o

MutSavedKind(p) == ProgramKind(patches[p].read.type)

\* The program that a PATCH looks up after it has set the organization's type.
SavedKind(p) == ProgramKind(patches[p].type)

\* organization.save() updates every column, which takes the row lock until the commit;
\* get_or_create of the program follows.
PatchSave(p) ==
    LET found == programs[patches[p].org][SavedKind(p)] IN
    /\ patches[p].phase = "save"
    /\ Unlocked(patches[p].org)
    /\ patches' = [patches EXCEPT ![p] =
          [phase |-> "commit", org |-> @.org, read |-> @.read, type |-> @.type, kind |-> @.kind,
           edit |-> @.edit, program |-> IF found = Absent THEN DefaultProgram ELSE found]]
    /\ UNCHANGED <<orgs, programs, users, members, sent, grants, requests, txs, blocked>>

\* The program with the settings the request names, and all others as they were read.
Edited(p) ==
    LET edit == IF patches[p].kind = SavedKind(p) THEN patches[p].edit ELSE NoEdit
        old == patches[p].program
    IN  [terms    |-> IF "terms" \in DOMAIN edit THEN edit.terms ELSE old.terms,
         isActive |-> IF "isActive" \in DOMAIN edit THEN edit.isActive ELSE old.isActive]

\* program.save() and the commit: the columns of the organization that the request does
\* not name get the values read at the start.
PatchCommit(p) ==
    /\ patches[p].phase = "commit"
    /\ orgs' = [orgs EXCEPT ![patches[p].org] =
          [type |-> patches[p].type, status |-> patches[p].read.status]]
    /\ programs' = [programs EXCEPT ![patches[p].org][SavedKind(p)] = Edited(p)]
    /\ patches' = [patches EXCEPT ![p] = Idle]
    /\ UNCHANGED <<users, members, sent, grants, requests, txs, blocked>>

\* The process dies or the database refuses: the transaction is rolled back.
PatchAbort(p) ==
    /\ patches[p] # Idle
    /\ patches' = [patches EXCEPT ![p] = Idle]
    /\ UNCHANGED <<orgs, programs, users, members, sent, grants, requests, txs, blocked>>

\* block and unblock: an UPDATE of the columns of the status alone, which waits for the lock.
Block(o) ==
    /\ Exists(o)
    /\ Unlocked(o)
    /\ orgs' = [orgs EXCEPT ![o].status = "BLOCKED"]
    /\ blocked' = blocked \cup {o}
    /\ UNCHANGED <<programs, users, members, patches, sent, grants, requests, txs>>

Unblock(o) ==
    /\ Exists(o)
    /\ Unlocked(o)
    /\ orgs' = [orgs EXCEPT ![o].status = "ACTIVE"]
    /\ blocked' = blocked \ {o}
    /\ UNCHANGED <<programs, users, members, patches, sent, grants, requests, txs>>

-----------------------------------------------------------------------------
(* The director: administrators *)

\* complete_registration of a client.
Register(u) ==
    /\ users[u] = "absent"
    /\ users' = [users EXCEPT ![u] = "USER"]
    /\ UNCHANGED <<orgs, programs, members, patches, sent, grants, requests, txs, blocked>>

\* The unlocked reads of POST and its three refusals.
GrantRead(g, o, u, replace) ==
    /\ grants[g] = Idle
    /\ Exists(o)
    /\ users[u] # "USER"
    /\ ActiveOf(o) # {} => replace
    /\ \E active \in IF ActiveOf(o) = {} THEN {None} ELSE ActiveOf(o) :
          grants' = [grants EXCEPT ![g] = [phase |-> "grant", org |-> o, user |-> u,
                                           known |-> users[u] # "absent", active |-> active]]
    /\ UNCHANGED <<orgs, programs, users, members, patches, sent, requests, txs, blocked>>

\* Memberships after the writes of POST: the one found and every other one of this user
\* are inactive, the new one is active.
Granted(g) ==
    Append([i \in DOMAIN members |-> [members[i] EXCEPT !.active =
               @ /\ i # grants[g].active /\ members[i].user # grants[g].user]],
           [org |-> grants[g].org, user |-> grants[g].user, active |-> TRUE])

MutUnique(rows) == TRUE

\* The partial unique constraints: one active membership of an organization and of a user.
Unique(rows) ==
    \A i, j \in DOMAIN rows :
        /\ rows[i].active /\ rows[j].active
        /\ rows[i].org = rows[j].org \/ rows[i].user = rows[j].user
        => i = j

MutPhoneFree(g) == TRUE

\* A user that was not found is inserted: the phone must still be free.
PhoneFree(g) == grants[g].known \/ users[grants[g].user] = "absent"

\* The writes of POST; a violated constraint rolls all of them back (GrantAbort).
GrantCommit(g) ==
    /\ grants[g].phase = "grant"
    /\ Len(members) < MaxMembers
    /\ PhoneFree(g)
    /\ Unique(Granted(g))
    /\ users' = [users EXCEPT ![grants[g].user] = "ORGANIZATION_ADMIN"]
    /\ members' = Granted(g)
    /\ grants' = [grants EXCEPT ![g] = Idle]
    /\ UNCHANGED <<orgs, programs, patches, sent, requests, txs, blocked>>

GrantAbort(g) ==
    /\ grants[g] # Idle
    /\ grants' = [grants EXCEPT ![g] = Idle]
    /\ UNCHANGED <<orgs, programs, users, members, patches, sent, requests, txs, blocked>>

\* DELETE reads the active membership and then saves it by its primary key.
RevokeRead(g, o) ==
    /\ grants[g] = Idle
    /\ \E active \in ActiveOf(o) :
          grants' = [grants EXCEPT ![g] = [phase |-> "revoke", active |-> active]]
    /\ UNCHANGED <<orgs, programs, users, members, patches, sent, requests, txs, blocked>>

RevokeCommit(g) ==
    /\ grants[g].phase = "revoke"
    /\ members' = [members EXCEPT ![grants[g].active].active = FALSE]
    /\ grants' = [grants EXCEPT ![g] = Idle]
    /\ UNCHANGED <<orgs, programs, users, patches, sent, requests, txs, blocked>>

-----------------------------------------------------------------------------
(* Requests of administrators *)

\* AlaSoftJWTAuthentication.get_user: one query reads the active membership with its
\* organization; the user object keeps both for the rest of the request.
Authenticate(r, u) ==
    /\ requests[r] = Idle
    /\ users[u] = "ORGANIZATION_ADMIN"
    /\ \E i \in ActiveFor(u) :
          /\ orgs[members[i].org].status = "ACTIVE"
          /\ requests' = [requests EXCEPT ![r] = [phase |-> "authenticated", member |-> i,
                                                  organization |-> orgs[members[i].org]]]
    /\ UNCHANGED <<orgs, programs, users, members, patches, sent, grants, txs, blocked>>

\* current_organization: the one of the cached membership.
CurrentOrganization(r) == members[requests[r].member].org

\* An operation: ensure_organization_operational on the copy of the organization, whose
\* program is fetched only now, and the entry.
Operate(r) ==
    LET o == CurrentOrganization(r)
        kind == requests[r].organization.type
    IN
    /\ requests[r] # Idle
    /\ kind \in LoyaltyType
    /\ programs[o][kind] # Absent
    /\ programs[o][kind].isActive
    /\ Len(txs) < MaxTxs
    /\ txs' = Append(txs, [org |-> o, kind |-> kind, member |-> requests[r].member,
                           related |-> None, status |-> "COMPLETED"])
    /\ requests' = [requests EXCEPT ![r] = Idle]
    /\ UNCHANGED <<orgs, programs, users, members, patches, sent, grants, blocked>>

MutOfTenant(r, t) == TRUE

\* The tenancy check of reverse_transaction: any identifier of an entry may be asked for.
OfTenant(r, t) == txs[t].org = CurrentOrganization(r)

\* The entry is neither reversed nor a reversal.
Reversible(t) == txs[t].status = "COMPLETED" /\ txs[t].related = None

\* The ledger once t is reversed: the compensating entry is one of t's organization.
Reversed(t, member) ==
    Append([txs EXCEPT ![t].status = "REVERSED"],
           [org |-> txs[t].org, kind |-> "REVERSAL", member |-> member, related |-> t,
            status |-> "COMPLETED"])

\* An administrator reverses an entry.  There is no ensure_organization_operational here:
\* neither a block nor a program switched off since the authentication is noticed.
Reverse(r, t) ==
    /\ requests[r] # Idle
    /\ OfTenant(r, t)
    /\ Reversible(t)
    /\ Len(txs) < MaxTxs
    /\ txs' = Reversed(t, requests[r].member)
    /\ requests' = [requests EXCEPT ![r] = Idle]
    /\ UNCHANGED <<orgs, programs, users, members, patches, sent, grants, blocked>>

\* The director reverses an entry of any organization.
DirectorReverse(t) ==
    /\ Reversible(t)
    /\ Len(txs) < MaxTxs
    /\ txs' = Reversed(t, None)
    /\ UNCHANGED <<orgs, programs, users, members, patches, sent, grants, requests, blocked>>

\* A query, a refusal or the death of the process.
Finish(r) ==
    /\ requests[r] # Idle
    /\ requests' = [requests EXCEPT ![r] = Idle]
    /\ UNCHANGED <<orgs, programs, users, members, patches, sent, grants, txs, blocked>>

-----------------------------------------------------------------------------

Init ==
    /\ orgs = [o \in Orgs |-> Absent]
    /\ programs = [o \in Orgs |-> [kind \in LoyaltyType |-> Absent]]
    /\ users = [u \in Users |-> "absent"]
    /\ members = <<>>
    /\ patches = [p \in Patches |-> Idle]
    /\ sent = 0
    /\ grants = [g \in Grants |-> Idle]
    /\ requests = [r \in Requests |-> Idle]
    /\ txs = <<>>
    /\ blocked = {}

\* A PATCH that names no type is the same as one that names the type it reads.
Patching(p) ==
    \/ \E o \in Orgs, type \in PatchedType, kind \in LoyaltyType, edit \in Edit :
          PatchRead(p, o, type, kind, edit)
    \/ PatchCheck(p) \/ PatchSave(p) \/ PatchCommit(p) \/ PatchAbort(p)

Granting(g) ==
    \/ \E o \in Orgs, u \in Users, replace \in BOOLEAN : GrantRead(g, o, u, replace)
    \/ \E o \in Orgs : RevokeRead(g, o)
    \/ GrantCommit(g) \/ RevokeCommit(g) \/ GrantAbort(g)

Requesting(r) ==
    \/ \E u \in Users : Authenticate(r, u)
    \/ \E t \in DOMAIN txs : Reverse(r, t)
    \/ Operate(r) \/ Finish(r)

Next ==
    \/ \E o \in Orgs, type \in LoyaltyType, terms \in Terms : CreateOrganization(o, type, terms)
    \/ \E o \in Orgs : Block(o) \/ Unblock(o)
    \/ \E u \in Users : Register(u)
    \/ \E t \in DOMAIN txs : DirectorReverse(t)
    \/ \E p \in Patches : Patching(p)
    \/ \E g \in Grants : Granting(g)
    \/ \E r \in Requests : Requesting(r)

Spec == Init /\ [][Next]_vars

-----------------------------------------------------------------------------
(* Properties *)

\* Every row and thread has its shape, what a thread has read still points at a row, and
\* the memberships meet the constraints uniq_active_admin_per_org and
\* uniq_active_org_per_admin, however creations and revocations overlap.
TypeOK ==
    /\ orgs \in [Orgs -> Organization \cup {Absent}]
    /\ programs \in [Orgs -> [LoyaltyType -> Program \cup {Absent}]]
    /\ users \in [Users -> Role]
    /\ members \in Seq(Member)
    /\ \A i, j \in DOMAIN members :
          members[i].active /\ members[j].active /\ i # j =>
              members[i].org # members[j].org /\ members[i].user # members[j].user
    /\ patches \in [Patches -> Patch \cup Saving \cup {Idle}]
    /\ sent \in Nat
    /\ grants \in [Grants -> Grant \cup Revocation \cup {Idle}]
    /\ requests \in [Requests -> Request \cup {Idle}]
    /\ txs \in Seq(Tx)
    /\ blocked \in SUBSET Orgs

\* Organization.program is never missing: the program that belongs to the type of an
\* organization exists, also when two PATCH requests that read different types overlap.
ProgramOfType ==
    \A o \in Orgs : Exists(o) => programs[o][ProgramKind(orgs[o].type)] # Absent

\* A setting changes only by a request that names it: no PATCH writes back an old value
\* of a program over the setting another one has just saved.
ProgramEditsKept ==
    [][\A o \in Orgs, kind \in LoyaltyType :
          programs[o][kind] # Absent =>
              \A f \in {"terms", "isActive"} :
                  programs'[o][kind][f] # programs[o][kind][f] =>
                      \E p \in Patches :
                          /\ patches[p].phase = "commit" /\ patches'[p] = Idle
                          /\ patches[p].org = o
                          /\ f \in DOMAIN patches[p].edit]_vars

\* A client who has registered never becomes an administrator: "this phone is already used
\* by a client" holds also for one who registers while the director's request is under way.
ClientsStayClients ==
    [][\A u \in Users : users[u] = "USER" => users'[u] = "USER"]_vars

\* Tenant isolation of reversals: what an administrator took back belongs to the
\* organization whose membership let his request in, whatever entry he asked for and
\* wherever he was moved in between; and no entry is taken back twice, by him and the
\* director or by the administrator who came after him.
TenantIsolation ==
    \A i \in DOMAIN txs : txs[i].related # None =>
        /\ txs[i].member # None => members[txs[i].member].org = txs[txs[i].related].org
        /\ \A j \in DOMAIN txs : txs[j].related = txs[i].related => i = j

\* "When an organization is blocked, the token issued stops working at once": what the
\* director has blocked and not unblocked is not open to authentication.
BlockHolds ==
    \A o \in blocked : orgs[o].status = "BLOCKED"

=============================================================================
