------------------------- MODULE OrganizationsProofs ------------------------
(***************************************************************************)
(* Theorems about Organizations, for any organizations, phones and numbers  *)
(* of overlapping requests.                                                *)
(*                                                                         *)
(* The invariant has two halves.  DirectorInv is about the organizations,   *)
(* their programs and the PATCH requests; its heart is that at most one of  *)
(* them is between its UPDATE and its commit per organization, so that the  *)
(* program it found is still the one in the table.  AdminInv is about the   *)
(* accounts, the memberships and what is done with them; the constraints    *)
(* on memberships and the phone carry it, and the ledger (LedgerOK) rests   *)
(* on what a thread has read of a membership.  A step changes one half and  *)
(* leaves the rows of the other alone.                                     *)
(***************************************************************************)
EXTENDS Organizations, SequenceTheorems, TLAPS

DirectorTypes ==
    /\ orgs \in [Orgs -> Organization \cup {Absent}]
    /\ programs \in [Orgs -> [LoyaltyType -> Program \cup {Absent}]]
    /\ patches \in [Patches -> Patch \cup Saving \cup {Idle}]
    /\ sent \in Nat
    /\ blocked \in SUBSET Orgs

\* A PATCH is about an organization that exists; of those that have updated their row, there
\* is one per organization, and its program is still as it found it.
PatchesOK ==
    /\ \A p \in Patches : patches[p].phase # "idle" => Exists(patches[p].org)
    /\ \A p, q \in Patches :
          /\ patches[p].phase = "commit" /\ patches[q].phase = "commit"
          /\ patches[p].org = patches[q].org
          => p = q
    /\ \A p \in Patches : patches[p].phase = "commit" =>
          LET found == programs[patches[p].org][SavedKind(p)] IN
          patches[p].program = IF found = Absent THEN DefaultProgram ELSE found

\* A program belongs to an organization that exists.
ProgramsOwned ==
    \A o \in Orgs : orgs[o] = Absent => \A kind \in LoyaltyType : programs[o][kind] = Absent

DirectorInv == DirectorTypes /\ PatchesOK /\ ProgramsOwned /\ ProgramOfType

AdminTypes ==
    /\ users \in [Users -> Role]
    /\ members \in Seq(Member)
    /\ \A i, j \in DOMAIN members :
          members[i].active /\ members[j].active /\ i # j =>
              members[i].org # members[j].org /\ members[i].user # members[j].user
    /\ grants \in [Grants -> Grant \cup Revocation \cup {Idle}]
    /\ requests \in [Requests -> Request \cup {Idle}]

\* What threads refer to is there, and a user found to exist is an administrator.
AdminsOK ==
    /\ \A i \in DOMAIN members : Exists(members[i].org)
    /\ \A g \in Grants :
          /\ grants[g].phase = "grant" =>
                /\ Exists(grants[g].org)
                /\ grants[g].known => users[grants[g].user] = "ORGANIZATION_ADMIN"
          /\ grants[g].phase = "revoke" => grants[g].active \in DOMAIN members
    /\ \A r \in Requests :
          requests[r].phase = "authenticated" => requests[r].member \in DOMAIN members

\* What entries refer to is there, and what a reversal took back says so: that is why it is
\* not taken back again.
LedgerOK ==
    /\ txs \in Seq(Tx)
    /\ \A i \in DOMAIN txs : txs[i].member # None => txs[i].member \in DOMAIN members
    /\ \A i \in DOMAIN txs : txs[i].related # None =>
          txs[i].related \in DOMAIN txs /\ txs[txs[i].related].status = "REVERSED"
    /\ TenantIsolation

AdminInv == DirectorTypes /\ AdminTypes /\ AdminsOK /\ LedgerOK

-----------------------------------------------------------------------------
(* Rows and threads *)

\* A thread's phase says which record it holds.
LEMMA PatchFields ==
    ASSUME NEW x \in Patch \cup Saving \cup {Idle}
    PROVE  /\ x.phase = "idle" => x = Idle
           /\ x.phase \in {"check", "save"} => x \in Patch
           /\ x.phase = "commit" => x \in Saving
           /\ x.phase \in {"idle", "check", "save", "commit"}
BY DEF Patch, Saving, Idle

\* What the record of a PATCH holds.
LEMMA PatchTypes ==
    ASSUME NEW x \in Patch \cup Saving
    PROVE  /\ x.org \in Orgs /\ x.read \in Organization /\ x.type \in PatchedType
           /\ x.kind \in LoyaltyType /\ x.edit \in Edit
           /\ x \in Saving => x.program \in Program
BY DEF Patch, Saving

\* A thread that is not idle serves a PATCH of some organization.
LEMMA PatchOrg ==
    ASSUME DirectorTypes
    PROVE  \A q \in Patches : patches[q].phase # "idle" => patches[q].org \in Orgs
<1>1. ASSUME NEW q \in Patches, patches[q].phase # "idle" PROVE patches[q].org \in Orgs
  <2>1. patches[q] \in Patch \cup Saving
    BY <1>1 DEF DirectorTypes, Idle
  <2> QED BY <2>1, PatchTypes
<1> QED BY <1>1

\* The edits of a PATCH give a program, and change only the settings the request names.
LEMMA EditedType ==
    ASSUME NEW p, patches[p].program \in Program, patches[p].edit \in Edit
    PROVE  /\ Edited(p) \in Program
           /\ \A f \in {"terms", "isActive"} :
                 Edited(p)[f] # patches[p].program[f] => f \in DOMAIN patches[p].edit
<1> DEFINE e == patches[p].edit
           q == patches[p].program
<1>1. q.terms \in Terms /\ q.isActive \in BOOLEAN
  BY DEF Program
<1>2. \/ DOMAIN e = {}
      \/ DOMAIN e = {"terms"} /\ e.terms \in Terms
      \/ DOMAIN e = {"isActive"} /\ e.isActive \in BOOLEAN
  BY DEF Edit, NoEdit
<1>3. DOMAIN NoEdit = {}
  BY DEF NoEdit
<1> QED BY <1>1, <1>2, <1>3 DEF Edited, Program

\* A row of an organization is not the absence of one.
LEMMA Present ==
    /\ \A x \in Organization : x # Absent
    /\ \A x \in Program : x # Absent
<1>1. ASSUME NEW x \in Organization PROVE x # Absent
  BY DEF Organization, Absent
<1>2. ASSUME NEW x \in Program PROVE x # Absent
  BY DEF Program, Absent
<1> QED BY <1>1, <1>2

\* The kinds of programs.
LEMMA Kinds ==
    /\ \A type : ProgramKind(type) \in LoyaltyType
    /\ \A type \in LoyaltyType : ProgramKind(type) = type /\ type \in PatchedType
BY DEF ProgramKind, LoyaltyType, PatchedType

\* The defaults make a program.
LEMMA DefaultType == DefaultProgram \in Program
BY OrganizationsAssumption DEF DefaultProgram, Program

-----------------------------------------------------------------------------
(* The director's half *)

\* A PATCH that reads, checks or ends without a write.
LEMMA PatchMoves ==
    ASSUME DirectorInv, NEW p \in Patches, NEW x \in Patch \cup {Idle},
           x.phase # "idle" => Exists(x.org),
           patches' = [patches EXCEPT ![p] = x], sent' \in Nat,
           UNCHANGED <<orgs, programs, blocked>>
    PROVE  DirectorInv'
<1>1. DirectorTypes /\ PatchesOK /\ ProgramsOwned /\ ProgramOfType
  BY DEF DirectorInv
<1>2. x.phase # "commit"
  BY DEF Patch, Idle
<1>3. \A q \in Patches : patches'[q] = IF q = p THEN x ELSE patches[q]
  BY <1>1 DEF DirectorTypes
<1>4. DirectorTypes'
  BY <1>1 DEF DirectorTypes
<1>5. PatchesOK'
  <2>1. \A q \in Patches : patches'[q].phase # "idle" => (Exists(patches[q].org))'
    BY <1>1, <1>3 DEF PatchesOK, Exists
  <2>2. \A q \in Patches :
           patches'[q].phase = "commit" => q # p /\ patches'[q] = patches[q]
    BY <1>2, <1>3
  <2>3. \A q, s \in Patches :
           /\ patches'[q].phase = "commit" /\ patches'[s].phase = "commit"
           /\ patches'[q].org = patches'[s].org
           => q = s
    BY <1>1, <2>2 DEF PatchesOK
  <2>4. \A q \in Patches : patches'[q].phase = "commit" =>
           LET found == programs'[patches'[q].org][ProgramKind(patches'[q].type)] IN
           patches'[q].program = IF found = Absent THEN DefaultProgram ELSE found
    BY <1>1, <2>2 DEF PatchesOK, SavedKind
  <2> QED BY <2>1, <2>3, <2>4 DEF PatchesOK, SavedKind
<1>6. ProgramOfType'
  BY <1>1 DEF ProgramOfType, Exists
<1> QED BY <1>1, <1>4, <1>5, <1>6 DEF DirectorInv, ProgramsOwned

\* The first UPDATE of a PATCH: nobody else is between it and the commit.
LEMMA PatchSaveKeeps ==
    ASSUME DirectorInv, NEW p \in Patches, PatchSave(p)
    PROVE  DirectorInv'
<1> DEFINE o == patches[p].org
           found == programs[o][SavedKind(p)]
           program == IF found = Absent THEN DefaultProgram ELSE found
           x == [phase |-> "commit", org |-> o, read |-> patches[p].read, type |-> patches[p].type,
                 kind |-> patches[p].kind, edit |-> patches[p].edit, program |-> program]
<1>1. DirectorTypes /\ PatchesOK /\ ProgramsOwned /\ ProgramOfType
  BY DEF DirectorInv
<1>2. /\ patches[p].phase = "save"
      /\ Unlocked(o)
      /\ patches' = [patches EXCEPT ![p] = x]
      /\ UNCHANGED <<orgs, programs, sent, blocked>>
  BY DEF PatchSave
<1>3. patches[p] \in Patch
  BY <1>1, <1>2, PatchFields DEF DirectorTypes
<1>4. o \in Orgs /\ SavedKind(p) \in LoyaltyType
  BY <1>3, PatchTypes, Kinds DEF SavedKind
<1>5. program \in Program
  BY <1>1, <1>4, DefaultType DEF DirectorTypes
<1>6. x \in Saving
  <2> HIDE DEF program
  <2> QED BY <1>3, <1>5, PatchTypes DEF Saving
<1>7. /\ x.phase = "commit" /\ x.org = o /\ x.program = program
      /\ ProgramKind(x.type) = SavedKind(p)
  BY DEF SavedKind
<1> HIDE DEF x
<1>8. \A q \in Patches : patches'[q] = IF q = p THEN x ELSE patches[q]
  BY <1>1, <1>2 DEF DirectorTypes
<1>9. DirectorTypes'
  BY <1>1, <1>2, <1>6 DEF DirectorTypes
<1>10. PatchesOK'
  <2>1. \A q \in Patches : patches'[q].phase # "idle" => (Exists(patches[q].org))'
    BY <1>1, <1>2, <1>7, <1>8 DEF PatchesOK, Exists
  <2>2. \A q, s \in Patches :
           /\ patches'[q].phase = "commit" /\ patches'[s].phase = "commit"
           /\ patches'[q].org = patches'[s].org
           => q = s
    BY <1>1, <1>2, <1>7, <1>8 DEF PatchesOK, Unlocked
  <2>3. \A q \in Patches : patches'[q].phase = "commit" =>
           LET there == programs'[patches'[q].org][ProgramKind(patches'[q].type)] IN
           patches'[q].program = IF there = Absent THEN DefaultProgram ELSE there
    BY <1>1, <1>2, <1>7, <1>8 DEF PatchesOK, SavedKind
  <2> QED BY <2>1, <2>2, <2>3 DEF PatchesOK, SavedKind
<1>11. ProgramOfType'
  BY <1>1, <1>2 DEF ProgramOfType, Exists
<1> QED BY <1>1, <1>2, <1>9, <1>10, <1>11 DEF DirectorInv, ProgramsOwned

\* The commit of a PATCH leaves the program of the new type, and no other PATCH of this
\* organization has found a program yet.
LEMMA PatchCommitKeeps ==
    ASSUME DirectorInv, NEW p \in Patches, PatchCommit(p)
    PROVE  DirectorInv'
<1> DEFINE o == patches[p].org
           row == [type |-> patches[p].type, status |-> patches[p].read.status]
<1>1. DirectorTypes /\ PatchesOK /\ ProgramsOwned /\ ProgramOfType
  BY DEF DirectorInv
<1>2. /\ patches[p].phase = "commit"
      /\ orgs' = [orgs EXCEPT ![o] = row]
      /\ programs' = [programs EXCEPT ![o][SavedKind(p)] = Edited(p)]
      /\ patches' = [patches EXCEPT ![p] = Idle]
      /\ UNCHANGED <<sent, blocked>>
  BY DEF PatchCommit
<1>3. patches[p] \in Saving
  BY <1>1, <1>2, PatchFields DEF DirectorTypes
<1>4. o \in Orgs /\ SavedKind(p) \in LoyaltyType /\ row \in Organization
  <2>1. o \in Orgs /\ patches[p].read \in Organization /\ patches[p].type \in PatchedType
    BY <1>3, PatchTypes
  <2>2. patches[p].read.status \in OrganizationStatus
    BY <2>1 DEF Organization
  <2> QED BY <2>1, <2>2, Kinds DEF SavedKind, Organization
<1>5. Edited(p) \in Program
  BY <1>3, PatchTypes, EditedType
<1>6. row.type = patches[p].type
  OBVIOUS
<1> HIDE DEF row
<1>7. /\ orgs' \in [Orgs -> Organization \cup {Absent}]
      /\ orgs'[o] = row
      /\ \A n \in Orgs : n # o => orgs'[n] = orgs[n]
  BY <1>1, <1>2, <1>4 DEF DirectorTypes
<1>8. /\ programs' \in [Orgs -> [LoyaltyType -> Program \cup {Absent}]]
      /\ programs'[o][SavedKind(p)] = Edited(p)
      /\ \A n \in Orgs : n # o => programs'[n] = programs[n]
  BY <1>1, <1>2, <1>4, <1>5 DEF DirectorTypes
<1>9. \A q \in Patches : patches'[q] = IF q = p THEN Idle ELSE patches[q]
  BY <1>1, <1>2 DEF DirectorTypes
<1>10. DirectorTypes'
  BY <1>1, <1>2, <1>7, <1>8 DEF DirectorTypes
<1>11. \A q \in Patches : patches'[q].phase # "idle" => q # p /\ patches'[q] = patches[q]
  BY <1>9 DEF Idle
<1>12. \A q \in Patches : patches'[q].phase # "idle" => patches[q].org \in Orgs
  BY <1>1, <1>11, PatchOrg
<1>13. PatchesOK'
  <2>1. \A q \in Patches : patches'[q].phase # "idle" => orgs'[patches'[q].org] # Absent
    BY <1>1, <1>4, <1>7, <1>11, <1>12, Present DEF PatchesOK, Exists
  <2>2. \A q, s \in Patches :
           /\ patches'[q].phase = "commit" /\ patches'[s].phase = "commit"
           /\ patches'[q].org = patches'[s].org
           => q = s
    BY <1>1, <1>11 DEF PatchesOK
  <2>3. ASSUME NEW q \in Patches, patches'[q].phase = "commit"
        PROVE  LET there == programs'[patches'[q].org][ProgramKind(patches'[q].type)] IN
               patches'[q].program = IF there = Absent THEN DefaultProgram ELSE there
    <3>1. q # p /\ patches'[q] = patches[q] /\ patches[q].org # o /\ patches[q].org \in Orgs
      BY <1>1, <1>2, <1>11, <1>12, <2>3 DEF PatchesOK
    <3> QED BY <1>1, <1>8, <2>3, <3>1 DEF PatchesOK, SavedKind
  <2> QED BY <2>1, <2>2, <2>3 DEF PatchesOK, SavedKind, Exists
<1>14. ProgramOfType'
  <2>1. ASSUME NEW n \in Orgs, orgs'[n] # Absent
        PROVE  programs'[n][ProgramKind(orgs'[n].type)] # Absent
    <3>1. CASE n = o
      BY <1>5, <1>6, <1>7, <1>8, <3>1, Present DEF SavedKind
    <3>2. CASE n # o
      BY <1>1, <1>7, <1>8, <2>1, <3>2 DEF ProgramOfType, Exists
    <3> QED BY <3>1, <3>2
  <2> QED BY <2>1 DEF ProgramOfType, Exists
<1>15. ProgramsOwned'
  BY <1>1, <1>4, <1>7, <1>8, Present DEF ProgramsOwned
<1> QED BY <1>10, <1>13, <1>14, <1>15 DEF DirectorInv

\* A new organization has the program of its type; no PATCH can be about it yet.
LEMMA CreateKeeps ==
    ASSUME DirectorInv, NEW o \in Orgs, NEW type \in LoyaltyType, NEW terms \in Terms,
           CreateOrganization(o, type, terms)
    PROVE  DirectorInv'
<1> DEFINE row == [type |-> type, status |-> "ACTIVE"]
           new == [terms |-> terms, isActive |-> TRUE]
<1>1. DirectorTypes /\ PatchesOK /\ ProgramsOwned /\ ProgramOfType
  BY DEF DirectorInv
<1>2. /\ orgs[o] = Absent
      /\ orgs' = [orgs EXCEPT ![o] = row]
      /\ programs' = [programs EXCEPT ![o][type] = new]
      /\ UNCHANGED <<patches, sent, blocked>>
  BY DEF CreateOrganization, Exists
<1>3. row \in Organization /\ row.type = type /\ new \in Program
  BY Kinds DEF Organization, OrganizationStatus, Program
<1> HIDE DEF row, new
<1>4. /\ orgs' \in [Orgs -> Organization \cup {Absent}] /\ orgs'[o] = row
      /\ \A n \in Orgs : n # o => orgs'[n] = orgs[n]
  BY <1>1, <1>2, <1>3 DEF DirectorTypes
<1>5. /\ programs' \in [Orgs -> [LoyaltyType -> Program \cup {Absent}]]
      /\ programs'[o][type] = new
      /\ \A n \in Orgs : n # o => programs'[n] = programs[n]
  BY <1>1, <1>2, <1>3 DEF DirectorTypes
<1>6. \A q \in Patches : patches[q].phase # "idle" => patches[q].org \in Orgs /\ patches[q].org # o
  BY <1>1, <1>2, PatchOrg DEF PatchesOK, Exists
<1>7. DirectorTypes'
  BY <1>1, <1>2, <1>4, <1>5 DEF DirectorTypes
<1>8. PatchesOK'
  <2>1. \A q \in Patches : patches'[q].phase # "idle" => orgs'[patches'[q].org] # Absent
    BY <1>1, <1>2, <1>4, <1>6 DEF PatchesOK, Exists
  <2>2. \A q \in Patches : patches'[q].phase = "commit" =>
           LET there == programs'[patches'[q].org][ProgramKind(patches'[q].type)] IN
           patches'[q].program = IF there = Absent THEN DefaultProgram ELSE there
    BY <1>1, <1>2, <1>5, <1>6 DEF PatchesOK, SavedKind
  <2> QED BY <1>1, <1>2, <2>1, <2>2 DEF PatchesOK, SavedKind, Exists
<1>9. ProgramOfType'
  <2>1. ASSUME NEW n \in Orgs, orgs'[n] # Absent
        PROVE  programs'[n][ProgramKind(orgs'[n].type)] # Absent
    <3>1. CASE n = o
      BY <1>3, <1>4, <1>5, <3>1, Present, Kinds
    <3>2. CASE n # o
      BY <1>1, <1>4, <1>5, <2>1, <3>2 DEF ProgramOfType, Exists
    <3> QED BY <3>1, <3>2
  <2> QED BY <2>1 DEF ProgramOfType, Exists
<1>10. ProgramsOwned'
  BY <1>1, <1>3, <1>4, <1>5, Present DEF ProgramsOwned
<1> QED BY <1>7, <1>8, <1>9, <1>10 DEF DirectorInv

\* Blocking and unblocking change a status and nothing else.
LEMMA StatusKeeps ==
    ASSUME DirectorInv, NEW o \in Orgs, NEW status \in OrganizationStatus,
           Exists(o), orgs' = [orgs EXCEPT ![o].status = status],
           blocked' \in SUBSET Orgs, UNCHANGED <<programs, patches, sent>>
    PROVE  DirectorInv'
<1> DEFINE row == [orgs[o] EXCEPT !.status = status]
<1>1. DirectorTypes /\ PatchesOK /\ ProgramsOwned /\ ProgramOfType
  BY DEF DirectorInv
<1>2. orgs[o] \in Organization
  BY <1>1 DEF DirectorTypes, Exists
<1>3. row \in Organization /\ row.type = orgs[o].type
  BY <1>2 DEF Organization
<1> HIDE DEF row
<1>4. /\ orgs' \in [Orgs -> Organization \cup {Absent}] /\ orgs'[o] = row
      /\ \A n \in Orgs : n # o => orgs'[n] = orgs[n]
  <2>1. orgs' = [orgs EXCEPT ![o] = row]
    BY <1>1 DEF row, DirectorTypes
  <2> QED BY <1>1, <1>3, <2>1 DEF DirectorTypes
<1>5. \A n \in Orgs : orgs'[n] # Absent <=> orgs[n] # Absent
  BY <1>2, <1>3, <1>4, Present
<1>6. \A q \in Patches : patches[q].phase # "idle" => patches[q].org \in Orgs
  BY <1>1, PatchOrg
<1>7. DirectorTypes'
  BY <1>1, <1>4 DEF DirectorTypes
<1>8. PatchesOK'
  BY <1>1, <1>5, <1>6 DEF PatchesOK, SavedKind, Exists
<1>9. ProgramOfType'
  <2>1. \A n \in Orgs : orgs'[n] # Absent => orgs[n] # Absent /\ orgs'[n].type = orgs[n].type
    BY <1>3, <1>4, <1>5
  <2> QED BY <1>1, <2>1 DEF ProgramOfType, Exists
<1>10. ProgramsOwned'
  BY <1>1, <1>5 DEF ProgramsOwned
<1> QED BY <1>7, <1>8, <1>9, <1>10 DEF DirectorInv

\* The steps of the director on organizations.
DirectorStep ==
    \/ \E o \in Orgs, type \in LoyaltyType, terms \in Terms : CreateOrganization(o, type, terms)
    \/ \E o \in Orgs : Block(o) \/ Unblock(o)
    \/ \E p \in Patches : Patching(p)

\* Every one of them keeps the director's half.
LEMMA DirectorKeeps ==
    ASSUME DirectorInv, DirectorStep
    PROVE  DirectorInv'
<1>1. DirectorTypes /\ PatchesOK /\ ProgramsOwned /\ ProgramOfType
  BY DEF DirectorInv
<1>2. CASE \E o \in Orgs, type \in LoyaltyType, terms \in Terms : CreateOrganization(o, type, terms)
  BY <1>2, CreateKeeps
<1>3. ASSUME NEW o \in Orgs, Block(o) \/ Unblock(o) PROVE DirectorInv'
  <2>1. PICK status \in OrganizationStatus : orgs' = [orgs EXCEPT ![o].status = status]
    BY <1>3 DEF Block, Unblock, OrganizationStatus
  <2>2. Exists(o) /\ blocked' \in SUBSET Orgs /\ UNCHANGED <<programs, patches, sent>>
    BY <1>1, <1>3 DEF Block, Unblock, DirectorTypes
  <2> QED BY <2>1, <2>2, StatusKeeps
<1>4. ASSUME NEW p \in Patches, NEW o \in Orgs, NEW type \in PatchedType, NEW kind \in LoyaltyType,
             NEW edit \in Edit, PatchRead(p, o, type, kind, edit)
      PROVE  DirectorInv'
  <2> DEFINE x == [phase |-> "check", org |-> o, read |-> orgs[o], type |-> type,
                   kind |-> kind, edit |-> edit]
  <2>1. /\ Exists(o) /\ sent' = sent + 1 /\ patches' = [patches EXCEPT ![p] = x]
        /\ UNCHANGED <<orgs, programs, blocked>>
    BY <1>4 DEF PatchRead
  <2>2. orgs[o] \in Organization /\ sent' \in Nat
    BY <1>1, <2>1 DEF DirectorTypes, Exists
  <2>3. x \in Patch /\ x.org = o
    BY <2>2 DEF Patch
  <2> HIDE DEF x
  <2> QED BY <2>1, <2>2, <2>3, PatchMoves
<1>5. ASSUME NEW p \in Patches, PatchCheck(p) PROVE DirectorInv'
  <2>1. /\ patches[p].phase = "check" /\ sent' \in Nat
        /\ UNCHANGED <<orgs, programs, blocked>>
    BY <1>1, <1>5 DEF PatchCheck, DirectorTypes
  <2>2. patches[p] \in Patch /\ Exists(patches[p].org)
    BY <1>1, <2>1, PatchFields DEF DirectorTypes, PatchesOK
  <2>3. PICK x : patches' = [patches EXCEPT ![p] = x] /\ x \in {Idle, [patches[p] EXCEPT !.phase = "save"]}
    BY <1>5 DEF PatchCheck
  <2>4. x \in Patch \cup {Idle} /\ (x.phase # "idle" => x.org = patches[p].org)
    BY <2>2, <2>3 DEF Patch, Idle
  <2> QED BY <2>1, <2>2, <2>3, <2>4, PatchMoves
<1>6. ASSUME NEW p \in Patches, PatchAbort(p) PROVE DirectorInv'
  <2>1. /\ patches' = [patches EXCEPT ![p] = Idle] /\ sent' \in Nat
        /\ UNCHANGED <<orgs, programs, blocked>>
    BY <1>1, <1>6 DEF PatchAbort, DirectorTypes
  <2>2. Idle.phase = "idle"
    BY DEF Idle
  <2> QED BY <2>1, <2>2, PatchMoves
<1>7. ASSUME NEW p \in Patches, PatchSave(p) \/ PatchCommit(p) PROVE DirectorInv'
  BY <1>7, PatchSaveKeeps, PatchCommitKeeps
<1> QED BY <1>2, <1>3, <1>4, <1>5, <1>6, <1>7 DEF DirectorStep, Patching

\* No organization disappears.
LEMMA OrganizationsStay ==
    ASSUME DirectorInv, DirectorStep
    PROVE  \A n \in Orgs : Exists(n) => Exists(n)'
<1>1. DirectorTypes /\ PatchesOK /\ DirectorTypes'
  BY DirectorKeeps DEF DirectorInv
<1>2. ASSUME NEW n \in Orgs, NEW o \in Orgs, NEW row, orgs' = [orgs EXCEPT ![o] = row], row # Absent
      PROVE  orgs[n] # Absent => orgs'[n] # Absent
  BY <1>1, <1>2 DEF DirectorTypes
<1>3. CASE UNCHANGED orgs
  BY <1>3 DEF Exists
<1>4. ASSUME NEW o \in Orgs, NEW type \in LoyaltyType, NEW terms \in Terms,
             CreateOrganization(o, type, terms)
      PROVE  \A n \in Orgs : orgs[n] # Absent => orgs'[n] # Absent
  <2>1. [type |-> type, status |-> "ACTIVE"] \in Organization
    BY Kinds DEF Organization, OrganizationStatus
  <2> QED BY <1>2, <1>4, <2>1, Present DEF CreateOrganization
<1>5. ASSUME NEW o \in Orgs, Block(o) \/ Unblock(o)
      PROVE  \A n \in Orgs : orgs[n] # Absent => orgs'[n] # Absent
  <2>1. PICK status \in OrganizationStatus : orgs' = [orgs EXCEPT ![o].status = status]
    BY <1>5 DEF Block, Unblock, OrganizationStatus
  <2>2. orgs[o] \in Organization
    BY <1>1, <1>5 DEF Block, Unblock, Exists, DirectorTypes
  <2>3. [orgs[o] EXCEPT !.status = status] \in Organization
    BY <2>2 DEF Organization
  <2> QED BY <1>1, <2>1, <2>3, Present DEF DirectorTypes
<1>6. ASSUME NEW p \in Patches, PatchCommit(p)
      PROVE  \A n \in Orgs : orgs[n] # Absent => orgs'[n] # Absent
  <2>1. patches[p] \in Saving
    BY <1>1, <1>6, PatchFields DEF PatchCommit, DirectorTypes
  <2>2. /\ patches[p].org \in Orgs /\ patches[p].type \in PatchedType
        /\ patches[p].read.status \in OrganizationStatus
    BY <2>1, PatchTypes DEF Organization
  <2>3. [type |-> patches[p].type, status |-> patches[p].read.status] \in Organization
    BY <2>2 DEF Organization
  <2> QED BY <1>2, <1>6, <2>2, <2>3, Present DEF PatchCommit
<1> QED BY <1>3, <1>4, <1>5, <1>6 DEF DirectorStep, Patching, PatchRead, PatchCheck, PatchSave,
        PatchAbort, Exists

\* A setting changes only at the commit of a PATCH that names it.
LEMMA EditsStep ==
    ASSUME DirectorInv, DirectorStep,
           NEW o \in Orgs, NEW kind \in LoyaltyType, programs[o][kind] # Absent,
           NEW f \in {"terms", "isActive"}, programs'[o][kind][f] # programs[o][kind][f]
    PROVE  \E p \in Patches :
              /\ patches[p].phase = "commit" /\ patches'[p] = Idle
              /\ patches[p].org = o
              /\ f \in DOMAIN patches[p].edit
<1>1. DirectorTypes /\ PatchesOK /\ ProgramsOwned
  BY DEF DirectorInv
<1>2. CASE UNCHANGED programs
  BY <1>2
<1>3. ASSUME NEW n \in Orgs, NEW type \in LoyaltyType, NEW terms \in Terms,
             CreateOrganization(n, type, terms)
      PROVE  FALSE
  <2>1. n # o
    BY <1>1, <1>3 DEF CreateOrganization, ProgramsOwned, Exists
  <2>2. programs'[o] = programs[o]
    BY <1>1, <1>3, <2>1 DEF CreateOrganization, DirectorTypes
  <2> QED BY <2>2
<1>4. ASSUME NEW p \in Patches, PatchCommit(p)
      PROVE  /\ patches[p].phase = "commit" /\ patches'[p] = Idle
             /\ patches[p].org = o
             /\ f \in DOMAIN patches[p].edit
  <2>1. /\ patches[p].phase = "commit"
        /\ programs' = [programs EXCEPT ![patches[p].org][SavedKind(p)] = Edited(p)]
        /\ patches' = [patches EXCEPT ![p] = Idle]
    BY <1>4 DEF PatchCommit
  <2>2. patches[p].org = o /\ SavedKind(p) = kind /\ programs'[o][kind] = Edited(p)
    <3>1. programs'[o][kind] # programs[o][kind]
      OBVIOUS
    <3> HIDE DEF Edited
    <3> QED BY <1>1, <2>1, <3>1 DEF DirectorTypes
  <2>3. patches[p].program = programs[o][kind]
    BY <1>1, <2>1, <2>2 DEF PatchesOK
  <2>4. patches[p].program \in Program /\ patches[p].edit \in Edit
    BY <1>1, <2>1, PatchFields, PatchTypes DEF DirectorTypes
  <2> QED BY <1>1, <2>1, <2>2, <2>3, <2>4, EditedType DEF DirectorTypes
<1> QED BY <1>2, <1>3, <1>4 DEF DirectorStep, Patching, Block, Unblock, PatchRead, PatchCheck,
        PatchSave, PatchAbort

-----------------------------------------------------------------------------
(* The administrators' half *)

\* A thread's phase says which record it holds.
LEMMA GrantFields ==
    ASSUME NEW x \in Grant \cup Revocation \cup {Idle}
    PROVE  /\ x.phase = "grant" => x \in Grant /\ x.org \in Orgs /\ x.user \in Users
           /\ x.phase = "revoke" => x \in Revocation
           /\ Idle.phase = "idle"
BY DEF Grant, Revocation, Idle

\* What a request that is under way holds.
LEMMA RequestFields ==
    ASSUME NEW x \in Request \cup {Idle}
    PROVE  /\ Idle.phase = "idle"
           /\ x # Idle => x.phase = "authenticated" /\ x.member \in Nat \ {0}
                            /\ x.organization \in Organization
BY DEF Request, Idle

\* Every membership is of an organization and a phone.
LEMMA MemberFields ==
    ASSUME AdminTypes, NEW i \in DOMAIN members
    PROVE  members[i].org \in Orgs /\ members[i].user \in Users
<1>1. members[i] \in Member
  BY DEF AdminTypes
<1> QED BY <1>1 DEF Member

\* A step on administrators leaves the director's half alone.
LEMMA DirectorFrame ==
    ASSUME DirectorInv, UNCHANGED <<orgs, programs, patches, sent, blocked>>
    PROVE  DirectorInv'
BY DEF DirectorInv, DirectorTypes, PatchesOK, ProgramsOwned, ProgramOfType, SavedKind, Exists

\* A step of the director leaves the administrators' half alone.
LEMMA AdminFrame ==
    ASSUME DirectorInv, AdminInv, DirectorStep
    PROVE  AdminInv'
<1>1. UNCHANGED <<users, members, grants, requests, txs>>
  BY DEF DirectorStep, Patching, CreateOrganization, Block, Unblock, PatchRead, PatchCheck,
         PatchSave, PatchCommit, PatchAbort
<1>2. DirectorTypes' /\ \A n \in Orgs : Exists(n) => Exists(n)'
  BY DirectorKeeps, OrganizationsStay DEF DirectorInv
<1>3. AdminTypes /\ AdminsOK /\ LedgerOK
  BY DEF AdminInv
<1>4. AdminTypes' /\ LedgerOK'
  BY <1>1, <1>3 DEF AdminTypes, LedgerOK, TenantIsolation
<1>5. ASSUME NEW i \in DOMAIN members PROVE Exists(members[i].org)'
  <2>1. members[i].org \in Orgs
    BY <1>3, MemberFields
  <2> QED BY <1>1, <1>2, <1>3, <2>1 DEF AdminsOK, Exists
<1>6. ASSUME NEW g \in Grants, grants[g].phase = "grant" PROVE Exists(grants[g].org)'
  <2>1. grants[g].org \in Orgs
    BY <1>3, <1>6, GrantFields DEF AdminTypes
  <2> QED BY <1>1, <1>2, <1>3, <1>6, <2>1 DEF AdminsOK, Exists
<1>7. AdminsOK'
  BY <1>1, <1>3, <1>5, <1>6 DEF AdminsOK, Exists
<1> QED BY <1>2, <1>4, <1>7 DEF AdminInv

\* Memberships may be added and retired and accounts promoted, as long as the constraints
\* hold and nothing that a thread or an entry refers to goes away.
LEMMA MembersKeep ==
    ASSUME AdminInv, UNCHANGED <<orgs, programs, patches, sent, blocked, requests, txs>>,
           users' \in [Users -> Role],
           \A u \in Users : users[u] = "ORGANIZATION_ADMIN" => users'[u] = "ORGANIZATION_ADMIN",
           members' \in Seq(Member), DOMAIN members \subseteq DOMAIN members',
           \A i \in DOMAIN members : members'[i].org = members[i].org,
           \A i \in DOMAIN members' : Exists(members'[i].org),
           \A i, j \in DOMAIN members' :
              members'[i].active /\ members'[j].active /\ i # j =>
                  members'[i].org # members'[j].org /\ members'[i].user # members'[j].user,
           grants' \in [Grants -> Grant \cup Revocation \cup {Idle}],
           \A g \in Grants : grants'[g] \in {Idle, grants[g]}
    PROVE  AdminInv'
<1>1. DirectorTypes /\ AdminTypes /\ AdminsOK /\ LedgerOK
  BY DEF AdminInv
<1>2. DirectorTypes' /\ AdminTypes'
  BY <1>1 DEF DirectorTypes, AdminTypes
<1>3. ASSUME NEW g \in Grants, grants'[g].phase = "grant"
      PROVE  /\ Exists(grants'[g].org)
             /\ grants'[g].known => users'[grants'[g].user] = "ORGANIZATION_ADMIN"
  <2>1. grants'[g] = grants[g]
    BY <1>3 DEF Idle
  <2>2. grants[g].user \in Users
    BY <1>1, <1>3, <2>1, GrantFields DEF AdminTypes
  <2> QED BY <1>1, <1>3, <2>1, <2>2 DEF AdminsOK
<1>4. ASSUME NEW g \in Grants, grants'[g].phase = "revoke"
      PROVE  grants'[g].active \in DOMAIN members'
  <2>1. grants'[g] = grants[g]
    BY <1>4 DEF Idle
  <2> QED BY <1>1, <1>4, <2>1 DEF AdminsOK
<1>5. AdminsOK'
  BY <1>1, <1>3, <1>4 DEF AdminsOK, Exists
<1>6. LedgerOK'
  BY <1>1 DEF LedgerOK, TenantIsolation
<1> QED BY <1>2, <1>5, <1>6 DEF AdminInv

\* A client who registers is nobody's administrator.
LEMMA RegisterKeeps ==
    ASSUME AdminInv, NEW u \in Users, Register(u)
    PROVE  AdminInv'
<1>1. AdminTypes /\ AdminsOK
  BY DEF AdminInv
<1>2. /\ users[u] = "absent" /\ users' = [users EXCEPT ![u] = "USER"]
      /\ UNCHANGED <<orgs, programs, members, patches, sent, grants, requests, txs, blocked>>
  BY DEF Register
<1>3. /\ users' \in [Users -> Role]
      /\ \A v \in Users : users[v] = "ORGANIZATION_ADMIN" => users'[v] = "ORGANIZATION_ADMIN"
  BY <1>1, <1>2 DEF AdminTypes, Role
<1>4. /\ members' \in Seq(Member) /\ grants' \in [Grants -> Grant \cup Revocation \cup {Idle}]
      /\ \A i \in DOMAIN members' : Exists(members'[i].org)
      /\ \A i, j \in DOMAIN members' :
            members'[i].active /\ members'[j].active /\ i # j =>
                members'[i].org # members'[j].org /\ members'[i].user # members'[j].user
  BY <1>1, <1>2 DEF AdminTypes, AdminsOK
<1> QED BY <1>2, <1>3, <1>4, MembersKeep

\* A grant starts from an organization that exists and no client; a revocation from a row.
LEMMA GrantReadKeeps ==
    ASSUME AdminInv, NEW g \in Grants, NEW x \in Grant \cup Revocation \cup {Idle},
           grants' = [grants EXCEPT ![g] = x],
           x.phase = "grant" =>
              /\ Exists(x.org)
              /\ x.known => users[x.user] = "ORGANIZATION_ADMIN",
           x.phase = "revoke" => x.active \in DOMAIN members,
           UNCHANGED <<orgs, programs, users, members, patches, sent, requests, txs, blocked>>
    PROVE  AdminInv'
<1>1. DirectorTypes /\ AdminTypes /\ AdminsOK /\ LedgerOK
  BY DEF AdminInv
<1>2. \A h \in Grants : grants'[h] = IF h = g THEN x ELSE grants[h]
  BY <1>1 DEF AdminTypes
<1>3. grants' \in [Grants -> Grant \cup Revocation \cup {Idle}]
  BY <1>1 DEF AdminTypes
<1>4. DirectorTypes' /\ AdminTypes' /\ LedgerOK'
  BY <1>1, <1>3 DEF DirectorTypes, AdminTypes, LedgerOK, TenantIsolation
<1>5. AdminsOK'
  BY <1>1, <1>2 DEF AdminsOK, Exists
<1> QED BY <1>4, <1>5 DEF AdminInv

\* The writes of a grant: the constraints are checked on the rows as they will be.
LEMMA GrantCommitKeeps ==
    ASSUME AdminInv, NEW g \in Grants, GrantCommit(g)
    PROVE  AdminInv'
<1> DEFINE x == grants[g]
           kept(i) == [members[i] EXCEPT !.active = @ /\ i # x.active /\ members[i].user # x.user]
           old == [i \in DOMAIN members |-> kept(i)]
           new == [org |-> x.org, user |-> x.user, active |-> TRUE]
<1>1. AdminTypes /\ AdminsOK
  BY DEF AdminInv
<1>2. /\ x.phase = "grant" /\ Unique(Granted(g))
      /\ users' = [users EXCEPT ![x.user] = "ORGANIZATION_ADMIN"]
      /\ members' = Append(old, new) /\ Unique(members')
      /\ grants' = [grants EXCEPT ![g] = Idle]
      /\ UNCHANGED <<orgs, programs, patches, sent, blocked, requests, txs>>
  BY DEF GrantCommit, Granted
<1>3. x.org \in Orgs /\ x.user \in Users /\ Exists(x.org)
  BY <1>1, <1>2, GrantFields DEF AdminTypes, AdminsOK
<1>4. ASSUME NEW i \in DOMAIN members
      PROVE  kept(i) \in Member /\ kept(i).org = members[i].org
  <2>1. members[i] \in Member
    BY <1>1 DEF AdminTypes
  <2> QED BY <2>1 DEF Member
<1>5. DOMAIN members = 1 .. Len(members) /\ Len(members) \in Nat
  BY <1>1 DEF AdminTypes
<1> HIDE DEF kept
<1>6. old \in Seq(Member) /\ Len(old) = Len(members)
  <2>1. \A i \in 1 .. Len(members) : old[i] \in Member
    BY <1>4, <1>5
  <2> QED BY <1>5, <2>1
<1>7. new \in Member /\ new.org = x.org
  BY <1>3 DEF Member
<1>8. \A i \in DOMAIN members : old[i].org = members[i].org
  BY <1>4
<1> HIDE DEF old, new
<1>9. /\ members' \in Seq(Member) /\ DOMAIN members' = 1 .. Len(members) + 1
      /\ \A i \in 1 .. Len(members) : members'[i] = old[i]
      /\ members'[Len(members) + 1] = new
  BY <1>2, <1>5, <1>6, <1>7
<1>10. DOMAIN members \subseteq DOMAIN members'
  BY <1>5, <1>9
<1>11. \A i \in DOMAIN members : members'[i].org = members[i].org
  BY <1>5, <1>8, <1>9
<1>12. \A i \in DOMAIN members' : Exists(members'[i].org)
  <2>1. ASSUME NEW i \in DOMAIN members', i \notin DOMAIN members PROVE i = Len(members) + 1
    BY <1>5, <1>9, <2>1
  <2> QED BY <1>1, <1>3, <1>7, <1>9, <1>11, <2>1 DEF AdminsOK
<1>13. \A i, j \in DOMAIN members' :
          members'[i].active /\ members'[j].active /\ i # j =>
              members'[i].org # members'[j].org /\ members'[i].user # members'[j].user
  BY <1>2 DEF Unique
<1>14. /\ users' \in [Users -> Role]
       /\ \A u \in Users : users[u] = "ORGANIZATION_ADMIN" => users'[u] = "ORGANIZATION_ADMIN"
  BY <1>1, <1>2, <1>3 DEF AdminTypes, Role
<1>15. /\ grants' \in [Grants -> Grant \cup Revocation \cup {Idle}]
       /\ \A h \in Grants : grants'[h] \in {Idle, grants[h]}
  BY <1>1, <1>2 DEF AdminTypes
<1> QED BY <1>2, <1>9, <1>10, <1>11, <1>12, <1>13, <1>14, <1>15, MembersKeep

\* The write of a revocation retires the row it has read.
LEMMA RevokeCommitKeeps ==
    ASSUME AdminInv, NEW g \in Grants, RevokeCommit(g)
    PROVE  AdminInv'
<1> DEFINE k == grants[g].active
           row == [members[k] EXCEPT !.active = FALSE]
<1>1. AdminTypes /\ AdminsOK
  BY DEF AdminInv
<1>2. /\ grants[g].phase = "revoke"
      /\ members' = [members EXCEPT ![k].active = FALSE]
      /\ grants' = [grants EXCEPT ![g] = Idle]
      /\ UNCHANGED <<orgs, programs, users, patches, sent, requests, txs, blocked>>
  BY DEF RevokeCommit
<1>3. k \in DOMAIN members
  BY <1>1, <1>2 DEF AdminsOK
<1>4. members' = [members EXCEPT ![k] = row]
  BY <1>1, <1>2 DEF AdminTypes
<1>5. row \in Member /\ row.org = members[k].org /\ row.user = members[k].user /\ ~row.active
  <2>1. members[k] \in Member
    BY <1>1, <1>3 DEF AdminTypes
  <2> QED BY <2>1 DEF Member
<1> HIDE DEF row, k
<1>6. /\ members' \in Seq(Member) /\ DOMAIN members' = DOMAIN members
      /\ \A i \in DOMAIN members : members'[i] = IF i = k THEN row ELSE members[i]
  BY <1>1, <1>3, <1>4, <1>5 DEF AdminTypes
<1>7. \A i \in DOMAIN members :
         /\ members'[i].org = members[i].org /\ members'[i].user = members[i].user
         /\ members'[i].active => members[i].active
  BY <1>5, <1>6
<1>8. /\ \A i \in DOMAIN members' : Exists(members'[i].org)
      /\ \A i, j \in DOMAIN members' :
            members'[i].active /\ members'[j].active /\ i # j =>
                members'[i].org # members'[j].org /\ members'[i].user # members'[j].user
  BY <1>1, <1>6, <1>7 DEF AdminTypes, AdminsOK
<1>9. /\ users' \in [Users -> Role]
      /\ grants' \in [Grants -> Grant \cup Revocation \cup {Idle}]
      /\ \A h \in Grants : grants'[h] \in {Idle, grants[h]}
  BY <1>1, <1>2 DEF AdminTypes
<1> QED BY <1>2, <1>6, <1>7, <1>8, <1>9, MembersKeep

\* Every step of the director on administrators keeps their half.
LEMMA GrantingKeeps ==
    ASSUME AdminInv, NEW g \in Grants, Granting(g)
    PROVE  AdminInv'
<1>1. AdminTypes /\ AdminsOK
  BY DEF AdminInv
<1>2. ASSUME NEW o \in Orgs, NEW u \in Users, NEW replace \in BOOLEAN, GrantRead(g, o, u, replace)
      PROVE  AdminInv'
  <2>1. PICK active \in IF ActiveOf(o) = {} THEN {None} ELSE ActiveOf(o) :
           grants' = [grants EXCEPT ![g] = [phase |-> "grant", org |-> o, user |-> u,
                                            known |-> users[u] # "absent", active |-> active]]
    BY <1>2 DEF GrantRead
  <2> DEFINE x == [phase |-> "grant", org |-> o, user |-> u,
                   known |-> users[u] # "absent", active |-> active]
  <2>2. active \in Nat
    <3>1. ActiveOf(o) \subseteq Nat
      BY <1>1 DEF ActiveOf, AdminTypes
    <3> QED BY <2>1, <3>1 DEF None
  <2>3. users[u] \in {"absent", "ORGANIZATION_ADMIN"} /\ Exists(o)
    BY <1>1, <1>2 DEF GrantRead, AdminTypes, Role
  <2>4. UNCHANGED <<orgs, programs, users, members, patches, sent, requests, txs, blocked>>
    BY <1>2 DEF GrantRead
  <2>5. /\ x \in Grant /\ x.phase = "grant" /\ x.org = o /\ x.user = u
        /\ x.known => users[u] # "absent"
    BY <2>2 DEF Grant
  <2> HIDE DEF x
  <2>6. grants' = [grants EXCEPT ![g] = x]
    BY <2>1 DEF x
  <2> QED BY <2>3, <2>4, <2>5, <2>6, GrantReadKeeps
<1>3. ASSUME NEW o \in Orgs, RevokeRead(g, o) PROVE AdminInv'
  <2>1. PICK active \in ActiveOf(o) :
           grants' = [grants EXCEPT ![g] = [phase |-> "revoke", active |-> active]]
    BY <1>3 DEF RevokeRead
  <2> DEFINE x == [phase |-> "revoke", active |-> active]
  <2>2. active \in DOMAIN members /\ active \in Nat \ {0}
    BY <1>1 DEF ActiveOf, AdminTypes
  <2>3. UNCHANGED <<orgs, programs, users, members, patches, sent, requests, txs, blocked>>
    BY <1>3 DEF RevokeRead
  <2>4. x \in Revocation /\ x.phase = "revoke" /\ x.active = active
    BY <2>2 DEF Revocation
  <2> HIDE DEF x
  <2>5. grants' = [grants EXCEPT ![g] = x]
    BY <2>1 DEF x
  <2> QED BY <2>2, <2>3, <2>4, <2>5, GrantReadKeeps
<1>4. CASE GrantAbort(g)
  <2>1. /\ grants' = [grants EXCEPT ![g] = Idle]
        /\ UNCHANGED <<orgs, programs, users, members, patches, sent, requests, txs, blocked>>
    BY <1>4 DEF GrantAbort
  <2>2. Idle.phase = "idle"
    BY DEF Idle
  <2> QED BY <2>1, <2>2, GrantReadKeeps
<1> QED BY <1>2, <1>3, <1>4, GrantCommitKeeps, RevokeCommitKeeps DEF Granting

\* An entry that takes nothing back leaves the reversals as they are.
LEMMA EntryKeeps ==
    ASSUME LedgerOK, members' = members, NEW x \in Tx,
           x.related = None, x.member # None => x.member \in DOMAIN members,
           txs' = Append(txs, x)
    PROVE  LedgerOK'
<1> DEFINE n == Len(txs) + 1
<1>1. txs \in Seq(Tx)
  BY DEF LedgerOK
<1>2. /\ txs' \in Seq(Tx) /\ txs'[n] = x /\ n \notin DOMAIN txs
      /\ \A i \in DOMAIN txs : i \in DOMAIN txs' /\ txs'[i] = txs[i]
      /\ \A i \in DOMAIN txs' : i \in DOMAIN txs \/ i = n
  BY <1>1
<1> HIDE DEF n
<1>3. \A i \in DOMAIN txs' : txs'[i].member # None => txs'[i].member \in DOMAIN members
  BY <1>2 DEF LedgerOK
<1>4. \A i \in DOMAIN txs' : txs'[i].related # None =>
         i \in DOMAIN txs /\ txs'[i] = txs[i]
  BY <1>2
<1>5. \A i \in DOMAIN txs' : txs'[i].related # None =>
         txs'[i].related \in DOMAIN txs' /\ txs'[txs'[i].related].status = "REVERSED"
  BY <1>2, <1>4 DEF LedgerOK
<1>6. \A i \in DOMAIN txs' : txs'[i].related # None =>
         /\ txs'[i].member # None =>
               members[txs'[i].member].org = txs'[txs'[i].related].org
         /\ \A j \in DOMAIN txs' : txs'[j].related = txs'[i].related => i = j
  BY <1>2, <1>4 DEF LedgerOK, TenantIsolation
<1> QED BY <1>2, <1>3, <1>5, <1>6 DEF LedgerOK, TenantIsolation

\* A reversal takes back an entry that no other one has: that one still is COMPLETED.
LEMMA ReversedKeeps ==
    ASSUME LedgerOK, members' = members, NEW t \in DOMAIN txs, Reversible(t),
           NEW member \in Nat,
           member # None => member \in DOMAIN members /\ members[member].org = txs[t].org,
           txs' = Reversed(t, member)
    PROVE  LedgerOK'
<1> DEFINE n == Len(txs) + 1
           row == [txs[t] EXCEPT !.status = "REVERSED"]
           new == [org |-> txs[t].org, kind |-> "REVERSAL", member |-> member, related |-> t,
                   status |-> "COMPLETED"]
           marked == [txs EXCEPT ![t] = row]
<1>1. txs \in Seq(Tx) /\ txs[t] \in Tx /\ t \in Nat \ {0} /\ t # None
  BY DEF LedgerOK, None
<1>2. /\ row \in Tx /\ row.status = "REVERSED" /\ row.org = txs[t].org
      /\ row.member = txs[t].member /\ row.related = txs[t].related
  BY <1>1 DEF Tx
<1>3. /\ new \in Tx /\ new.related = t /\ new.member = member
  BY <1>1 DEF Tx
<1>4. txs' = Append(marked, new)
  BY <1>1 DEF Reversed
<1> HIDE DEF row, new
<1>5. marked \in Seq(Tx) /\ Len(marked) = Len(txs)
      /\ \A i \in DOMAIN txs : marked[i] = IF i = t THEN row ELSE txs[i]
  BY <1>1, <1>2
<1> HIDE DEF marked
<1>6. /\ txs' \in Seq(Tx) /\ txs'[n] = new /\ n \notin DOMAIN txs
      /\ \A i \in DOMAIN txs : i \in DOMAIN txs' /\ txs'[i] = IF i = t THEN row ELSE txs[i]
      /\ \A i \in DOMAIN txs' : i \in DOMAIN txs \/ i = n
  BY <1>1, <1>3, <1>4, <1>5
<1> HIDE DEF n
<1>7. \A i \in DOMAIN txs :
         /\ i \in DOMAIN txs' /\ txs'[i].org = txs[i].org /\ txs'[i].member = txs[i].member
         /\ txs'[i].related = txs[i].related
         /\ txs[i].status = "REVERSED" => txs'[i].status = "REVERSED"
  BY <1>2, <1>6
<1>8. txs'[t].status = "REVERSED"
  BY <1>2, <1>6
<1>9. \A i \in DOMAIN txs : txs[i].related # t
  BY <1>1 DEF LedgerOK, Reversible
<1>10. \A i \in DOMAIN txs' : txs'[i].member # None => txs'[i].member \in DOMAIN members
  BY <1>3, <1>6, <1>7 DEF LedgerOK
<1>11. \A i \in DOMAIN txs' : txs'[i].related # None =>
          txs'[i].related \in DOMAIN txs' /\ txs'[txs'[i].related].status = "REVERSED"
  BY <1>3, <1>6, <1>7, <1>8 DEF LedgerOK
<1>12. ASSUME NEW i \in DOMAIN txs', txs'[i].related # None, txs'[i].member # None
       PROVE  members[txs'[i].member].org = txs'[txs'[i].related].org
  <2>1. CASE i = n
    BY <1>3, <1>6, <1>7, <1>12, <2>1
  <2>2. CASE i \in DOMAIN txs
    BY <1>7, <1>12, <2>2 DEF LedgerOK, TenantIsolation
  <2> QED BY <1>6, <2>1, <2>2
<1>13. ASSUME NEW i \in DOMAIN txs', txs'[i].related # None,
              NEW j \in DOMAIN txs', txs'[j].related = txs'[i].related
       PROVE  i = j
  <2>1. CASE i \in DOMAIN txs /\ j \in DOMAIN txs
    BY <1>7, <1>13, <2>1 DEF LedgerOK, TenantIsolation
  <2>2. CASE i = n \/ j = n
    BY <1>3, <1>6, <1>7, <1>9, <1>13, <2>2
  <2> QED BY <1>6, <2>1, <2>2
<1> QED BY <1>6, <1>10, <1>11, <1>12, <1>13 DEF LedgerOK, TenantIsolation

\* A request carries a membership that is there; what it enters or takes back belongs to
\* the organization of that membership.
LEMMA RequestingKeeps ==
    ASSUME AdminInv, NEW r \in Requests, Requesting(r)
    PROVE  AdminInv'
<1>1. DirectorTypes /\ AdminTypes /\ AdminsOK /\ LedgerOK
  BY DEF AdminInv
<1>2. UNCHANGED <<orgs, programs, users, members, patches, sent, grants, blocked>>
  BY DEF Requesting, Authenticate, Reverse, Operate, Finish
<1>3. DirectorTypes'
  BY <1>1, <1>2 DEF DirectorTypes
<1>4. ASSUME NEW x \in Request \cup {Idle}, requests' = [requests EXCEPT ![r] = x],
             x # Idle => x.member \in DOMAIN members, LedgerOK'
      PROVE  AdminInv'
  <2>1. AdminTypes'
    BY <1>1, <1>2, <1>4 DEF AdminTypes
  <2>2. \A s \in Requests : requests'[s] = IF s = r THEN x ELSE requests[s]
    BY <1>1, <1>4 DEF AdminTypes
  <2>3. \A s \in Requests :
           requests'[s].phase = "authenticated" => requests'[s].member \in DOMAIN members
    BY <1>1, <1>4, <2>2, RequestFields DEF AdminsOK
  <2>4. AdminsOK'
    BY <1>1, <1>2, <1>4, <2>3 DEF AdminsOK, Exists
  <2> QED BY <1>3, <1>4, <2>1, <2>4 DEF AdminInv
<1>5. txs' = txs => LedgerOK'
  BY <1>1, <1>2 DEF LedgerOK, TenantIsolation
<1>6. ASSUME NEW u \in Users, Authenticate(r, u) PROVE AdminInv'
  <2>1. PICK i \in ActiveFor(u) :
           requests' = [requests EXCEPT ![r] = [phase |-> "authenticated", member |-> i,
                                                organization |-> orgs[members[i].org]]]
    BY <1>6 DEF Authenticate
  <2> DEFINE x == [phase |-> "authenticated", member |-> i, organization |-> orgs[members[i].org]]
  <2>2. i \in DOMAIN members /\ i \in Nat \ {0} /\ members[i].org \in Orgs
    BY <1>1, MemberFields DEF ActiveFor, AdminTypes
  <2>3. orgs[members[i].org] \in Organization
    BY <1>1, <2>2 DEF AdminsOK, Exists, DirectorTypes
  <2>4. x \in Request /\ x.member = i
    BY <2>2, <2>3 DEF Request
  <2> HIDE DEF x
  <2>5. requests' = [requests EXCEPT ![r] = x] /\ txs' = txs
    BY <1>6, <2>1 DEF x, Authenticate
  <2> QED BY <1>4, <1>5, <2>2, <2>4, <2>5
<1>7. CASE Operate(r)
  <2> DEFINE new == [org |-> CurrentOrganization(r), kind |-> requests[r].organization.type,
                     member |-> requests[r].member, related |-> None, status |-> "COMPLETED"]
  <2>1. /\ requests[r] # Idle /\ requests[r].organization.type \in LoyaltyType
        /\ txs' = Append(txs, new) /\ requests' = [requests EXCEPT ![r] = Idle]
    BY <1>7 DEF Operate
  <2>2. requests[r].member \in DOMAIN members /\ requests[r].member \in Nat \ {0}
    BY <1>1, <2>1, RequestFields DEF AdminTypes, AdminsOK
  <2>3. CurrentOrganization(r) = members[requests[r].member].org /\ CurrentOrganization(r) \in Orgs
    BY <1>1, <2>2, MemberFields DEF CurrentOrganization
  <2>4. new \in Tx /\ new.member \in DOMAIN members /\ new.related = None
    BY <2>1, <2>2, <2>3 DEF Tx, None
  <2> HIDE DEF new
  <2>5. LedgerOK'
    BY <1>1, <1>2, <2>1, <2>4, EntryKeeps
  <2> QED BY <1>4, <2>1, <2>5
<1>8. ASSUME NEW t \in DOMAIN txs, Reverse(r, t) PROVE AdminInv'
  <2>1. /\ requests[r] # Idle /\ OfTenant(r, t) /\ Reversible(t)
        /\ txs' = Reversed(t, requests[r].member) /\ requests' = [requests EXCEPT ![r] = Idle]
    BY <1>8 DEF Reverse
  <2>2. requests[r].member \in DOMAIN members /\ requests[r].member \in Nat
    BY <1>1, <2>1, RequestFields DEF AdminTypes, AdminsOK
  <2>3. members[requests[r].member].org = txs[t].org
    BY <2>1 DEF OfTenant, CurrentOrganization
  <2>4. LedgerOK'
    BY <1>1, <1>2, <2>1, <2>2, <2>3, ReversedKeeps
  <2> QED BY <1>4, <2>1, <2>4
<1>9. CASE Finish(r)
  BY <1>4, <1>5, <1>9 DEF Finish
<1> QED BY <1>6, <1>7, <1>8, <1>9 DEF Requesting

\* The director's reversal takes an entry back in nobody's name.
LEMMA DirectorReverseKeeps ==
    ASSUME AdminInv, NEW t \in DOMAIN txs, DirectorReverse(t)
    PROVE  AdminInv'
<1>1. DirectorTypes /\ AdminTypes /\ AdminsOK /\ LedgerOK
  BY DEF AdminInv
<1>2. /\ Reversible(t) /\ txs' = Reversed(t, None)
      /\ UNCHANGED <<orgs, programs, users, members, patches, sent, grants, requests, blocked>>
  BY DEF DirectorReverse
<1>3. None \in Nat
  BY DEF None
<1>4. LedgerOK'
  BY <1>1, <1>2, <1>3, ReversedKeeps
<1>5. DirectorTypes' /\ AdminTypes' /\ AdminsOK'
  BY <1>1, <1>2 DEF DirectorTypes, AdminTypes, AdminsOK, Exists
<1> QED BY <1>4, <1>5 DEF AdminInv

\* An account that the director did not find, or found to be an administrator, is never a
\* client's: only an insertion of a free phone or an update of an administrator commits.
LEMMA ClientsStep ==
    ASSUME AdminInv, [Next]_vars, NEW u \in Users, users[u] = "USER"
    PROVE  users'[u] = "USER"
<1>1. AdminTypes /\ AdminsOK
  BY DEF AdminInv
<1>2. CASE UNCHANGED users
  BY <1>2
<1>3. ASSUME NEW v \in Users, Register(v) PROVE users'[u] = "USER"
  BY <1>1, <1>3 DEF Register, AdminTypes
<1>4. ASSUME NEW g \in Grants, GrantCommit(g) PROVE users'[u] = "USER"
  <2>1. /\ grants[g].phase = "grant" /\ PhoneFree(g)
        /\ users' = [users EXCEPT ![grants[g].user] = "ORGANIZATION_ADMIN"]
    BY <1>4 DEF GrantCommit
  <2>2. grants[g].user # u
    BY <1>1, <2>1 DEF PhoneFree, AdminsOK
  <2> QED BY <1>1, <2>1, <2>2 DEF AdminTypes
<1> QED BY <1>2, <1>3, <1>4 DEF Next, vars, CreateOrganization, Block, Unblock, Patching,
        PatchRead, PatchCheck, PatchSave, PatchCommit, PatchAbort, Granting, GrantRead, GrantAbort,
        RevokeRead, RevokeCommit, Requesting, Authenticate, Operate, Finish, Reverse,
        DirectorReverse

-----------------------------------------------------------------------------
(* The theorems *)

\* The inductive invariant: both halves.
IInv == DirectorInv /\ AdminInv

\* At the start there is nothing.
LEMMA InitIInv == Init => IInv
<1> SUFFICES ASSUME Init PROVE IInv
  OBVIOUS
<1>1. /\ orgs = [o \in Orgs |-> Absent]
      /\ programs = [o \in Orgs |-> [kind \in LoyaltyType |-> Absent]]
      /\ users = [u \in Users |-> "absent"]
      /\ members = <<>> /\ sent = 0 /\ txs = <<>> /\ blocked = {}
      /\ patches = [p \in Patches |-> Idle]
      /\ grants = [g \in Grants |-> Idle]
      /\ requests = [r \in Requests |-> Idle]
  BY DEF Init
<1>2. Idle.phase = "idle"
  BY DEF Idle
<1>3. DirectorTypes
  BY <1>1 DEF DirectorTypes
<1>4. PatchesOK /\ ProgramsOwned /\ ProgramOfType
  BY <1>1, <1>2 DEF PatchesOK, ProgramsOwned, ProgramOfType, Exists
<1>5. AdminTypes
  BY <1>1 DEF AdminTypes, Role
<1>6. AdminsOK /\ LedgerOK
  BY <1>1, <1>2 DEF AdminsOK, LedgerOK, TenantIsolation
<1> QED BY <1>3, <1>4, <1>5, <1>6 DEF IInv, DirectorInv, AdminInv

\* A step of the director on organizations keeps his half by DirectorKeeps and the other by
\* AdminFrame; a step on administrators the other way round.
LEMMA NextIInv == IInv /\ [Next]_vars => IInv'
<1> SUFFICES ASSUME IInv, [Next]_vars PROVE IInv'
  OBVIOUS
<1>1. DirectorInv /\ AdminInv
  BY DEF IInv
<1>2. CASE UNCHANGED vars
  <2>1. DirectorInv'
    BY <1>1, <1>2, DirectorFrame DEF vars
  <2>2. AdminInv'
    BY <1>1, <1>2 DEF vars, AdminInv, DirectorTypes, AdminTypes, AdminsOK, LedgerOK,
                      TenantIsolation, Exists
  <2> QED BY <2>1, <2>2 DEF IInv
<1>3. CASE DirectorStep
  BY <1>1, <1>3, DirectorKeeps, AdminFrame DEF IInv
<1>4. ASSUME NEW u \in Users, Register(u) PROVE IInv'
  <2>1. UNCHANGED <<orgs, programs, patches, sent, blocked>>
    BY <1>4 DEF Register
  <2> QED BY <1>1, <1>4, <2>1, DirectorFrame, RegisterKeeps DEF IInv
<1>5. ASSUME NEW g \in Grants, Granting(g) PROVE IInv'
  <2>1. UNCHANGED <<orgs, programs, patches, sent, blocked>>
    BY <1>5 DEF Granting, GrantRead, RevokeRead, GrantCommit, RevokeCommit, GrantAbort
  <2> QED BY <1>1, <1>5, <2>1, DirectorFrame, GrantingKeeps DEF IInv
<1>6. ASSUME NEW r \in Requests, Requesting(r) PROVE IInv'
  <2>1. UNCHANGED <<orgs, programs, patches, sent, blocked>>
    BY <1>6 DEF Requesting, Authenticate, Reverse, Operate, Finish
  <2> QED BY <1>1, <1>6, <2>1, DirectorFrame, RequestingKeeps DEF IInv
<1>7. ASSUME NEW t \in DOMAIN txs, DirectorReverse(t) PROVE IInv'
  <2>1. UNCHANGED <<orgs, programs, patches, sent, blocked>>
    BY <1>7 DEF DirectorReverse
  <2> QED BY <1>1, <1>7, <2>1, DirectorFrame, DirectorReverseKeeps DEF IInv
<1> QED BY <1>2, <1>3, <1>4, <1>5, <1>6, <1>7 DEF Next, DirectorStep

\* The inductive invariant holds in every reachable state.
THEOREM OrganizationsInvariant == Spec => []IInv
BY InitIInv, NextIInv, PTL DEF Spec

\* Every row and thread keeps its shape, and at no time has an organization two active
\* administrators or a user two active memberships.
THEOREM TypeCorrect == Spec => []TypeOK
<1>1. IInv => TypeOK
  BY DEF IInv, DirectorInv, DirectorTypes, AdminInv, AdminTypes, LedgerOK, TypeOK
<1> QED BY <1>1, OrganizationsInvariant, PTL

\* Organization.program is never missing, however many PATCH requests overlap.
THEOREM ProgramOfTypeCorrect == Spec => []ProgramOfType
<1>1. IInv => ProgramOfType
  BY DEF IInv, DirectorInv
<1> QED BY <1>1, OrganizationsInvariant, PTL

\* Whatever entry an administrator asked to reverse and however the director moved him
\* meanwhile, what was taken back is of the organization whose membership let his request
\* in, and nothing was taken back twice.
THEOREM TenantIsolationCorrect == Spec => []TenantIsolation
<1>1. IInv => TenantIsolation
  BY DEF IInv, AdminInv, LedgerOK
<1> QED BY <1>1, OrganizationsInvariant, PTL

\* No PATCH undoes a setting of a program that it does not name.
THEOREM ProgramEditsKeptCorrect == Spec => ProgramEditsKept
<1> DEFINE Kept(o, kind, f) ==
              programs'[o][kind][f] # programs[o][kind][f] =>
                  \E p \in Patches :
                      /\ patches[p].phase = "commit" /\ patches'[p] = Idle
                      /\ patches[p].org = o
                      /\ f \in DOMAIN patches[p].edit
           Step == \A o \in Orgs, kind \in LoyaltyType : programs[o][kind] # Absent =>
                      \A f \in {"terms", "isActive"} : Kept(o, kind, f)
<1>1. ASSUME IInv, [Next]_vars, NEW o \in Orgs, NEW kind \in LoyaltyType,
             programs[o][kind] # Absent, NEW f \in {"terms", "isActive"}
      PROVE  Kept(o, kind, f)
  <2>1. CASE DirectorStep
    BY <1>1, <2>1, EditsStep DEF IInv
  <2>2. CASE UNCHANGED programs
    BY <2>2
  <2> QED BY <1>1, <2>1, <2>2 DEF Next, DirectorStep, vars, Register, Granting, GrantRead,
          RevokeRead, GrantCommit, RevokeCommit, GrantAbort, Requesting, Authenticate, Operate,
          Finish, Reverse, DirectorReverse
<1>2. IInv /\ [Next]_vars => [Step]_vars
  <2> HIDE DEF Kept
  <2> QED BY <1>1
<1> QED BY <1>2, OrganizationsInvariant, PTL DEF Spec, ProgramEditsKept

\* A client never becomes an administrator, also when he registers between the director's
\* look at the phone and the insertion.
THEOREM ClientsStayClientsCorrect == Spec => ClientsStayClients
<1> DEFINE Step == \A u \in Users : users[u] = "USER" => users'[u] = "USER"
<1>1. IInv /\ [Next]_vars => [Step]_vars
  BY ClientsStep DEF IInv
<1> QED BY <1>1, OrganizationsInvariant, PTL DEF Spec, ClientsStayClients

=============================================================================
