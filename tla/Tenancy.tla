------------------------------- MODULE Tenancy -------------------------------
(***************************************************************************)
(* How a salon comes to the platform (modules/tenant_registration,         *)
(* tenant_provisioning, tenant_runtime, salon CreateInTx, the owner        *)
(* recoveries and memberships of modules/access): an application is        *)
(* reviewed, provisioned into a salon with its owner, the owner is invited *)
(* and accepts, and the salon's use is metered.                            *)
(*                                                                         *)
(* Every operation of an operator names the version he saw and a key that  *)
(* is recorded; the rows it needs are locked, so an operation is one step. *)
(* Metering reads the limit before it locks the minute's count.            *)
(***************************************************************************)
EXTENDS Integers, FiniteSets

CONSTANTS
    Applications,     \* registration requests
    TenantUsers,      \* identities of the tenant realm
    TenantEmails,
    MaxReviewVersion, \* bound on a request's version
    MaxMemberVersion, \* bound on a membership's version
    MaxInvitations,   \* invitations, taken in order
    MaxQuotaUnits     \* bound on a limit

ASSUME TenancyConstants ==
    /\ MaxReviewVersion \in Nat \ {0} /\ MaxMemberVersion \in Nat /\ MaxInvitations \in Nat
    /\ MaxQuotaUnits \in Nat
    /\ "own" \notin Applications /\ "none" \notin TenantUsers

VARIABLES
    registrations,  \* tenant_registration_requests
    salons,         \* salons, by the key of the operation that created them
    memberships,    \* salon_memberships
    accounts,       \* users of the tenant realm, with their email and session
    invitations,    \* tenant_owner_invitations
    quota           \* tenant_runtime_limits and the bucket of the current minute

tenancyVars == <<registrations, salons, memberships, accounts, invitations, quota>>

SalonKeys == Applications \cup {"own"}   \* a provisioned salon, or the first owner's
InvitationIds == 1 .. MaxInvitations
NoSalon == [owner |-> "none"]
NoInvitation == [status |-> "none"]
NoLimit == -1

ReviewStatuses == {"new", "in_review", "qualified", "setup_in_progress", "converted",
                   "declined", "spam"}
CanTransition(from, to) ==
    to \in CASE from = "new" -> {"in_review", "qualified", "declined", "spam"}
             [] from = "in_review" -> {"qualified", "declined", "spam"}
             [] from = "qualified" -> {"setup_in_progress", "declined"}
             [] from = "setup_in_progress" -> {"qualified", "converted"}
             [] OTHER -> {}
terminalStatus(s) == s \in {"converted", "declined", "spam"}

-----------------------------------------------------------------------------
(* The application. *)

\* create_tenant_registration_request: a submission key is used once.
Submit(r) ==
    /\ registrations[r].status = "none"
    /\ registrations' = [registrations EXCEPT ![r].status = "new", ![r].version = 1]
    /\ UNCHANGED <<salons, memberships, accounts, invitations, quota>>

\* A key that was recorded answers as it did; these are the ones that were not.
ReviewAdmitted(r, expected) ==
    /\ registrations[r].version = expected /\ registrations[r].version < MaxReviewVersion
    /\ registrations[r].version > 0
Mutate(r, status, expected) ==
    /\ ReviewAdmitted(r, expected)
    /\ ~ terminalStatus(registrations[r].status)
    /\ \/ status = registrations[r].status       \* assignment or draft only
       \/ status # "converted" /\ CanTransition(registrations[r].status, status)
    /\ registrations' = [registrations EXCEPT ![r].status = status, ![r].version = @ + 1]
    /\ UNCHANGED <<salons, memberships, accounts, invitations, quota>>
AddNote(r, expected) ==
    /\ ReviewAdmitted(r, expected) /\ ~ terminalStatus(registrations[r].status)
    /\ registrations' = [registrations EXCEPT ![r].version = @ + 1]
    /\ UNCHANGED <<salons, memberships, accounts, invitations, quota>>
\* redact_due_tenant_registration_requests: the identity of the salon is kept.
RedactDue(r) ==
    /\ terminalStatus(registrations[r].status) /\ ~ registrations[r].redacted
    /\ registrations' = [registrations EXCEPT ![r].redacted = TRUE]
    /\ UNCHANGED <<salons, memberships, accounts, invitations, quota>>

-----------------------------------------------------------------------------
(* The salon and its owner. *)

EmailTaken(e) == \E v \in TenantUsers : accounts[v].status # "none" /\ accounts[v].email = e
\* resolveOwner: a new identity that is invited, or one that is active already.
resolveOwner(u, e, mode) ==
    IF mode = "create_invited"
    THEN /\ accounts[u].status = "none" /\ ~ EmailTaken(e)
         /\ accounts' = [accounts EXCEPT ![u] = [status |-> "invited", email |-> e, session |-> FALSE]]
    ELSE /\ accounts[u].status = "active" /\ accounts[u].email = e
         /\ UNCHANGED accounts

OwnerMembership(k, u) ==
    [salon |-> k, user |-> u, role |-> "tenant_owner", active |-> TRUE, owner |-> TRUE, version |-> 1]
\* CreateInTx: the salon with its owner's membership; a repeated key finds the salon.
CreateInTx(k, u) ==
    IF salons[k] = NoSalon
    THEN /\ salons' = [salons EXCEPT ![k] = [owner |-> u]]
         /\ memberships' = memberships \cup {OwnerMembership(k, u)}
    ELSE /\ salons[k].owner = u
         /\ UNCHANGED <<salons, memberships>>

Provisionable(r) == registrations[r].status \in {"qualified", "setup_in_progress"}
Provision(r, u, e, mode, expected) ==
    /\ Provisionable(r)
    /\ ReviewAdmitted(r, expected)
    /\ resolveOwner(u, e, mode)
    /\ CreateInTx(r, u)
    /\ registrations' = [registrations EXCEPT ![r].status = "converted", ![r].version = @ + 1]
    /\ UNCHANGED <<invitations, quota>>

\* CreateFirstOwner, while there is no user at all, and a salon that an owner creates.
CreateFirstOwner(u, e) ==
    /\ \A v \in TenantUsers : accounts[v].status = "none"
    /\ accounts' = [accounts EXCEPT ![u] = [status |-> "active", email |-> e, session |-> TRUE]]
    /\ UNCHANGED <<registrations, salons, memberships, invitations, quota>>
CreateSalon(u) ==
    /\ accounts[u].status = "active" /\ accounts[u].session
    /\ CreateInTx("own", u)
    /\ UNCHANGED <<registrations, accounts, invitations, quota>>

-----------------------------------------------------------------------------
(* The invitation. *)

ActiveInvitations(u) ==
    {i \in InvitationIds : invitations[i].status = "active" /\ invitations[i].user = u}
\* Rotation revokes the one that is active.
RevokeInvitations(u) ==
    [i \in InvitationIds |-> IF i \in ActiveInvitations(u)
                             THEN [invitations[i] EXCEPT !.status = "revoked"]
                             ELSE invitations[i]]
CreateInvitation(r, i, rotate, expected) ==
    LET u == salons[r].owner IN
    /\ registrations[r].status = "converted" /\ ReviewAdmitted(r, expected)
    /\ invitations[i] = NoInvitation /\ \A j \in 1 .. i - 1 : invitations[j] # NoInvitation
    /\ accounts[u].status = "invited"
    /\ ActiveInvitations(u) # {} => rotate
    /\ invitations' = [RevokeInvitations(u) EXCEPT ![i] =
                         [status |-> "active", user |-> u, live |-> TRUE]]
    /\ registrations' = [registrations EXCEPT ![r].version = @ + 1]
    /\ UNCHANGED <<salons, memberships, accounts, quota>>
InvitationExpires(i) ==
    /\ invitations[i].status = "active" /\ invitations[i].live
    /\ invitations' = [invitations EXCEPT ![i].live = FALSE]
    /\ UNCHANGED <<registrations, salons, memberships, accounts, quota>>
\* accept_tenant_owner_invitation.
AcceptInvitation(i) ==
    LET u == invitations[i].user IN
    /\ invitations[i].status = "active" /\ invitations[i].live
    /\ accounts[u].status = "invited"
    /\ accounts' = [accounts EXCEPT ![u].status = "active", ![u].session = FALSE]
    /\ invitations' = [invitations EXCEPT ![i].status = "used"]
    /\ UNCHANGED <<registrations, salons, memberships, quota>>

-----------------------------------------------------------------------------
(* The people of a salon. *)

MembershipOf(k, u) == {m \in memberships : m.salon = k /\ m.user = u}
\* MutateMembership: the owner keeps his role, everyone else is a manager.
MutateMembership(k, u, role, on, expected) ==
    /\ salons[k] # NoSalon /\ accounts[u].status = "active"
    /\ role = IF salons[k].owner = u THEN "tenant_owner" ELSE "tenant_business_manager"
    /\ IF MembershipOf(k, u) = {}
       THEN /\ expected = 0
            /\ memberships' = memberships \cup
                 {[salon |-> k, user |-> u, role |-> role, active |-> on, owner |-> FALSE, version |-> 1]}
       ELSE \E m \in MembershipOf(k, u) :
            /\ m.version = expected /\ m.version < MaxMemberVersion
            /\ m.owner => m.role = role
            /\ memberships' = (memberships \ {m}) \cup
                 {IF m.role # role \/ m.active # on
                  THEN [m EXCEPT !.role = role, !.active = on, !.version = @ + 1] ELSE m}
    /\ UNCHANGED <<registrations, salons, accounts, invitations, quota>>

SignIn(u) ==
    /\ accounts[u].status = "active"
    /\ accounts' = [accounts EXCEPT ![u].session = TRUE]
    /\ UNCHANGED <<registrations, salons, memberships, invitations, quota>>
OwnsSalon(u) == \E k \in SalonKeys : salons[k].owner = u
\* RotateTenantOwnerPassword and RenameTenantEmail end the sessions of an active owner.
RotateTenantOwnerPassword(k, u) ==
    /\ salons[k].owner = u /\ accounts[u].status = "active"
    /\ accounts' = [accounts EXCEPT ![u].session = FALSE]
    /\ UNCHANGED <<registrations, salons, memberships, invitations, quota>>
RenameTenantEmail(u, e) ==
    /\ accounts[u].status = "active" /\ OwnsSalon(u) /\ ~ EmailTaken(e)
    /\ accounts' = [accounts EXCEPT ![u].email = e, ![u].session = FALSE]
    /\ UNCHANGED <<registrations, salons, memberships, invitations, quota>>

-----------------------------------------------------------------------------
(* Metering. *)

UpdateLimits(limit, expected) ==
    /\ quota.version = expected /\ quota.version < MaxReviewVersion
    /\ quota' = [quota EXCEPT !.limit = limit, !.version = @ + 1,
                              !.peak = IF limit > @ THEN limit ELSE @]
    /\ UNCHANGED <<registrations, salons, memberships, accounts, invitations>>
\* consume_tenant_runtime_quota: the limit is read, then the bucket is locked.
ReadLimit ==
    /\ quota.seen = NoLimit
    /\ quota' = [quota EXCEPT !.seen = quota.limit]
    /\ UNCHANGED <<registrations, salons, memberships, accounts, invitations>>
Exhausted(units) == quota.used + units > quota.seen
Consume(units) ==
    /\ quota.seen # NoLimit
    /\ quota' = [quota EXCEPT !.used = IF Exhausted(units) THEN @ ELSE @ + units,
                              !.seen = NoLimit]
    /\ UNCHANGED <<registrations, salons, memberships, accounts, invitations>>
NextMinute ==
    /\ quota.seen = NoLimit /\ quota.used > 0
    /\ quota' = [quota EXCEPT !.used = 0, !.peak = quota.limit]
    /\ UNCHANGED <<registrations, salons, memberships, accounts, invitations>>

-----------------------------------------------------------------------------
TenancyInit ==
    /\ registrations = [r \in Applications |-> [status |-> "none", version |-> 0, redacted |-> FALSE]]
    /\ salons = [k \in SalonKeys |-> NoSalon]
    /\ memberships = {}
    /\ accounts = [u \in TenantUsers |-> [status |-> "none", email |-> "", session |-> FALSE]]
    /\ invitations = [i \in InvitationIds |-> NoInvitation]
    /\ quota = [limit |-> 1, version |-> 1, used |-> 0, seen |-> NoLimit, peak |-> 1]

ReviewNext ==
    \/ \E r \in Applications : \E expected \in registrations[r].version - 1 .. registrations[r].version :
         \/ AddNote(r, expected)
         \/ \E s \in ReviewStatuses : Mutate(r, s, expected)
         \/ \E u \in TenantUsers, e \in TenantEmails, m \in {"create_invited", "use_existing"} :
              Provision(r, u, e, m, expected)
         \/ \E i \in InvitationIds, rotate \in BOOLEAN : CreateInvitation(r, i, rotate, expected)
    \/ \E r \in Applications : Submit(r) \/ RedactDue(r)
    \/ \E u \in TenantUsers : \/ CreateSalon(u) \/ SignIn(u)
                              \/ \E e \in TenantEmails : CreateFirstOwner(u, e) \/ RenameTenantEmail(u, e)
                              \/ \E k \in SalonKeys : RotateTenantOwnerPassword(k, u)
    \/ \E i \in InvitationIds : AcceptInvitation(i) \/ InvitationExpires(i)
    \/ \E k \in SalonKeys, u \in TenantUsers, role \in {"tenant_owner", "tenant_business_manager"},
          on \in BOOLEAN, expected \in 0 .. MaxMemberVersion :
         MutateMembership(k, u, role, on, expected)
QuotaNext ==
    \/ \E n \in 1 .. MaxQuotaUnits :
         Consume(n) \/ \E expected \in quota.version - 1 .. quota.version : UpdateLimits(n, expected)
    \/ ReadLimit \/ NextMinute
TenancyNext == ReviewNext \/ QuotaNext

TenancySpec == TenancyInit /\ [][TenancyNext]_tenancyVars

-----------------------------------------------------------------------------
TenancyTypeOK ==
    /\ \A r \in Applications : /\ registrations[r].status \in ReviewStatuses \cup {"none"}
                               /\ registrations[r].version \in 0 .. MaxReviewVersion
    /\ \A k \in SalonKeys : salons[k].owner \in TenantUsers \cup {"none"}
    /\ \A u \in TenantUsers : accounts[u].status \in {"none", "invited", "active"}

\* A request becomes a salon exactly when it is converted, and the salon has one owner,
\* who has the owner's membership; emails are unique; an owner who can sign in has no
\* invitation left, and an invited one has at most one that works, however often it is
\* rotated, expires or is accepted; and a minute's use stays within the largest limit
\* that was in force in it.
TenantsAreWhole ==
    /\ \A r \in Applications : salons[r] # NoSalon <=> registrations[r].status = "converted"
    /\ \A k \in SalonKeys : salons[k] # NoSalon =>
          {m.user : m \in {x \in memberships : x.salon = k /\ x.owner}} = {salons[k].owner}
    /\ \A u \in TenantUsers :
          /\ Cardinality(ActiveInvitations(u)) <= IF accounts[u].status = "invited" THEN 1 ELSE 0
          /\ accounts[u].session => accounts[u].status = "active"
          /\ accounts[u].status # "none" => \A v \in TenantUsers \ {u} :
                accounts[v].status # "none" => accounts[v].email # accounts[u].email
    /\ quota.used <= quota.peak
=============================================================================
