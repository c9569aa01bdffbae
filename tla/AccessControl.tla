---------------------------- MODULE AccessControl ----------------------------
(***************************************************************************)
(* Who may do what on the platform (modules/access, modules/auth): roles   *)
(* of the platform's operators, what an operator may do for a salon, the   *)
(* temporary support authorizations and grants for personal data, and the  *)
(* sessions of the operators.                                              *)
(*                                                                         *)
(* A request first proves that its actor is an administrator and then, in  *)
(* a later statement, takes the locks and changes the rows; other requests *)
(* commit in between.  Passwords, names and the audit trail are left out.  *)
(***************************************************************************)
EXTENDS Integers, FiniteSets

CONSTANTS
    Operators,         \* platform identities
    AccessSalons,
    MaxAccessActions,  \* rows of access_control_actions
    MaxSupport,        \* support authorizations, taken in order
    MaxRotations       \* rotations of one refresh token

ASSUME AccessConstants ==
    /\ MaxAccessActions \in Nat /\ MaxSupport \in Nat /\ MaxRotations \in Nat

VARIABLES
    roles,          \* platform_role_assignments, by user; version 0: no row
    assignments,    \* platform_salon_assignments with their permissions
    supports,       \* platform_support_access_requests
    piiGrants,      \* platform_pii_access_grants that are not revoked
    refreshTokens,  \* refresh_tokens of a user's session
    signIn,         \* a login that has checked the password
    admitted,       \* actors whose running request was found to be an administrator's
    accessActions   \* access_control_actions

accessVars == <<roles, assignments, supports, piiGrants, refreshTokens, signIn, admitted,
                accessActions>>

PlatformRoles == {"platform_admin", "platform_ops"}
Capabilities == {"business.read", "calls.read", "calls.manage"}
PIIScopes == {"customers", "calls"}
SupportIds == 1 .. MaxSupport
NoSupport == [status |-> "none"]

-----------------------------------------------------------------------------
(* Capabilities. *)

capabilityRequirements(c) == IF c = "calls.manage" THEN {"calls.read"} ELSE {}
validAssignmentPermissions(p) == \A c \in p : capabilityRequirements(c) \subseteq p
temporaryOpsAuthorizationCapability(c) == c \in {"calls.read", "calls.manage"}
\* Capabilities and scopes of one support authorization.
validSupportCapabilities(p, scopes) ==
    /\ p # {} /\ \A c \in p : temporaryOpsAuthorizationCapability(c)
    /\ validAssignmentPermissions(p)
    /\ scopes \subseteq {"calls"}
    /\ "calls" \in scopes       \* a calls.* capability needs the calls scope
requiredCapability(scope) == IF scope = "calls" THEN "operations.read" ELSE "business.read"

HasRole(u, r) == roles[u].role = r /\ roles[u].active
platformAdminExists(u) == HasRole(u, "platform_admin")
AssignedPermissions(u, s) ==
    IF assignments[<<u, s>>].active THEN assignments[<<u, s>>].permissions ELSE {}

targetEligibleForSupportTx(u, s, caps) ==
    HasRole(u, "platform_ops") /\ assignments[<<u, s>>].active /\ caps \subseteq assignments[<<u, s>>].permissions
targetEligibleForPIIGrantTx(u, s, scope) ==
    HasRole(u, "platform_ops") /\ requiredCapability(scope) \in AssignedPermissions(u, s)

\* app_active_support_authorization.
ActiveSupport(u, s) ==
    {i \in SupportIds : /\ supports[i].status = "approved" /\ supports[i].live
                        /\ supports[i].user = u /\ supports[i].salon = s}
app_active_support_authorization(u, s, c) ==
    /\ HasRole(u, "platform_ops") /\ c \in AssignedPermissions(u, s)
    /\ \E i \in ActiveSupport(u, s) : c \in supports[i].capabilities
app_active_support_pii_grant(u, s, c, scope) ==
    /\ app_active_support_authorization(u, s, c)
    /\ \E g \in piiGrants : /\ g.user = u /\ g.salon = s /\ g.scope = scope /\ g.live
                            /\ g.support \in ActiveSupport(u, s)
                            /\ scope \in supports[g.support].scopes

\* Evaluate, for a salon on the platform's surface; scope "" asks for no personal data.
Evaluate(u, s, c, scope) ==
    \/ platformAdminExists(u)
    \/ /\ HasRole(u, "platform_ops") /\ c \in AssignedPermissions(u, s)
       /\ temporaryOpsAuthorizationCapability(c) => app_active_support_authorization(u, s, c)
       /\ scope # "" =>
            IF temporaryOpsAuthorizationCapability(c)
            THEN app_active_support_pii_grant(u, s, c, scope)
            ELSE \E g \in piiGrants : g.user = u /\ g.salon = s /\ g.scope = scope /\ g.live

\* GetEffectiveSupportAccess: what the operator is told, read without the assignment.
GetEffectiveSupportAccess(u, s) ==
    IF platformAdminExists(u)
    THEN [capabilities |-> {c \in Capabilities : temporaryOpsAuthorizationCapability(c)},
          scopes |-> PIIScopes]
    ELSE [capabilities |-> UNION {supports[i].capabilities : i \in ActiveSupport(u, s)},
          scopes |-> UNION {{sc \in supports[i].scopes :
                               \E g \in piiGrants : g.support = i /\ g.scope = sc /\ g.live} :
                            i \in ActiveSupport(u, s)}]

-----------------------------------------------------------------------------
(* Requests. *)

\* requireAccessAdmin, ensurePlatformAdminTx: before the locks are taken.
ensurePlatformAdminTx(a) ==
    /\ ~ admitted[a] /\ platformAdminExists(a)
    /\ admitted' = [admitted EXCEPT ![a] = TRUE]
    /\ UNCHANGED <<roles, assignments, supports, piiGrants, refreshTokens, signIn,
                   accessActions>>
\* A key that was recorded answers as it did.
beginAccessMutation(a) == admitted[a] /\ accessActions < MaxAccessActions
recordAccessMutation(a) ==
    /\ admitted' = [admitted EXCEPT ![a] = FALSE]
    /\ accessActions' = accessActions + 1
Refused(a) ==
    /\ admitted[a]
    /\ admitted' = [admitted EXCEPT ![a] = FALSE]
    /\ UNCHANGED <<roles, assignments, supports, piiGrants, refreshTokens, signIn,
                   accessActions>>

\* revokePlatformPrincipalDelegationsTx: assignments, supports and all grants of the user.
revokePlatformPrincipalDelegationsTx(u) ==
    /\ assignments' = [k \in DOMAIN assignments |->
         IF k[1] = u /\ assignments[k].active
         THEN [assignments[k] EXCEPT !.active = FALSE, !.version = @ + 1] ELSE assignments[k]]
    /\ supports' = [i \in SupportIds |->
         IF supports[i].status = "approved" /\ supports[i].user = u
         THEN [supports[i] EXCEPT !.status = "revoked"] ELSE supports[i]]
    /\ piiGrants' = {g \in piiGrants : g.user # u}
\* revokeSalonSupportRequestsTx: with the grants each support brought.
RevokedAt(u, s) == {i \in SupportIds : /\ supports[i].status = "approved"
                                       /\ supports[i].user = u /\ supports[i].salon = s}
revokeSalonSupportRequestsTx(u, s) ==
    /\ supports' = [i \in SupportIds |-> IF i \in RevokedAt(u, s)
                                         THEN [supports[i] EXCEPT !.status = "revoked"]
                                         ELSE supports[i]]
    /\ piiGrants' = {g \in piiGrants : g.support \notin RevokedAt(u, s)}

-----------------------------------------------------------------------------
(* Roles. *)

ActiveAdmins == {u \in Operators : platformAdminExists(u)}
NewRole(u, r, on) == [role |-> r, active |-> on, version |-> roles[u].version + 1]
DifferentRole(u, r, on) == roles[u].version = 0 \/ roles[u].role # r \/ roles[u].active # on
\* Mutant: the count of administrators does not leave the target out.
RemovesLastAdminCounted(u, r, on) ==
    platformAdminExists(u) /\ ~ (r = "platform_admin" /\ on) /\ ActiveAdmins = {}
RemovesLastAdmin(u, r, on) ==
    platformAdminExists(u) /\ ~ (r = "platform_admin" /\ on) /\ ActiveAdmins \ {u} = {}

\* BootstrapPlatformAdmin: from the operator's console, while nobody is administrator.
BootstrapPlatformAdmin(u) ==
    /\ accessActions < MaxAccessActions
    /\ ActiveAdmins = {}
    /\ roles' = [roles EXCEPT ![u] = NewRole(u, "platform_admin", TRUE)]
    /\ revokePlatformPrincipalDelegationsTx(u)
    /\ accessActions' = accessActions + 1
    /\ UNCHANGED <<refreshTokens, signIn, admitted>>

CreatePlatformUser(a, u, r, on) ==
    /\ beginAccessMutation(a)
    /\ roles[u].version = 0
    /\ roles' = [roles EXCEPT ![u] = NewRole(u, r, on)]
    /\ recordAccessMutation(a)
    /\ UNCHANGED <<assignments, supports, piiGrants, refreshTokens, signIn>>

\* Role, profile and password of a user; the account row is locked, so the sessions
\* that are deleted are all there are.
UpdatePlatformUser(a, u, r, on, expected, password) ==
    /\ beginAccessMutation(a)
    /\ roles[u].version > 0 /\ roles[u].version = expected
    /\ ~ RemovesLastAdmin(u, r, on)
    /\ IF DifferentRole(u, r, on) THEN revokePlatformPrincipalDelegationsTx(u)
       ELSE UNCHANGED <<assignments, supports, piiGrants>>
    /\ roles' = IF DifferentRole(u, r, on) \/ password
                THEN [roles EXCEPT ![u] = NewRole(u, r, on)] ELSE roles
    /\ refreshTokens' = IF DifferentRole(u, r, on) \/ password
                        THEN [refreshTokens EXCEPT ![u] = {}] ELSE refreshTokens
    /\ recordAccessMutation(a)
    /\ UNCHANGED signIn

\* The account row is not locked: a rotation that commits while the sessions are being
\* deleted leaves its successor.
Successors(u) == {{[n |-> t.n + 1, revoked |-> FALSE]} :
                    t \in {t \in refreshTokens[u] : ~ t.revoked /\ t.n < MaxRotations}}
MutatePlatformRole(a, u, r, on, expected) ==
    /\ beginAccessMutation(a)
    /\ roles[u].version > 0 /\ roles[u].version = expected
    /\ ~ RemovesLastAdmin(u, r, on)
    /\ IF DifferentRole(u, r, on)
       THEN /\ revokePlatformPrincipalDelegationsTx(u)
            /\ roles' = [roles EXCEPT ![u] = NewRole(u, r, on)]
            /\ \E left \in {{}} \cup Successors(u) :
                 refreshTokens' = [refreshTokens EXCEPT ![u] = left]
       ELSE UNCHANGED <<roles, assignments, supports, piiGrants, refreshTokens>>
    /\ recordAccessMutation(a)
    /\ UNCHANGED signIn

\* RotateSinglePlatformAdminPassword: only while there is exactly one administrator.
RotateSinglePlatformAdminPassword(u) ==
    /\ accessActions < MaxAccessActions
    /\ ActiveAdmins = {u}
    /\ roles' = [roles EXCEPT ![u].version = @ + 1]
    /\ refreshTokens' = [refreshTokens EXCEPT ![u] = {}]
    /\ accessActions' = accessActions + 1
    /\ UNCHANGED <<assignments, supports, piiGrants, signIn, admitted>>

-----------------------------------------------------------------------------
(* What an operator may do for a salon. *)

\* A change of the permissions ends what was authorized on top of them.
\* Mutant: only taking the assignment away does.
AssignmentChangedStatusOnly(u, s, on, p) == assignments[<<u, s>>].active # on
AssignmentChanged(u, s, on, p) ==
    \/ assignments[<<u, s>>].version = 0
    \/ assignments[<<u, s>>].active # on \/ assignments[<<u, s>>].permissions # p
MutateSalonAssignment(a, u, s, on, p, expected) ==
    /\ beginAccessMutation(a)
    /\ HasRole(u, "platform_ops") /\ validAssignmentPermissions(p)
    /\ assignments[<<u, s>>].version = expected
    /\ IF AssignmentChanged(u, s, on, p) THEN revokeSalonSupportRequestsTx(u, s)
       ELSE UNCHANGED <<supports, piiGrants>>
    /\ assignments' = [assignments EXCEPT ![<<u, s>>] =
                         IF @.version = 0 \/ @.active # on \/ @.permissions # p
                         THEN [active |-> on, permissions |-> p, version |-> @.version + 1]
                         ELSE @]
    /\ recordAccessMutation(a)
    /\ UNCHANGED <<roles, refreshTokens, signIn>>

\* The calls scope is given with a support authorization only.
GrantPIIAccess(a, u, s, scope) ==
    /\ beginAccessMutation(a)
    /\ scope # "calls" /\ targetEligibleForPIIGrantTx(u, s, scope)
    /\ piiGrants' = piiGrants \cup
         {[user |-> u, salon |-> s, scope |-> scope, live |-> TRUE, support |-> 0]}
    /\ recordAccessMutation(a)
    /\ UNCHANGED <<roles, assignments, supports, refreshTokens, signIn>>
RevokePIIAccess(a, g) ==
    /\ beginAccessMutation(a)
    /\ piiGrants' = piiGrants \ {g}
    /\ recordAccessMutation(a)
    /\ UNCHANGED <<roles, assignments, supports, refreshTokens, signIn>>

CreateSupportAccessRequest(a, i, u, s, caps, scopes) ==
    /\ beginAccessMutation(a)
    /\ supports[i] = NoSupport /\ \A j \in 1 .. i - 1 : supports[j] # NoSupport
    /\ validSupportCapabilities(caps, scopes)
    /\ targetEligibleForSupportTx(u, s, caps)
    /\ supports' = [supports EXCEPT ![i] =
         [status |-> "approved", user |-> u, salon |-> s, capabilities |-> caps,
          scopes |-> scopes, live |-> TRUE]]
    /\ piiGrants' = piiGrants \cup
         {[user |-> u, salon |-> s, scope |-> sc, live |-> TRUE, support |-> i] : sc \in scopes}
    /\ recordAccessMutation(a)
    /\ UNCHANGED <<roles, assignments, refreshTokens, signIn>>

\* mutateSupportAccessRequest: requests are approved when they are made, so only
\* revoking applies.
RevokeSupportAccessRequest(a, i) ==
    /\ beginAccessMutation(a)
    /\ supports[i].status = "approved"
    /\ supports' = [supports EXCEPT ![i].status = "revoked"]
    /\ piiGrants' = {g \in piiGrants : g.support # i}
    /\ recordAccessMutation(a)
    /\ UNCHANGED <<roles, assignments, refreshTokens, signIn>>

\* Time passes: a support authorization ends with the grants it brought.
SupportExpires(i) ==
    /\ supports[i].status = "approved" /\ supports[i].live
    /\ supports' = [supports EXCEPT ![i].live = FALSE]
    /\ piiGrants' = {IF g.support = i THEN [g EXCEPT !.live = FALSE] ELSE g : g \in piiGrants}
    /\ UNCHANGED <<roles, assignments, refreshTokens, signIn, admitted, accessActions>>
GrantExpires(g) ==
    /\ g.live /\ g.support = 0
    /\ piiGrants' = (piiGrants \ {g}) \cup {[g EXCEPT !.live = FALSE]}
    /\ UNCHANGED <<roles, assignments, supports, refreshTokens, signIn, admitted,
                   accessActions>>

-----------------------------------------------------------------------------
(* Sessions. *)

\* Login: the password is checked, then the token is stored.  One session is followed.
Login(u) ==
    /\ roles[u].version > 0 /\ ~ signIn[u]
    /\ refreshTokens[u] = {}
    /\ signIn' = [signIn EXCEPT ![u] = TRUE]
    /\ UNCHANGED <<roles, assignments, supports, piiGrants, refreshTokens, admitted,
                   accessActions>>
issueTokens(u) ==
    /\ signIn[u]
    /\ signIn' = [signIn EXCEPT ![u] = FALSE]
    /\ refreshTokens' = [refreshTokens EXCEPT ![u] = {[n |-> 0, revoked |-> FALSE]}]
    /\ UNCHANGED <<roles, assignments, supports, piiGrants, admitted, accessActions>>

\* rotatedRefreshToken: one token has one successor.
Rotated(t) == [n |-> t.n + 1, revoked |-> FALSE]
\* A token that was rotated is answered again while its successor is live (no change).
MayRotate(u, t) == t \in refreshTokens[u] /\ ~ t.revoked
RotateRefreshToken(u, t) ==
    /\ MayRotate(u, t) /\ t.n < MaxRotations
    /\ refreshTokens' = [refreshTokens EXCEPT ![u] =
         (@ \ {t}) \cup {[t EXCEPT !.revoked = TRUE], Rotated(t)}]
    /\ UNCHANGED <<roles, assignments, supports, piiGrants, signIn, admitted, accessActions>>
RevokeRefreshToken(u, t) ==
    /\ t \in refreshTokens[u]
    /\ refreshTokens' = [refreshTokens EXCEPT ![u] = (@ \ {t}) \cup {[t EXCEPT !.revoked = TRUE]}]
    /\ UNCHANGED <<roles, assignments, supports, piiGrants, signIn, admitted, accessActions>>

-----------------------------------------------------------------------------
AccessInit ==
    /\ roles = [u \in Operators |-> [role |-> "platform_ops", active |-> FALSE, version |-> 0]]
    /\ assignments = [k \in Operators \X AccessSalons |->
                        [active |-> FALSE, permissions |-> {}, version |-> 0]]
    /\ supports = [i \in SupportIds |-> NoSupport]
    /\ piiGrants = {}
    /\ refreshTokens = [u \in Operators |-> {}]
    /\ signIn = [u \in Operators |-> FALSE]
    /\ admitted = [u \in Operators |-> FALSE]
    /\ accessActions = 0

AccessNext ==
    \/ \E u \in Operators : \/ BootstrapPlatformAdmin(u)
                            \/ RotateSinglePlatformAdminPassword(u)
                            \/ ensurePlatformAdminTx(u) \/ Refused(u)
                            \/ Login(u) \/ issueTokens(u)
    \/ \E a, u \in Operators, r \in PlatformRoles, on \in BOOLEAN :
         \/ CreatePlatformUser(a, u, r, on)
         \/ \E expected \in {roles[u].version - 1, roles[u].version} :
              \/ MutatePlatformRole(a, u, r, on, expected)
              \/ \E p \in BOOLEAN : UpdatePlatformUser(a, u, r, on, expected, p)
    \/ \E a, u \in Operators, s \in AccessSalons :
         \/ \E on \in BOOLEAN, p \in SUBSET Capabilities,
               expected \in {assignments[<<u, s>>].version - 1, assignments[<<u, s>>].version} :
              MutateSalonAssignment(a, u, s, on, p, expected)
         \/ \E scope \in PIIScopes : GrantPIIAccess(a, u, s, scope)
         \/ \E i \in SupportIds, caps \in SUBSET Capabilities, scopes \in SUBSET PIIScopes :
              CreateSupportAccessRequest(a, i, u, s, caps, scopes)
    \/ \E a \in Operators : \/ \E i \in SupportIds : RevokeSupportAccessRequest(a, i)
                            \/ \E g \in piiGrants : RevokePIIAccess(a, g)
    \/ \E i \in SupportIds : SupportExpires(i)
    \/ \E g \in piiGrants : GrantExpires(g)
    \/ \E u \in Operators : \E t \in refreshTokens[u] :
         RotateRefreshToken(u, t) \/ RevokeRefreshToken(u, t)

AccessSpec == AccessInit /\ [][AccessNext]_accessVars

-----------------------------------------------------------------------------
AccessTypeOK ==
    /\ \A u \in Operators : /\ roles[u].role \in PlatformRoles /\ roles[u].version \in Nat
                            /\ \A t \in refreshTokens[u] : t.n \in 0 .. MaxRotations
    /\ \A g \in piiGrants : g.support \in 0 .. MaxSupport
    /\ \A k \in DOMAIN assignments : validAssignmentPermissions(assignments[k].permissions)
    /\ accessActions \in 0 .. MaxAccessActions

\* Two administrators who demote each other at the same time leave one: once the
\* platform has an administrator it never loses the last (MutatePlatformRole,
\* UpdatePlatformUser count the others under the lock, after admission).
AnAdministratorRemains == [][ActiveAdmins # {} => ActiveAdmins' # {}]_accessVars

\* What an operator is told he may do for a salon (GetEffectiveSupportAccess, which reads
\* neither his role nor his assignment) is what Evaluate allows, after any sequence of
\* changed roles and assignments, revoked and expired authorizations.  Every grant of
\* personal data that is not revoked belongs to an active operator.  A session has one
\* live token, however its tokens are replayed.
DelegationIsBacked ==
    /\ \A u \in Operators, s \in AccessSalons :
         LET told == GetEffectiveSupportAccess(u, s) IN
         \A c \in told.capabilities :
            Evaluate(u, s, c, "") /\ \A sc \in told.scopes : Evaluate(u, s, c, sc)
    /\ \A g \in piiGrants : HasRole(g.user, "platform_ops")
    /\ \A u \in Operators : Cardinality({t \in refreshTokens[u] : ~ t.revoked}) <= 1
=============================================================================
