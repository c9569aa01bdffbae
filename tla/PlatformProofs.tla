--------------------------- MODULE PlatformProofs ---------------------------
(***************************************************************************)
(* Proofs about access control, tenancy, the configuration of a salon, the *)
(* gate of automatic booking and the imported catalog, for any number of   *)
(* operators, salons, applications, users, versions, transfers, records    *)
(* and snapshots: each component alone, and the platform as MCPlatform     *)
(* composes it.                                                            *)
(***************************************************************************)
EXTENDS MCPlatform, FiniteSetTheorems, TLAPS

-----------------------------------------------------------------------------
(* The rows.                                                               *)

RoleRows == [role : PlatformRoles, active : BOOLEAN, version : Nat]
AssignmentRows == [active : BOOLEAN, permissions : SUBSET Capabilities, version : Nat]
SupportRows == [status : {"approved", "revoked"}, user : Operators, salon : AccessSalons,
                capabilities : SUBSET Capabilities, scopes : SUBSET PIIScopes,
                live : BOOLEAN]
GrantRows == [user : Operators, salon : AccessSalons, scope : PIIScopes, live : BOOLEAN,
              support : 0 .. MaxSupport]
TokenRows == [n : 0 .. MaxRotations, revoked : BOOLEAN]

AccessTyped ==
    /\ roles \in [Operators -> RoleRows]
    /\ assignments \in [Operators \X AccessSalons -> AssignmentRows]
    /\ supports \in [SupportIds -> SupportRows \cup {NoSupport}]
    /\ piiGrants \subseteq GrantRows
    /\ refreshTokens \in [Operators -> SUBSET TokenRows]
    /\ signIn \in [Operators -> BOOLEAN] /\ admitted \in [Operators -> BOOLEAN]
    /\ accessActions \in 0 .. MaxAccessActions

(* A user without a role row has no role in force.                         *)
NoRoleIsIdle == \A u \in Operators : roles[u].version = 0 => ~ roles[u].active

(* The permissions of an assignment come with what they require.           *)
PermissionsAreWhole ==
    \A k \in Operators \X AccessSalons :
        validAssignmentPermissions(assignments[k].permissions)

(* An authorization that is not revoked, expired or not, rests on the      *)
(* operator's role and on an assignment that has all it gives.             *)
Pair(i) == <<supports[i].user, supports[i].salon>>
Approved(i) == supports[i].status = "approved"
SupportBacked(i) ==
    /\ HasRole(supports[i].user, "platform_ops")
    /\ assignments[Pair(i)].active
    /\ supports[i].capabilities \subseteq assignments[Pair(i)].permissions
    /\ \A c \in supports[i].capabilities : temporaryOpsAuthorizationCapability(c)
SupportsAreBacked == \A i \in SupportIds : Approved(i) => SupportBacked(i)

(* A grant rests on the operator's role and, if an authorization brought   *)
(* it, on that one.                                                        *)
GrantBacked(g) ==
    /\ HasRole(g.user, "platform_ops")
    /\ g.support # 0 =>
         /\ Approved(g.support)
         /\ supports[g.support].user = g.user /\ supports[g.support].salon = g.salon
GrantsAreBacked == \A g \in piiGrants : GrantBacked(g)

(* A session has one token that works.                                     *)
OneLiveToken ==
    \A u \in Operators : \A s, t \in refreshTokens[u] : ~ s.revoked /\ ~ t.revoked => s = t

AccessInv ==
    /\ AccessTyped /\ NoRoleIsIdle /\ PermissionsAreWhole
    /\ SupportsAreBacked /\ GrantsAreBacked /\ OneLiveToken

Backed == SupportsAreBacked /\ GrantsAreBacked

-----------------------------------------------------------------------------
(* What the parts of a step keep.                                          *)

LEMMA AccessInitially == AccessInit => AccessInv
<1> SUFFICES ASSUME AccessInit PROVE AccessInv
  OBVIOUS
<1>1. AccessTyped
  BY AccessConstants DEF RoleRows, PlatformRoles, AssignmentRows, AccessInit, AccessTyped
<1>2. NoRoleIsIdle
  BY DEF AccessInit, NoRoleIsIdle
<1>3. PermissionsAreWhole
  BY DEF AccessInit, PermissionsAreWhole, validAssignmentPermissions
<1>4. SupportsAreBacked /\ GrantsAreBacked /\ OneLiveToken
  BY DEF AccessInit, SupportsAreBacked, GrantsAreBacked, OneLiveToken, Approved, NoSupport
<1> QED BY <1>1, <1>2, <1>3, <1>4 DEF AccessInv

(* A support with a status is a row.                                       *)
LEMMA ApprovedIsRow ==
    ASSUME AccessTyped, NEW i \in SupportIds, Approved(i)
    PROVE  supports[i] \in SupportRows
BY DEF AccessTyped, Approved, NoSupport

(* A grant's authorization is one of the table.                            *)
LEMMA GrantSupport ==
    ASSUME AccessTyped, NEW g \in piiGrants
    PROVE  g \in GrantRows /\ (g.support # 0 => g.support \in SupportIds)
<1>1. g \in GrantRows
  BY DEF AccessTyped
<1> QED BY <1>1, AccessConstants DEF GrantRows, SupportIds

(* Who keeps the role of an operator keeps what rests on it.               *)
LEMMA BackedWhenKept ==
    ASSUME Backed, UNCHANGED <<assignments, supports, piiGrants>>,
           \A v : HasRole(v, "platform_ops") => HasRole(v, "platform_ops")'
    PROVE  Backed'
BY DEF Backed, SupportsAreBacked, GrantsAreBacked, SupportBacked, Pair, GrantBacked, Approved

(* revokePlatformPrincipalDelegationsTx leaves nothing of the user, and    *)
(* what others have as it was.                                             *)
LEMMA BackedWhenRevoked ==
    ASSUME AccessTyped, Backed, NEW u \in Operators, revokePlatformPrincipalDelegationsTx(u),
           \A v \in Operators \ {u} : roles'[v] = roles[v]
    PROVE  Backed'
<1>1. ASSUME NEW i \in SupportIds, Approved(i)'
      PROVE  Approved(i) /\ supports'[i] = supports[i] /\ supports[i] \in SupportRows
             /\ supports[i].user # u
  <2>1. supports'[i] = IF supports[i].status = "approved" /\ supports[i].user = u
                       THEN [supports[i] EXCEPT !.status = "revoked"] ELSE supports[i]
    BY DEF revokePlatformPrincipalDelegationsTx
  <2>2. Approved(i)
    BY <1>1, <2>1 DEF Approved
  <2>3. supports[i] \in SupportRows
    BY <2>2, ApprovedIsRow
  <2>4. supports[i].user # u
    BY <1>1, <2>1, <2>3 DEF Approved, SupportRows
  <2> QED BY <2>1, <2>2, <2>3, <2>4
<1>2. \A k \in Operators \X AccessSalons : k[1] # u => assignments'[k] = assignments[k]
  BY DEF revokePlatformPrincipalDelegationsTx, AccessTyped
<1>3. \A v \in Operators \ {u} : HasRole(v, "platform_ops") => HasRole(v, "platform_ops")'
  BY DEF HasRole
<1>4. ASSUME NEW i \in SupportIds, Approved(i)' PROVE SupportBacked(i)'
  <2>1. PICK row \in SupportRows : row = supports[i]
    BY <1>1, <1>4
  <2>2. /\ supports'[i] = row /\ row.user \in Operators \ {u} /\ row.salon \in AccessSalons
        /\ SupportBacked(i)
    BY <1>1, <1>4, <2>1 DEF SupportRows, Backed, SupportsAreBacked
  <2>3. assignments'[<<row.user, row.salon>>] = assignments[<<row.user, row.salon>>]
    BY <1>2, <2>2
  <2> QED BY <1>3, <2>1, <2>2, <2>3 DEF SupportBacked, Pair
<1>5. ASSUME NEW g \in piiGrants' PROVE GrantBacked(g)'
  <2>1. g \in piiGrants /\ g.user # u
    BY DEF revokePlatformPrincipalDelegationsTx
  <2>2. g \in GrantRows /\ (g.support # 0 => g.support \in SupportIds) /\ GrantBacked(g)
    BY <2>1, GrantSupport DEF Backed, GrantsAreBacked
  <2>3. HasRole(g.user, "platform_ops")'
    BY <1>3, <2>1, <2>2 DEF GrantBacked, GrantRows
  <2>4. ASSUME g.support # 0
        PROVE  Approved(g.support)' /\ supports'[g.support] = supports[g.support]
    <3>1. supports[g.support].user = g.user /\ g.support \in SupportIds
      BY <2>2, <2>4 DEF GrantBacked
    <3>2. supports'[g.support] = supports[g.support]
      BY <2>1, <3>1 DEF revokePlatformPrincipalDelegationsTx
    <3> QED BY <2>2, <2>4, <3>2 DEF GrantBacked, Approved
  <2> QED BY <2>2, <2>3, <2>4 DEF GrantBacked
<1> QED BY <1>4, <1>5 DEF Backed, SupportsAreBacked, GrantsAreBacked

(* The rows it writes are rows.                                            *)
LEMMA RevokedTypes ==
    ASSUME AccessTyped, PermissionsAreWhole, NEW u \in Operators,
           revokePlatformPrincipalDelegationsTx(u)
    PROVE  /\ assignments' \in [Operators \X AccessSalons -> AssignmentRows]
           /\ supports' \in [SupportIds -> SupportRows \cup {NoSupport}]
           /\ piiGrants' \subseteq GrantRows
           /\ PermissionsAreWhole'
<1>1. ASSUME NEW k \in Operators \X AccessSalons
      PROVE  assignments'[k] \in AssignmentRows
             /\ assignments'[k].permissions = assignments[k].permissions
  <2>1. assignments[k] \in AssignmentRows
    BY DEF AccessTyped
  <2>2. assignments'[k] \in {assignments[k],
             [assignments[k] EXCEPT !.active = FALSE, !.version = assignments[k].version + 1]}
    BY DEF revokePlatformPrincipalDelegationsTx, AccessTyped
  <2>3. PICK row \in AssignmentRows : row = assignments[k]
    BY <2>1
  <2> DEFINE new == [row EXCEPT !.active = FALSE, !.version = row.version + 1]
  <2>4. row.version + 1 \in Nat
    BY DEF AssignmentRows
  <2>5. new \in AssignmentRows /\ new.permissions = row.permissions
    BY <2>4 DEF AssignmentRows
  <2> QED BY <2>2, <2>3, <2>5
<1>2. assignments' \in [Operators \X AccessSalons -> AssignmentRows]
  <2>1. DOMAIN assignments' = Operators \X AccessSalons
        /\ assignments' = [k \in DOMAIN assignments' |-> assignments'[k]]
    BY DEF revokePlatformPrincipalDelegationsTx, AccessTyped
  <2> QED BY <1>1, <2>1
<1>3. supports' \in [SupportIds -> SupportRows \cup {NoSupport}]
  <2>1. \A i \in SupportIds : supports[i] \in SupportRows =>
           [supports[i] EXCEPT !.status = "revoked"] \in SupportRows
    BY DEF SupportRows
  <2>2. \A i \in SupportIds : supports[i] \in SupportRows \cup {NoSupport}
                              /\ (Approved(i) => supports[i] \in SupportRows)
    BY ApprovedIsRow DEF AccessTyped
  <2> QED BY <2>1, <2>2 DEF revokePlatformPrincipalDelegationsTx, Approved
<1>4. piiGrants' \subseteq GrantRows
  BY DEF revokePlatformPrincipalDelegationsTx, AccessTyped
<1> QED BY <1>1, <1>2, <1>3, <1>4 DEF PermissionsAreWhole

-----------------------------------------------------------------------------
(* Roles.                                                                  *)

(* A new role of one user.                                                 *)
LEMMA NewRoleEffect ==
    ASSUME AccessTyped, NoRoleIsIdle, NEW u \in Operators, NEW r \in PlatformRoles,
           NEW on \in BOOLEAN, roles' = [roles EXCEPT ![u] = NewRole(u, r, on)]
    PROVE  /\ roles' \in [Operators -> RoleRows] /\ NoRoleIsIdle'
           /\ \A v \in Operators \ {u} : roles'[v] = roles[v]
           /\ roles'[u].role = r /\ roles'[u].active = on
<1> DEFINE row == NewRole(u, r, on)
<1>1. roles[u] \in RoleRows
  BY DEF AccessTyped
<1>2. roles[u].version + 1 \in Nat /\ roles[u].version + 1 # 0
  BY <1>1 DEF RoleRows
<1>3. row \in RoleRows /\ row.version # 0 /\ row.role = r /\ row.active = on
  BY <1>2 DEF NewRole, RoleRows
<1>w. roles' = [roles EXCEPT ![u] = row]
  OBVIOUS
<1> HIDE DEF row
<1>4. roles'[u] = row /\ \A v \in Operators \ {u} : roles'[v] = roles[v]
  BY <1>w DEF AccessTyped
<1>5. roles' \in [Operators -> RoleRows]
  BY <1>3, <1>w DEF AccessTyped
<1> QED BY <1>3, <1>4, <1>5 DEF NoRoleIsIdle

(* Only the check of the last administrator keeps one.                     *)
LEMMA AdministratorKept ==
    ASSUME AccessTyped, NoRoleIsIdle, NEW u \in Operators, NEW r \in PlatformRoles,
           NEW on \in BOOLEAN, roles' = [roles EXCEPT ![u] = NewRole(u, r, on)],
           ~ RemovesLastAdmin(u, r, on), ActiveAdmins # {}
    PROVE  ActiveAdmins' # {}
<1>1. /\ \A v \in Operators \ {u} : roles'[v] = roles[v]
      /\ roles'[u].role = r /\ roles'[u].active = on
  BY NewRoleEffect
<1>2. CASE r = "platform_admin" /\ on
  BY <1>1, <1>2 DEF ActiveAdmins, platformAdminExists, HasRole
<1>3. CASE ActiveAdmins \ {u} # {}
  <2>1. PICK v \in ActiveAdmins \ {u} : TRUE
    BY <1>3
  <2>2. v \in ActiveAdmins'
    BY <1>1, <2>1 DEF ActiveAdmins, platformAdminExists, HasRole
  <2> QED BY <2>2
<1>4. CASE ~ platformAdminExists(u)
  BY <1>3, <1>4 DEF ActiveAdmins
<1> QED BY <1>2, <1>3, <1>4 DEF RemovesLastAdmin

(* What a step leaves of the invariant beside the roles and delegations.   *)
TokensKept == refreshTokens' \in [Operators -> SUBSET TokenRows] /\ OneLiveToken'
CountersKept ==
    /\ signIn' \in [Operators -> BOOLEAN] /\ admitted' \in [Operators -> BOOLEAN]
    /\ accessActions' \in 0 .. MaxAccessActions
Remains == ActiveAdmins # {} => ActiveAdmins' # {}
Kept == AccessInv' /\ Remains

LEMMA MutationCounts ==
    ASSUME AccessTyped, NEW a \in Operators, beginAccessMutation(a), recordAccessMutation(a),
           UNCHANGED signIn
    PROVE  CountersKept
<1>1. accessActions \in Nat /\ MaxAccessActions \in Nat /\ accessActions < MaxAccessActions
  BY AccessConstants DEF AccessTyped, beginAccessMutation
<1>2. accessActions' \in 0 .. MaxAccessActions
  BY <1>1 DEF recordAccessMutation
<1> QED BY <1>2 DEF AccessTyped, recordAccessMutation, CountersKept

LEMMA ConsoleCounts ==
    ASSUME AccessTyped, accessActions < MaxAccessActions, accessActions' = accessActions + 1,
           UNCHANGED <<signIn, admitted>>
    PROVE  CountersKept
<1>1. accessActions \in Nat /\ MaxAccessActions \in Nat
  BY AccessConstants DEF AccessTyped
<1>2. accessActions' \in 0 .. MaxAccessActions
  BY <1>1
<1> QED BY <1>2 DEF AccessTyped, CountersKept

LEMMA TokensWhenSet ==
    ASSUME AccessInv, NEW u \in Operators, NEW left \in SUBSET TokenRows,
           \A s, t \in left : ~ s.revoked /\ ~ t.revoked => s = t,
           refreshTokens' = [refreshTokens EXCEPT ![u] = left]
    PROVE  TokensKept
<1>1. refreshTokens' \in [Operators -> SUBSET TokenRows]
  BY DEF AccessInv, AccessTyped
<1>2. refreshTokens'[u] = left /\ \A v \in Operators \ {u} : refreshTokens'[v] = refreshTokens[v]
  BY DEF AccessInv, AccessTyped
<1> QED BY <1>1, <1>2 DEF AccessInv, OneLiveToken, TokensKept

LEMMA TokensWhenLeft == ASSUME AccessInv, UNCHANGED refreshTokens PROVE TokensKept
BY DEF AccessInv, AccessTyped, OneLiveToken, TokensKept

(* A change of a role, with everything that was delegated to its user.     *)
LEMMA RoleChanged ==
    ASSUME AccessInv, NEW u \in Operators, NEW r \in PlatformRoles, NEW on \in BOOLEAN,
           roles' = [roles EXCEPT ![u] = NewRole(u, r, on)],
           revokePlatformPrincipalDelegationsTx(u), TokensKept, CountersKept
    PROVE  AccessInv'
<1>1. AccessTyped /\ NoRoleIsIdle /\ PermissionsAreWhole /\ Backed
  BY DEF AccessInv, Backed
<1>2. roles' \in [Operators -> RoleRows] /\ NoRoleIsIdle'
      /\ \A v \in Operators \ {u} : roles'[v] = roles[v]
  BY <1>1, NewRoleEffect
<1>3. Backed'
  BY <1>1, <1>2, BackedWhenRevoked
<1>4. /\ assignments' \in [Operators \X AccessSalons -> AssignmentRows]
      /\ supports' \in [SupportIds -> SupportRows \cup {NoSupport}]
      /\ piiGrants' \subseteq GrantRows /\ PermissionsAreWhole'
  BY <1>1, RevokedTypes
<1>5. AccessTyped'
  BY <1>2, <1>4 DEF AccessTyped, TokensKept, CountersKept
<1> QED BY <1>2, <1>3, <1>4, <1>5 DEF AccessInv, Backed, TokensKept

(* A new version of the same role.                                         *)
LEMMA RoleRepeated ==
    ASSUME AccessInv, NEW u \in Operators, NEW r \in PlatformRoles, NEW on \in BOOLEAN,
           roles[u].role = r \/ ~ roles[u].active, roles[u].active => on,
           roles' = [roles EXCEPT ![u] = NewRole(u, r, on)],
           UNCHANGED <<assignments, supports, piiGrants>>, TokensKept, CountersKept
    PROVE  AccessInv'
<1>1. AccessTyped /\ NoRoleIsIdle /\ PermissionsAreWhole /\ Backed
  BY DEF AccessInv, Backed
<1>2. roles' \in [Operators -> RoleRows] /\ NoRoleIsIdle'
      /\ (\A v \in Operators \ {u} : roles'[v] = roles[v])
      /\ roles'[u].role = r /\ roles'[u].active = on
  BY <1>1, NewRoleEffect
<1>3. ASSUME NEW v, HasRole(v, "platform_ops"), v \in Operators PROVE HasRole(v, "platform_ops")'
  BY <1>2, <1>3 DEF HasRole
<1>4. Backed'
  BY <1>1, <1>3, ApprovedIsRow DEF SupportRows, AccessTyped, GrantRows, Backed,
     SupportsAreBacked, SupportBacked, Pair, Approved, GrantsAreBacked, GrantBacked
<1>5. AccessTyped' /\ PermissionsAreWhole'
  BY <1>1, <1>2 DEF AccessTyped, TokensKept, CountersKept, PermissionsAreWhole
<1> QED BY <1>2, <1>4, <1>5 DEF AccessInv, Backed, TokensKept

(* The requests about roles, each with what it keeps.                      *)

LEMMA CreateKeeps ==
    ASSUME AccessInv, NEW a \in Operators, NEW u \in Operators, NEW r \in PlatformRoles,
           NEW on \in BOOLEAN, CreatePlatformUser(a, u, r, on)
    PROVE  Kept
<1>1. AccessTyped /\ NoRoleIsIdle /\ ~ roles[u].active
  BY DEF AccessInv, NoRoleIsIdle, CreatePlatformUser
<1>2. /\ roles' = [roles EXCEPT ![u] = NewRole(u, r, on)]
      /\ UNCHANGED <<assignments, supports, piiGrants>>
  BY DEF CreatePlatformUser
<1>3. TokensKept
  BY TokensWhenLeft DEF CreatePlatformUser
<1>4. CountersKept
  BY <1>1, MutationCounts DEF CreatePlatformUser
<1>5. AccessInv'
  BY <1>1, <1>2, <1>3, <1>4, RoleRepeated
<1>6. ~ RemovesLastAdmin(u, r, on)
  BY <1>1 DEF RemovesLastAdmin, platformAdminExists, HasRole
<1>7. Remains
  BY <1>1, <1>2, <1>6, AdministratorKept DEF Remains
<1> QED BY <1>5, <1>7 DEF Kept

LEMMA UnchangedRoles ==
    ASSUME AccessInv, UNCHANGED <<roles, assignments, supports, piiGrants>>,
           TokensKept, CountersKept
    PROVE  Kept
<1>1. Backed'
  BY BackedWhenKept DEF HasRole, AccessInv, Backed
<1>2. AccessTyped'
  BY DEF AccessInv, AccessTyped, TokensKept, CountersKept
<1>3. NoRoleIsIdle' /\ PermissionsAreWhole'
  BY DEF AccessInv, NoRoleIsIdle, PermissionsAreWhole
<1>4. Remains
  BY DEF Remains, ActiveAdmins, platformAdminExists, HasRole
<1> QED BY <1>1, <1>2, <1>3, <1>4 DEF Kept, AccessInv, Backed, TokensKept

LEMMA UpdateKeeps ==
    ASSUME AccessInv, NEW a \in Operators, NEW u \in Operators, NEW r \in PlatformRoles,
           NEW on \in BOOLEAN, NEW expected, NEW password \in BOOLEAN,
           UpdatePlatformUser(a, u, r, on, expected, password)
    PROVE  Kept
<1>1. AccessTyped /\ NoRoleIsIdle
  BY DEF AccessInv
<1>2. CountersKept
  BY <1>1, MutationCounts DEF UpdatePlatformUser
<1>3. TokensKept
  BY TokensWhenSet, TokensWhenLeft DEF UpdatePlatformUser
<1>4. CASE DifferentRole(u, r, on)
  BY <1>1, <1>2, <1>3, <1>4, RoleChanged, AdministratorKept DEF UpdatePlatformUser, Remains,
     Kept
<1>5. CASE ~ DifferentRole(u, r, on) /\ password
  BY <1>1, <1>2, <1>3, <1>5, RoleRepeated, AdministratorKept DEF UpdatePlatformUser,
     DifferentRole, Remains, Kept
<1>6. CASE ~ DifferentRole(u, r, on) /\ ~ password
  BY <1>2, <1>3, <1>6, UnchangedRoles DEF UpdatePlatformUser
<1> QED BY <1>4, <1>5, <1>6

(* A successor that is left behind is one token.                           *)
LEMMA LeftBehind ==
    ASSUME AccessTyped, NEW u \in Operators, NEW left \in {{}} \cup Successors(u)
    PROVE  left \in SUBSET TokenRows /\ \A s, t \in left : s = t
<1>1. CASE left = {}
  BY <1>1
<1>2. CASE left \in Successors(u)
  <2>1. PICK t \in refreshTokens[u] : /\ t.n < MaxRotations
                                      /\ left = {[n |-> t.n + 1, revoked |-> FALSE]}
    BY <1>2 DEF Successors
  <2>2. t.n \in 0 .. MaxRotations /\ MaxRotations \in Nat
    BY AccessConstants DEF AccessTyped, TokenRows
  <2>3. t.n + 1 \in 0 .. MaxRotations
    BY <2>1, <2>2
  <2>4. [n |-> t.n + 1, revoked |-> FALSE] \in TokenRows
    BY <2>3 DEF TokenRows
  <2> QED BY <2>1, <2>4
<1> QED BY <1>1, <1>2

LEMMA MutateRoleKeeps ==
    ASSUME AccessInv, NEW a \in Operators, NEW u \in Operators, NEW r \in PlatformRoles,
           NEW on \in BOOLEAN, NEW expected, MutatePlatformRole(a, u, r, on, expected)
    PROVE  Kept
<1>1. AccessTyped /\ NoRoleIsIdle
  BY DEF AccessInv
<1>2. CountersKept
  BY <1>1, MutationCounts DEF MutatePlatformRole
<1>3. CASE DifferentRole(u, r, on)
  <2>1. roles' = [roles EXCEPT ![u] = NewRole(u, r, on)]
        /\ revokePlatformPrincipalDelegationsTx(u) /\ ~ RemovesLastAdmin(u, r, on)
    BY <1>3 DEF MutatePlatformRole
  <2>2. PICK left \in {{}} \cup Successors(u) :
           refreshTokens' = [refreshTokens EXCEPT ![u] = left]
    BY <1>3 DEF MutatePlatformRole
  <2>3. TokensKept
    <3>1. left \in SUBSET TokenRows /\ \A s, t \in left : s = t
      BY <1>1, LeftBehind
    <3> QED BY <2>2, <3>1, TokensWhenSet
  <2>4. AccessInv'
    BY <1>2, <2>1, <2>3, RoleChanged
  <2>5. Remains
    BY <1>1, <2>1, AdministratorKept DEF Remains
  <2> QED BY <2>4, <2>5 DEF Kept
<1>4. CASE ~ DifferentRole(u, r, on)
  BY <1>2, <1>4, TokensWhenLeft, UnchangedRoles DEF MutatePlatformRole
<1> QED BY <1>3, <1>4

LEMMA BootstrapKeeps ==
    ASSUME AccessInv, NEW u \in Operators, BootstrapPlatformAdmin(u)
    PROVE  Kept
<1>1. TokensKept
  BY TokensWhenLeft DEF BootstrapPlatformAdmin
<1>2. CountersKept
  BY ConsoleCounts DEF BootstrapPlatformAdmin, AccessInv
<1>3. "platform_admin" \in PlatformRoles
  BY DEF PlatformRoles
<1>4. AccessInv'
  BY <1>1, <1>2, <1>3, RoleChanged DEF BootstrapPlatformAdmin
<1> QED BY <1>4 DEF Kept, Remains, BootstrapPlatformAdmin

LEMMA PasswordKeeps ==
    ASSUME AccessInv, NEW u \in Operators, RotateSinglePlatformAdminPassword(u)
    PROVE  Kept
<1>1. AccessTyped /\ NoRoleIsIdle
  BY DEF AccessInv
<1>2. TokensKept
  BY TokensWhenSet DEF RotateSinglePlatformAdminPassword
<1>3. CountersKept
  BY <1>1, ConsoleCounts DEF RotateSinglePlatformAdminPassword
<1>4. PICK row \in RoleRows : row = roles[u]
  BY <1>1 DEF AccessTyped
<1>5. [row EXCEPT !.version = row.version + 1]
        = [role |-> row.role, active |-> row.active, version |-> row.version + 1]
  BY DEF RoleRows
<1>6. roles' = [roles EXCEPT ![u] = [roles[u] EXCEPT !.version = roles[u].version + 1]]
  BY DEF RotateSinglePlatformAdminPassword
<1>7. roles' = [roles EXCEPT ![u] = NewRole(u, row.role, row.active)]
  BY <1>4, <1>5, <1>6 DEF NewRole
<1>8. row.role \in PlatformRoles /\ row.active \in BOOLEAN
  BY DEF RoleRows
<1>9. UNCHANGED <<assignments, supports, piiGrants>>
  BY DEF RotateSinglePlatformAdminPassword
<1>10. AccessInv'
  BY <1>2, <1>3, <1>4, <1>7, <1>8, <1>9, RoleRepeated
<1>11. u \in ActiveAdmins'
  BY <1>1, <1>4, <1>7, <1>8, NewRoleEffect DEF RotateSinglePlatformAdminPassword, ActiveAdmins,
     platformAdminExists, HasRole
<1> QED BY <1>10, <1>11 DEF Kept, Remains

-----------------------------------------------------------------------------
(* What an operator may do for a salon.                                    *)

(* A step about delegations leaves the roles and the sessions alone.       *)
LEMMA RolesStand ==
    ASSUME AccessInv, UNCHANGED <<roles, refreshTokens>>, CountersKept,
           assignments' \in [Operators \X AccessSalons -> AssignmentRows],
           supports' \in [SupportIds -> SupportRows \cup {NoSupport}],
           piiGrants' \subseteq GrantRows, PermissionsAreWhole', Backed'
    PROVE  Kept
<1>1. TokensKept
  BY TokensWhenLeft
<1>2. AccessTyped'
  BY <1>1 DEF AccessInv, AccessTyped, TokensKept, CountersKept
<1>3. NoRoleIsIdle' /\ Remains
  BY DEF AccessInv, NoRoleIsIdle, Remains, ActiveAdmins, platformAdminExists, HasRole
<1> QED BY <1>1, <1>2, <1>3 DEF Kept, AccessInv, Backed, TokensKept

(* The assignments as well, when only authorizations and grants change.    *)
LEMMA AssignmentsStand ==
    ASSUME AccessInv, UNCHANGED <<roles, assignments, refreshTokens>>, CountersKept,
           supports' \in [SupportIds -> SupportRows \cup {NoSupport}],
           piiGrants' \subseteq GrantRows, Backed'
    PROVE  Kept
BY RolesStand DEF AccessInv, AccessTyped, PermissionsAreWhole

(* An authorization whose row stays approved for the same user, salon and  *)
(* capabilities stays backed while roles and assignment stand.             *)
SameSupport(i) ==
    /\ Approved(i)
    /\ supports'[i].user = supports[i].user /\ supports'[i].salon = supports[i].salon
    /\ supports'[i].capabilities = supports[i].capabilities

LEMMA SupportStaysBacked ==
    ASSUME AccessInv, UNCHANGED roles, NEW i \in SupportIds, SameSupport(i),
           assignments'[Pair(i)] = assignments[Pair(i)]
    PROVE  SupportBacked(i)'
BY DEF AccessInv, SupportsAreBacked, SupportBacked, SameSupport, Pair, HasRole

(* revokeSalonSupportRequestsTx leaves nothing for the user at that salon. *)
LEMMA SalonSupportsRevoked ==
    ASSUME AccessInv, NEW u \in Operators, NEW s \in AccessSalons,
           revokeSalonSupportRequestsTx(u, s)
    PROVE  /\ supports' \in [SupportIds -> SupportRows \cup {NoSupport}]
           /\ piiGrants' \subseteq piiGrants
           /\ \A i \in SupportIds : Approved(i)' => /\ supports'[i] = supports[i]
                                                    /\ Approved(i) /\ Pair(i) # <<u, s>>
           /\ \A g \in piiGrants' : g.support # 0 => supports'[g.support] = supports[g.support]
<1>1. \A i \in SupportIds : i \notin RevokedAt(u, s) => supports'[i] = supports[i]
  BY DEF revokeSalonSupportRequestsTx
<1>2. ASSUME NEW i \in SupportIds, i \in RevokedAt(u, s)
      PROVE  supports[i] \in SupportRows /\ supports'[i] \in SupportRows /\ ~ Approved(i)'
  <2>1. Approved(i)
    BY <1>2 DEF RevokedAt, Approved
  <2>2. supports[i] \in SupportRows
    BY <2>1, ApprovedIsRow DEF AccessInv
  <2>3. PICK row \in SupportRows : row = supports[i]
    BY <2>2
  <2>4. supports'[i] = [row EXCEPT !.status = "revoked"]
    BY <1>2, <2>3 DEF revokeSalonSupportRequestsTx
  <2>5. [row EXCEPT !.status = "revoked"] \in SupportRows
        /\ [row EXCEPT !.status = "revoked"].status = "revoked"
    BY DEF SupportRows
  <2> QED BY <2>2, <2>4, <2>5 DEF Approved
<1>3. supports' \in [SupportIds -> SupportRows \cup {NoSupport}]
  BY <1>1, <1>2 DEF revokeSalonSupportRequestsTx, AccessInv, AccessTyped
<1>4. piiGrants' \subseteq piiGrants
  BY DEF revokeSalonSupportRequestsTx
<1>5. ASSUME NEW i \in SupportIds, Approved(i)'
      PROVE  supports'[i] = supports[i] /\ Approved(i) /\ Pair(i) # <<u, s>>
  BY <1>1, <1>2, <1>5 DEF Approved, RevokedAt, Pair
<1>6. ASSUME NEW g \in piiGrants', g.support # 0 PROVE supports'[g.support] = supports[g.support]
  BY <1>1, <1>4, <1>6, GrantSupport DEF AccessInv, revokeSalonSupportRequestsTx
<1> QED BY <1>3, <1>4, <1>5, <1>6

(* The row an assignment gets.                                             *)
NextAssignment(k, on, p) ==
    IF assignments[k].version = 0 \/ assignments[k].active # on \/ assignments[k].permissions # p
    THEN [active |-> on, permissions |-> p, version |-> assignments[k].version + 1]
    ELSE assignments[k]

LEMMA AssignmentKeeps ==
    ASSUME AccessInv, NEW a \in Operators, NEW u \in Operators, NEW s \in AccessSalons,
           NEW on \in BOOLEAN, NEW p \in SUBSET Capabilities, NEW expected,
           MutateSalonAssignment(a, u, s, on, p, expected)
    PROVE  Kept
<1> DEFINE k == <<u, s>>
           new == NextAssignment(k, on, p)
<1>0. AccessTyped /\ PermissionsAreWhole /\ k \in Operators \X AccessSalons
      /\ validAssignmentPermissions(p) /\ UNCHANGED <<roles, refreshTokens, signIn>>
      /\ beginAccessMutation(a) /\ recordAccessMutation(a)
  BY DEF AccessInv, MutateSalonAssignment
<1>1. assignments' = [assignments EXCEPT ![k] = new]
  BY DEF MutateSalonAssignment, NextAssignment
<1>2. new \in AssignmentRows /\ validAssignmentPermissions(new.permissions)
  <2>1. PICK row \in AssignmentRows : row = assignments[k]
    BY <1>0 DEF AccessTyped
  <2>2. row.version + 1 \in Nat /\ validAssignmentPermissions(row.permissions)
    BY <1>0, <2>1 DEF AssignmentRows, PermissionsAreWhole
  <2>3. [active |-> on, permissions |-> p, version |-> row.version + 1] \in AssignmentRows
    BY <2>2 DEF AssignmentRows
  <2> QED BY <1>0, <2>1, <2>2, <2>3 DEF NextAssignment
<1>3. CASE AssignmentChanged(u, s, on, p)
  <2> HIDE DEF new
  <2>1. revokeSalonSupportRequestsTx(u, s)
    BY <1>3 DEF MutateSalonAssignment
  <2>2. /\ supports' \in [SupportIds -> SupportRows \cup {NoSupport}]
        /\ piiGrants' \subseteq piiGrants
        /\ \A i \in SupportIds : Approved(i)' => /\ supports'[i] = supports[i]
                                                 /\ Approved(i) /\ Pair(i) # <<u, s>>
        /\ \A g \in piiGrants' : g.support # 0 => supports'[g.support] = supports[g.support]
    BY <2>1, SalonSupportsRevoked
  <2>3. assignments' \in [Operators \X AccessSalons -> AssignmentRows]
        /\ \A j \in Operators \X AccessSalons : assignments'[j] = IF j = k THEN new ELSE assignments[j]
    BY <1>0, <1>1, <1>2 DEF AccessTyped
  <2>4. PermissionsAreWhole'
    BY <1>0, <1>2, <2>3 DEF PermissionsAreWhole
  <2>5. ASSUME NEW i \in SupportIds, Approved(i)' PROVE SupportBacked(i)'
    <3>1. supports'[i] = supports[i] /\ Approved(i) /\ Pair(i) # k
      BY <2>2, <2>5
    <3>2. PICK row \in SupportRows : row = supports[i]
      BY <1>0, <3>1, ApprovedIsRow
    <3>3. Pair(i) \in Operators \X AccessSalons
      BY <3>2 DEF Pair, SupportRows
    <3>4. assignments'[Pair(i)] = assignments[Pair(i)]
      BY <2>3, <3>1, <3>3
    <3>5. SameSupport(i)
      BY <3>1 DEF SameSupport
    <3> QED BY <1>0, <3>4, <3>5, SupportStaysBacked
  <2>6. ASSUME NEW g \in piiGrants' PROVE GrantBacked(g)'
    BY <1>0, <2>2, <2>6 DEF AccessInv, GrantsAreBacked, GrantBacked, Approved, HasRole
  <2>7. Backed'
    BY <2>5, <2>6 DEF Backed, SupportsAreBacked, GrantsAreBacked
  <2>8. CountersKept
    BY <1>0, MutationCounts
  <2>9. piiGrants' \subseteq GrantRows
    BY <1>0, <2>2 DEF AccessTyped
  <2> QED BY <1>0, <2>2, <2>3, <2>4, <2>7, <2>8, <2>9, RolesStand
<1>4. CASE ~ AssignmentChanged(u, s, on, p)
  BY <1>0, <1>1, <1>4, MutationCounts, TokensWhenLeft, UnchangedRoles DEF AssignmentChanged,
     NextAssignment, AccessTyped, MutateSalonAssignment
<1> QED BY <1>3, <1>4

(* Authorizations as they are, and grants that rest as grants did.         *)
LEMMA GrantsChange ==
    ASSUME AccessInv, UNCHANGED <<roles, assignments, supports, refreshTokens>>, CountersKept,
           \A g \in piiGrants' : g \in GrantRows /\ GrantBacked(g)
    PROVE  Kept
<1>1. SupportsAreBacked'
  BY DEF AccessInv, SupportsAreBacked, SupportBacked, Approved, Pair, HasRole
<1>2. GrantsAreBacked'
  BY DEF GrantsAreBacked, GrantBacked, Approved, HasRole
<1>3. piiGrants' \subseteq GrantRows /\ supports' \in [SupportIds -> SupportRows \cup {NoSupport}]
  BY DEF AccessInv, AccessTyped
<1> QED BY <1>1, <1>2, <1>3, AssignmentsStand DEF Backed

LEMMA GrantKeeps ==
    ASSUME AccessInv, NEW a \in Operators, NEW u \in Operators, NEW s \in AccessSalons,
           NEW scope \in PIIScopes, GrantPIIAccess(a, u, s, scope)
    PROVE  Kept
<1> DEFINE new == [user |-> u, salon |-> s, scope |-> scope, live |-> TRUE, support |-> 0]
<1>1. AccessTyped /\ HasRole(u, "platform_ops") /\ piiGrants' = piiGrants \cup {new}
  BY DEF AccessInv, GrantPIIAccess, targetEligibleForPIIGrantTx
<1>2. new \in GrantRows
  BY AccessConstants DEF GrantRows
<1>3. GrantBacked(new)
  BY <1>1 DEF GrantBacked
<1>4. CountersKept
  BY <1>1, MutationCounts DEF GrantPIIAccess
<1> HIDE DEF new
<1>5. \A g \in piiGrants' : g \in GrantRows /\ GrantBacked(g)
  BY <1>1, <1>2, <1>3 DEF AccessInv, AccessTyped, GrantsAreBacked
<1> QED BY <1>4, <1>5, GrantsChange DEF GrantPIIAccess

LEMMA GrantRevokedKeeps ==
    ASSUME AccessInv, NEW a \in Operators, NEW g \in piiGrants, RevokePIIAccess(a, g)
    PROVE  Kept
<1>1. CountersKept
  BY MutationCounts DEF RevokePIIAccess, AccessInv
<1>2. \A h \in piiGrants' : h \in GrantRows /\ GrantBacked(h)
  BY DEF RevokePIIAccess, AccessInv, AccessTyped, GrantsAreBacked
<1> QED BY <1>1, <1>2, GrantsChange DEF RevokePIIAccess

LEMMA GrantExpiresKeeps ==
    ASSUME AccessInv, NEW g \in piiGrants, GrantExpires(g)
    PROVE  Kept
<1> DEFINE new == [g EXCEPT !.live = FALSE]
<1>1. g \in GrantRows /\ GrantBacked(g)
  BY DEF AccessInv, AccessTyped, GrantsAreBacked
<1>2. new \in GrantRows /\ new.user = g.user /\ new.support = g.support
  BY <1>1 DEF GrantRows
<1>3. GrantBacked(new)
  BY <1>1, <1>2 DEF GrantBacked, GrantExpires
<1>4. piiGrants' = (piiGrants \ {g}) \cup {new}
  BY DEF GrantExpires
<1>5. CountersKept
  BY DEF GrantExpires, AccessInv, AccessTyped, CountersKept
<1> HIDE DEF new
<1>6. \A h \in piiGrants' : h \in GrantRows /\ GrantBacked(h)
  BY <1>2, <1>3, <1>4 DEF AccessInv, AccessTyped, GrantsAreBacked
<1> QED BY <1>5, <1>6, GrantsChange DEF GrantExpires

(* One authorization changes and the others stand.                         *)
LEMMA OneSupportChanges ==
    ASSUME AccessInv, NEW i \in SupportIds, NEW row \in SupportRows,
           UNCHANGED <<roles, assignments, refreshTokens>>, CountersKept,
           supports' = [supports EXCEPT ![i] = row],
           Approved(i)' => SupportBacked(i)',
           \A g \in piiGrants' : g \in GrantRows /\ GrantBacked(g)'
    PROVE  Kept
<1>1. supports' \in [SupportIds -> SupportRows \cup {NoSupport}]
      /\ \A j \in SupportIds \ {i} : supports'[j] = supports[j]
  BY DEF AccessInv, AccessTyped
<1>2. ASSUME NEW j \in SupportIds, j # i, Approved(j)' PROVE SupportBacked(j)'
  BY <1>1, <1>2, SupportStaysBacked DEF SameSupport, Approved
<1>3. Backed'
  BY <1>2 DEF Backed, SupportsAreBacked, GrantsAreBacked
<1> QED BY <1>1, <1>3, AssignmentsStand

LEMMA SupportKeeps ==
    ASSUME AccessInv, NEW a \in Operators, NEW i \in SupportIds, NEW u \in Operators,
           NEW s \in AccessSalons, NEW caps \in SUBSET Capabilities,
           NEW scopes \in SUBSET PIIScopes,
           CreateSupportAccessRequest(a, i, u, s, caps, scopes)
    PROVE  Kept
<1> DEFINE row == [status |-> "approved", user |-> u, salon |-> s, capabilities |-> caps,
                   scopes |-> scopes, live |-> TRUE]
           Given(sc) == [user |-> u, salon |-> s, scope |-> sc, live |-> TRUE, support |-> i]
<1>1. /\ AccessTyped /\ UNCHANGED <<roles, assignments, refreshTokens, signIn>>
      /\ supports[i] = NoSupport /\ validSupportCapabilities(caps, scopes)
      /\ targetEligibleForSupportTx(u, s, caps)
      /\ piiGrants' = piiGrants \cup {Given(sc) : sc \in scopes}
      /\ beginAccessMutation(a) /\ recordAccessMutation(a)
  BY DEF AccessInv, CreateSupportAccessRequest
<1>2. row \in SupportRows /\ supports' = [supports EXCEPT ![i] = row]
  BY DEF SupportRows, CreateSupportAccessRequest
<1>3. row.user = u /\ row.salon = s /\ row.capabilities = caps /\ row.status = "approved"
  OBVIOUS
<1>4. CountersKept
  BY <1>1, MutationCounts
<1> HIDE DEF row
<1>5. supports'[i] = row /\ \A j \in SupportIds \ {i} : supports'[j] = supports[j]
  BY <1>1, <1>2 DEF AccessTyped
<1>6. SupportBacked(i)'
  BY <1>1, <1>3, <1>5 DEF SupportBacked, Pair, HasRole, targetEligibleForSupportTx,
     validSupportCapabilities
<1>7. ASSUME NEW g \in piiGrants' PROVE g \in GrantRows /\ GrantBacked(g)'
  <2>1. CASE g \in piiGrants
    BY <1>1, <1>5, <2>1, GrantSupport DEF AccessInv, GrantsAreBacked, Approved, NoSupport,
       GrantBacked, HasRole
  <2>2. CASE g \in {Given(sc) : sc \in scopes}
    <3>1. PICK sc \in scopes : g = Given(sc)
      BY <2>2
    <3>2. i \in 0 .. MaxSupport
      BY AccessConstants DEF SupportIds
    <3>3. g \in GrantRows /\ g.user = u /\ g.salon = s /\ g.support = i
      BY <3>1, <3>2 DEF GrantRows
    <3> QED BY <1>1, <1>3, <1>5, <3>3 DEF GrantBacked, Approved, HasRole,
         targetEligibleForSupportTx
  <2> QED BY <1>1, <2>1, <2>2
<1> QED BY <1>1, <1>2, <1>4, <1>6, <1>7, OneSupportChanges

LEMMA SupportRevokedKeeps ==
    ASSUME AccessInv, NEW a \in Operators, NEW i \in SupportIds,
           RevokeSupportAccessRequest(a, i)
    PROVE  Kept
<1>1. AccessTyped /\ Approved(i)
  BY DEF AccessInv, RevokeSupportAccessRequest, Approved
<1>2. PICK old \in SupportRows : old = supports[i]
  BY <1>1, ApprovedIsRow
<1> DEFINE row == [old EXCEPT !.status = "revoked"]
<1>3. row \in SupportRows /\ row.status = "revoked"
  BY DEF SupportRows
<1>4. supports' = [supports EXCEPT ![i] = row]
  BY <1>2 DEF RevokeSupportAccessRequest
<1>5. CountersKept
  BY <1>1, MutationCounts DEF RevokeSupportAccessRequest
<1> HIDE DEF row
<1>6. supports'[i] = row /\ \A j \in SupportIds \ {i} : supports'[j] = supports[j]
  BY <1>1, <1>4 DEF AccessTyped
<1>7. ~ Approved(i)'
  BY <1>3, <1>6 DEF Approved
<1>8. ASSUME NEW g \in piiGrants' PROVE g \in GrantRows /\ GrantBacked(g)'
  BY <1>1, <1>6, <1>8, GrantSupport DEF RevokeSupportAccessRequest, AccessInv, GrantsAreBacked,
     GrantBacked, Approved, HasRole
<1> QED BY <1>3, <1>4, <1>5, <1>7, <1>8, OneSupportChanges DEF RevokeSupportAccessRequest

LEMMA SupportExpiresKeeps ==
    ASSUME AccessInv, NEW i \in SupportIds, SupportExpires(i)
    PROVE  Kept
<1>1. AccessTyped /\ Approved(i) /\ UNCHANGED <<roles, assignments, refreshTokens>>
  BY DEF AccessInv, SupportExpires, Approved
<1>2. PICK old \in SupportRows : old = supports[i]
  BY <1>1, ApprovedIsRow
<1> DEFINE row == [old EXCEPT !.live = FALSE]
<1>3. /\ row \in SupportRows /\ row.status = old.status /\ row.user = old.user
      /\ row.salon = old.salon /\ row.capabilities = old.capabilities
  BY DEF SupportRows
<1>4. supports' = [supports EXCEPT ![i] = row]
  BY <1>2 DEF SupportExpires
<1>5. CountersKept
  BY DEF SupportExpires, AccessInv, AccessTyped, CountersKept
<1> HIDE DEF row
<1>6. supports'[i] = row /\ \A j \in SupportIds \ {i} : supports'[j] = supports[j]
  BY <1>1, <1>4 DEF AccessTyped
<1>7. SupportBacked(i)'
  BY <1>1, <1>2, <1>3, <1>6, SupportStaysBacked DEF SameSupport
<1>8. ASSUME NEW g \in piiGrants' PROVE g \in GrantRows /\ GrantBacked(g)'
  <2>1. PICK h \in piiGrants : g = IF h.support = i THEN [h EXCEPT !.live = FALSE] ELSE h
    BY DEF SupportExpires
  <2>2. h \in GrantRows /\ GrantBacked(h) /\ (h.support # 0 => h.support \in SupportIds)
    BY <1>1, GrantSupport DEF AccessInv, GrantsAreBacked
  <2>3. g \in GrantRows /\ g.user = h.user /\ g.salon = h.salon /\ g.support = h.support
    BY <2>1, <2>2 DEF GrantRows
  <2>4. h.support # 0 => /\ supports'[h.support].status = supports[h.support].status
                         /\ supports'[h.support].user = supports[h.support].user
                         /\ supports'[h.support].salon = supports[h.support].salon
    BY <1>2, <1>3, <1>6, <2>2
  <2> QED BY <1>1, <2>2, <2>3, <2>4 DEF GrantBacked, Approved, HasRole
<1> QED BY <1>1, <1>3, <1>4, <1>5, <1>7, <1>8, OneSupportChanges

-----------------------------------------------------------------------------
(* Admissions and sessions.                                                *)

LEMMA AdmissionKeeps ==
    ASSUME AccessInv, NEW u \in Operators, ensurePlatformAdminTx(u) \/ Refused(u)
    PROVE  Kept
<1>1. UNCHANGED <<roles, assignments, supports, piiGrants, refreshTokens, signIn, accessActions>>
      /\ admitted' \in [Operators -> BOOLEAN]
  BY DEF ensurePlatformAdminTx, Refused, AccessInv, AccessTyped
<1>2. CountersKept
  BY <1>1 DEF AccessInv, AccessTyped, CountersKept
<1> QED BY <1>1, <1>2, TokensWhenLeft, UnchangedRoles

LEMMA LoginKeeps ==
    ASSUME AccessInv, NEW u \in Operators, Login(u) \/ issueTokens(u)
    PROVE  Kept
<1>1. UNCHANGED <<roles, assignments, supports, piiGrants, admitted, accessActions>>
      /\ signIn' \in [Operators -> BOOLEAN]
  BY DEF Login, issueTokens, AccessInv, AccessTyped
<1>2. CountersKept
  BY <1>1 DEF AccessInv, AccessTyped, CountersKept
<1>3. CASE Login(u)
  BY <1>1, <1>2, <1>3, TokensWhenLeft, UnchangedRoles DEF Login
<1>4. CASE issueTokens(u)
  <2> DEFINE first == [n |-> 0, revoked |-> FALSE]
  <2>1. first \in TokenRows
    BY AccessConstants DEF TokenRows
  <2>2. refreshTokens' = [refreshTokens EXCEPT ![u] = {first}]
    BY <1>4 DEF issueTokens
  <2> HIDE DEF first
  <2>3. TokensKept
    BY <2>1, <2>2, TokensWhenSet
  <2> QED BY <1>1, <1>2, <2>3, UnchangedRoles
<1> QED BY <1>3, <1>4

LEMMA TokenKeeps ==
    ASSUME AccessInv, NEW u \in Operators, NEW t \in refreshTokens[u],
           RotateRefreshToken(u, t) \/ RevokeRefreshToken(u, t)
    PROVE  Kept
<1> DEFINE dead == [t EXCEPT !.revoked = TRUE]
<1>1. UNCHANGED <<roles, assignments, supports, piiGrants, signIn, admitted, accessActions>>
  BY DEF RotateRefreshToken, RevokeRefreshToken
<1>2. CountersKept
  BY <1>1 DEF AccessInv, AccessTyped, CountersKept
<1>3. t \in TokenRows /\ refreshTokens[u] \in SUBSET TokenRows
      /\ \A x, y \in refreshTokens[u] : ~ x.revoked /\ ~ y.revoked => x = y
  BY DEF AccessInv, AccessTyped, OneLiveToken
<1>4. dead \in TokenRows /\ dead.revoked
  BY <1>3 DEF TokenRows
<1>5. CASE RotateRefreshToken(u, t)
  <2> DEFINE left == (refreshTokens[u] \ {t}) \cup {dead, Rotated(t)}
  <2>1. ~ t.revoked /\ t.n < MaxRotations /\ refreshTokens' = [refreshTokens EXCEPT ![u] = left]
    BY <1>5 DEF RotateRefreshToken, MayRotate
  <2>2. t.n + 1 \in 0 .. MaxRotations
    BY <1>3, <2>1, AccessConstants DEF TokenRows
  <2>3. Rotated(t) \in TokenRows
    BY <2>2 DEF Rotated, TokenRows
  <2> HIDE DEF dead
  <2>4. left \in SUBSET TokenRows
    BY <1>3, <1>4, <2>3
  <2>5. \A x, y \in left : ~ x.revoked /\ ~ y.revoked => x = y
    BY <1>3, <1>4, <2>1
  <2> HIDE DEF left
  <2>6. TokensKept
    BY <2>1, <2>4, <2>5, TokensWhenSet
  <2> QED BY <1>1, <1>2, <2>6, UnchangedRoles
<1>6. CASE RevokeRefreshToken(u, t)
  <2> DEFINE left == (refreshTokens[u] \ {t}) \cup {dead}
  <2>1. refreshTokens' = [refreshTokens EXCEPT ![u] = left]
    BY <1>6 DEF RevokeRefreshToken
  <2> HIDE DEF dead
  <2>2. left \in SUBSET TokenRows /\ \A x, y \in left : ~ x.revoked /\ ~ y.revoked => x = y
    BY <1>3, <1>4
  <2> HIDE DEF left
  <2>3. TokensKept
    BY <2>1, <2>2, TokensWhenSet
  <2> QED BY <1>1, <1>2, <2>3, UnchangedRoles
<1> QED BY <1>5, <1>6

-----------------------------------------------------------------------------
(* The steps together.                                                     *)

LEMMA AccessStep == AccessInv /\ [AccessNext]_accessVars => Kept
<1> SUFFICES ASSUME AccessInv, [AccessNext]_accessVars PROVE Kept
  OBVIOUS
<1>1. CASE UNCHANGED accessVars
  BY <1>1, TokensWhenLeft, UnchangedRoles DEF accessVars, AccessInv, AccessTyped, CountersKept
<1>2. ASSUME NEW u \in Operators,
             \/ BootstrapPlatformAdmin(u) \/ RotateSinglePlatformAdminPassword(u)
             \/ ensurePlatformAdminTx(u) \/ Refused(u) \/ Login(u) \/ issueTokens(u)
      PROVE  Kept
  BY <1>2, BootstrapKeeps, PasswordKeeps, AdmissionKeeps, LoginKeeps
<1>3. ASSUME NEW a \in Operators, NEW u \in Operators, NEW r \in PlatformRoles, NEW on \in BOOLEAN,
             \/ CreatePlatformUser(a, u, r, on)
             \/ \E expected \in {roles[u].version - 1, roles[u].version} :
                  \/ MutatePlatformRole(a, u, r, on, expected)
                  \/ \E p \in BOOLEAN : UpdatePlatformUser(a, u, r, on, expected, p)
      PROVE  Kept
  BY <1>3, CreateKeeps, MutateRoleKeeps, UpdateKeeps
<1>4. ASSUME NEW a \in Operators, NEW u \in Operators, NEW s \in AccessSalons,
             \/ \E on \in BOOLEAN, p \in SUBSET Capabilities,
                   expected \in {assignments[<<u, s>>].version - 1, assignments[<<u, s>>].version} :
                  MutateSalonAssignment(a, u, s, on, p, expected)
             \/ \E scope \in PIIScopes : GrantPIIAccess(a, u, s, scope)
             \/ \E i \in SupportIds, caps \in SUBSET Capabilities, scopes \in SUBSET PIIScopes :
                  CreateSupportAccessRequest(a, i, u, s, caps, scopes)
      PROVE  Kept
  BY <1>4, AssignmentKeeps, GrantKeeps, SupportKeeps
<1>5. ASSUME NEW a \in Operators,
             \/ \E i \in SupportIds : RevokeSupportAccessRequest(a, i)
             \/ \E g \in piiGrants : RevokePIIAccess(a, g)
      PROVE  Kept
  BY <1>5, SupportRevokedKeeps, GrantRevokedKeeps
<1>6. CASE (\E i \in SupportIds : SupportExpires(i)) \/ (\E g \in piiGrants : GrantExpires(g))
  BY <1>6, SupportExpiresKeeps, GrantExpiresKeeps
<1>7. CASE \E u \in Operators : \E t \in refreshTokens[u] :
             RotateRefreshToken(u, t) \/ RevokeRefreshToken(u, t)
  BY <1>7, TokenKeeps
<1> QED BY <1>1, <1>2, <1>3, <1>4, <1>5, <1>6, <1>7 DEF AccessNext

(* In every state the rows have their types, a user without a role row has *)
(* no role in force, what was authorized rests on a role and an assignment *)
(* in force, and a session has one token that works.                       *)
THEOREM AccessInvariant == AccessSpec => []AccessInv
<1>1. AccessInv /\ [AccessNext]_accessVars => AccessInv'
  BY AccessStep DEF Kept
<1> QED BY AccessInitially, <1>1, PTL DEF AccessSpec

LEMMA AccessTypes == AccessInv => AccessTypeOK
<1> SUFFICES ASSUME AccessInv PROVE AccessTypeOK
  OBVIOUS
<1>1. AccessTyped /\ PermissionsAreWhole
  BY DEF AccessInv
<1>2. \A u \in Operators : roles[u] \in RoleRows /\ refreshTokens[u] \in SUBSET TokenRows
  BY <1>1 DEF AccessTyped
<1>3. \A u \in Operators : /\ roles[u].role \in PlatformRoles /\ roles[u].version \in Nat
                           /\ \A t \in refreshTokens[u] : t.n \in 0 .. MaxRotations
  BY <1>2 DEF RoleRows, TokenRows
<1>4. \A g \in piiGrants : g.support \in 0 .. MaxSupport
  BY <1>1 DEF AccessTyped, GrantRows
<1> QED BY <1>1, <1>3, <1>4 DEF AccessTyped, AccessTypeOK, PermissionsAreWhole

(* The types of the tables of access control.                              *)
THEOREM AccessTypeCorrect == AccessSpec => []AccessTypeOK
BY AccessInvariant, AccessTypes, PTL

(* What an operator is told, which is read without his role and without    *)
(* his assignment, is what Evaluate allows.                                *)
LEMMA ToldIsAllowed ==
    ASSUME AccessInv, NEW u \in Operators, NEW s \in AccessSalons,
           NEW c \in GetEffectiveSupportAccess(u, s).capabilities
    PROVE  /\ Evaluate(u, s, c, "")
           /\ \A sc \in GetEffectiveSupportAccess(u, s).scopes : Evaluate(u, s, c, sc)
<1>1. CASE platformAdminExists(u)
  BY <1>1 DEF Evaluate
<1>2. CASE ~ platformAdminExists(u)
  <2>1. PICK i \in ActiveSupport(u, s) : c \in supports[i].capabilities
    BY <1>2 DEF GetEffectiveSupportAccess
  <2>2. i \in SupportIds /\ Approved(i) /\ supports[i].user = u /\ supports[i].salon = s
    BY <2>1 DEF ActiveSupport, Approved
  <2>3. SupportBacked(i)
    BY <2>2 DEF AccessInv, SupportsAreBacked
  <2>4. /\ HasRole(u, "platform_ops") /\ c \in AssignedPermissions(u, s)
        /\ temporaryOpsAuthorizationCapability(c)
    BY <2>1, <2>2, <2>3 DEF SupportBacked, Pair, AssignedPermissions
  <2>5. app_active_support_authorization(u, s, c)
    BY <2>1, <2>4 DEF app_active_support_authorization
  <2>6. ASSUME NEW sc \in GetEffectiveSupportAccess(u, s).scopes
        PROVE  app_active_support_pii_grant(u, s, c, sc)
    <3>1. PICK j \in ActiveSupport(u, s) :
             sc \in supports[j].scopes
             /\ \E g \in piiGrants : g.support = j /\ g.scope = sc /\ g.live
      BY <1>2 DEF GetEffectiveSupportAccess
    <3>2. PICK g \in piiGrants : g.support = j /\ g.scope = sc /\ g.live
      BY <3>1
    <3>3. j # 0 /\ supports[j].user = u /\ supports[j].salon = s
      BY AccessConstants DEF ActiveSupport, SupportIds
    <3>4. g.user = u /\ g.salon = s
      BY <3>2, <3>3 DEF AccessInv, GrantsAreBacked, GrantBacked
    <3> QED BY <2>5, <3>1, <3>2, <3>4 DEF app_active_support_pii_grant
  <2> QED BY <2>4, <2>5, <2>6 DEF Evaluate
<1> QED BY <1>1, <1>2

LEMMA BackedIsDelegated == AccessInv => DelegationIsBacked
<1> SUFFICES ASSUME AccessInv PROVE DelegationIsBacked
  OBVIOUS
<1>1. \A g \in piiGrants : HasRole(g.user, "platform_ops")
  BY DEF AccessInv, GrantsAreBacked, GrantBacked
<1>2. ASSUME NEW u \in Operators
      PROVE  Cardinality({t \in refreshTokens[u] : ~ t.revoked}) <= 1
  <2> DEFINE live == {t \in refreshTokens[u] : ~ t.revoked}
  <2>1. \A x, y \in live : x = y
    BY DEF AccessInv, OneLiveToken
  <2> HIDE DEF live
  <2>2. live = {} \/ \E x : live = {x}
    BY <2>1
  <2>3. Cardinality(live) = 0 \/ Cardinality(live) = 1
    BY <2>2, FS_EmptySet, FS_Singleton, Zenon
  <2>4. Cardinality(live) <= 1
    BY <2>3
  <2> QED BY <2>4 DEF live
<1>3. ASSUME NEW u \in Operators, NEW s \in AccessSalons
      PROVE  LET told == GetEffectiveSupportAccess(u, s) IN
             \A c \in told.capabilities :
                Evaluate(u, s, c, "") /\ \A sc \in told.scopes : Evaluate(u, s, c, sc)
  BY ToldIsAllowed
<1> QED BY <1>1, <1>2, <1>3 DEF DelegationIsBacked

(* After any sequence of changed roles and assignments, revoked and        *)
(* expired authorizations: what GetEffectiveSupportAccess tells is what    *)
(* Evaluate allows, every grant belongs to an active operator, and a       *)
(* session has one live token.                                             *)
THEOREM DelegationStaysBacked == AccessSpec => []DelegationIsBacked
BY AccessInvariant, BackedIsDelegated, PTL

(* Once there is an administrator no step takes the last one away, however *)
(* many administrators demote each other at the same time.                 *)
THEOREM AdministratorRemains == AccessSpec => AnAdministratorRemains
<1> DEFINE A == ActiveAdmins # {} => ActiveAdmins' # {}
<1>1. AccessInv /\ [AccessNext]_accessVars => [A]_accessVars
  BY AccessStep DEF Kept, Remains
<1> HIDE DEF A
<1>2. AccessSpec => [][A]_accessVars
  BY AccessInvariant, <1>1, PTL DEF AccessSpec
<1> QED BY <1>2 DEF AnAdministratorRemains, A

(* The platform, with everything else that is changed on it, is access     *)
(* control to the rows of access control.                                  *)
THEOREM AccessIsKept == MCSpec => AccessSpec
<1>1. MCInit => AccessInit
  BY DEF MCInit
<1>2. [MCNext]_allVars => [AccessNext]_accessVars
  BY DEF MCNext, allVars
<1> QED BY <1>1, <1>2, PTL DEF MCSpec, AccessSpec

-----------------------------------------------------------------------------
(* Tenancy: applications, salons, owners, invitations and metering.        *)

RegistrationRows == [status : ReviewStatuses \cup {"none"}, version : 0 .. MaxReviewVersion,
                     redacted : BOOLEAN]
MemberRows == [salon : SalonKeys, user : TenantUsers,
               role : {"tenant_owner", "tenant_business_manager"}, active : BOOLEAN,
               owner : BOOLEAN, version : Nat]
AccountRows == [status : {"none", "invited", "active"}, email : TenantEmails \cup {""},
                session : BOOLEAN]
InvitationRows == [status : {"active", "revoked", "used"}, user : TenantUsers, live : BOOLEAN]

RegistrationsTyped == registrations \in [Applications -> RegistrationRows]
SalonsTyped == salons \in [SalonKeys -> [owner : TenantUsers \cup {"none"}]]
MembershipsTyped == memberships \subseteq MemberRows
AccountsTyped == accounts \in [TenantUsers -> AccountRows]
InvitationsTyped == invitations \in [InvitationIds -> InvitationRows \cup {NoInvitation}]

(* A request is converted when, and only when, its salon exists.           *)
ConvertedHaveSalons ==
    \A r \in Applications : salons[r] # NoSalon <=> registrations[r].status = "converted"

(* People belong to salons that exist, and the owner's membership is the   *)
(* owner's.                                                                *)
MembersBelong ==
    /\ \A m \in memberships : /\ salons[m.salon] # NoSalon
                              /\ m.owner => m.user = salons[m.salon].owner
    /\ \A k \in SalonKeys : salons[k] # NoSalon => \E m \in memberships : m.salon = k /\ m.owner

(* Only an invited user has an invitation that works, and one of them.     *)
Works(i) == invitations[i].status = "active"
InvitationsAreSingle ==
    /\ \A i, j \in InvitationIds :
          Works(i) /\ Works(j) /\ invitations[i].user = invitations[j].user => i = j
    /\ \A i \in InvitationIds : Works(i) => accounts[invitations[i].user].status = "invited"

(* A session belongs to an active account, and an email to one account.    *)
Exists(u) == accounts[u].status # "none"
AccountsAreDistinct ==
    /\ \A u \in TenantUsers : accounts[u].session => accounts[u].status = "active"
    /\ \A u, v \in TenantUsers :
          Exists(u) /\ Exists(v) /\ accounts[u].email = accounts[v].email => u = v

(* What was used, what is in force and what a consumer read stay within    *)
(* the largest limit of the minute.                                        *)
QuotaHolds ==
    /\ quota \in [limit : Nat, version : Nat, used : Nat, seen : Nat \cup {NoLimit}, peak : Nat]
    /\ quota.used <= quota.peak /\ quota.limit <= quota.peak /\ quota.seen <= quota.peak

ReviewInv == RegistrationsTyped /\ SalonsTyped /\ ConvertedHaveSalons
PeopleInv == MembershipsTyped /\ MembersBelong
LoginInv == AccountsTyped /\ InvitationsTyped /\ InvitationsAreSingle /\ AccountsAreDistinct
TenancyInv == ReviewInv /\ PeopleInv /\ LoginInv /\ QuotaHolds

LEMMA TenancyInitially == TenancyInit => TenancyInv
<1> SUFFICES ASSUME TenancyInit PROVE TenancyInv
  OBVIOUS
<1>1. [status |-> "none", version |-> 0, redacted |-> FALSE] \in RegistrationRows
  BY TenancyConstants DEF RegistrationRows
<1>2. ReviewInv
  BY <1>1 DEF TenancyInit, ReviewInv, RegistrationsTyped, SalonsTyped, ConvertedHaveSalons,
     NoSalon, SalonKeys
<1>3. PeopleInv
  BY DEF TenancyInit, PeopleInv, MembershipsTyped, MembersBelong
<1>4. LoginInv
  BY DEF TenancyInit, LoginInv, AccountsTyped, AccountRows, InvitationsTyped,
     InvitationsAreSingle, AccountsAreDistinct, Works, Exists, NoInvitation
<1>5. QuotaHolds
  <2>1. quota = [limit |-> 1, version |-> 1, used |-> 0, seen |-> NoLimit, peak |-> 1]
    BY DEF TenancyInit
  <2>2. NoLimit <= 1
    BY DEF NoLimit
  <2> QED BY <2>1, <2>2 DEF QuotaHolds
<1> QED BY <1>2, <1>3, <1>4, <1>5 DEF TenancyInv

(* What a step leaves alone it keeps.                                      *)
LEMMA ReviewStands == ASSUME ReviewInv, UNCHANGED <<registrations, salons>> PROVE ReviewInv'
BY DEF ReviewInv, RegistrationsTyped, SalonsTyped, ConvertedHaveSalons
LEMMA PeopleStand == ASSUME PeopleInv, UNCHANGED <<salons, memberships>> PROVE PeopleInv'
BY DEF PeopleInv, MembershipsTyped, MembersBelong
LEMMA LoginsStand == ASSUME LoginInv, UNCHANGED <<accounts, invitations>> PROVE LoginInv'
BY DEF LoginInv, AccountsTyped, InvitationsTyped, InvitationsAreSingle, AccountsAreDistinct,
   Works, Exists
LEMMA QuotaStands == ASSUME QuotaHolds, UNCHANGED quota PROVE QuotaHolds'
BY DEF QuotaHolds

(* A request that is reviewed keeps its version within the bound, and is   *)
(* converted or not as it was.                                             *)
LEMMA ReviewChanges ==
    ASSUME ReviewInv, NEW r \in Applications, NEW row \in RegistrationRows,
           registrations' = [registrations EXCEPT ![r] = row], UNCHANGED salons,
           row.status = "converted" <=> registrations[r].status = "converted"
    PROVE  ReviewInv'
<1>1. RegistrationsTyped' /\ registrations'[r] = row
      /\ \A q \in Applications \ {r} : registrations'[q] = registrations[q]
  BY DEF ReviewInv, RegistrationsTyped
<1> QED BY <1>1 DEF ReviewInv, SalonsTyped, ConvertedHaveSalons

LEMMA ReviewedRow ==
    ASSUME RegistrationsTyped, NEW r \in Applications, NEW expected, ReviewAdmitted(r, expected),
           NEW status \in ReviewStatuses \cup {"none"}
    PROVE  LET row == [status |-> status, version |-> registrations[r].version + 1,
                       redacted |-> registrations[r].redacted]
           IN  /\ row \in RegistrationRows
               /\ [registrations EXCEPT ![r].status = status,
                                        ![r].version = registrations[r].version + 1]
                    = [registrations EXCEPT ![r] = row]
<1>1. PICK old \in RegistrationRows : old = registrations[r]
  BY DEF RegistrationsTyped
<1>2. old.version + 1 \in 0 .. MaxReviewVersion /\ old.redacted \in BOOLEAN
  BY <1>1, TenancyConstants DEF RegistrationRows, ReviewAdmitted
<1> DEFINE row == [status |-> status, version |-> old.version + 1, redacted |-> old.redacted]
<1>3. row \in RegistrationRows
  BY <1>2 DEF RegistrationRows
<1>4. [[old EXCEPT !.status = status] EXCEPT !.version = old.version + 1] = row
  <2>1. PICK mid : mid = [old EXCEPT !.status = status]
    OBVIOUS
  <2>2. mid \in RegistrationRows /\ mid.status = status /\ mid.redacted = old.redacted
    BY <2>1 DEF RegistrationRows
  <2>3. [mid EXCEPT !.version = old.version + 1]
          = [status |-> mid.status, version |-> old.version + 1, redacted |-> mid.redacted]
    BY <2>2 DEF RegistrationRows
  <2> QED BY <2>1, <2>2, <2>3
<1>5. [registrations EXCEPT ![r].status = status, ![r].version = registrations[r].version + 1]
        = [registrations EXCEPT ![r] = row]
  BY <1>1, <1>4 DEF RegistrationsTyped
<1> QED BY <1>1, <1>3, <1>5

(* One account changes: it keeps its email or takes a free one, and what   *)
(* is invited stays invited.                                               *)
LEMMA AccountChanges ==
    ASSUME LoginInv, NEW u \in TenantUsers, NEW row \in AccountRows,
           accounts' = [accounts EXCEPT ![u] = row], UNCHANGED invitations,
           row.session => row.status = "active",
           \/ Exists(u) /\ row.email = accounts[u].email
           \/ ~ EmailTaken(row.email),
           accounts[u].status = "invited" => row.status = "invited"
    PROVE  LoginInv'
<1>1. AccountsTyped' /\ accounts'[u] = row
      /\ \A v \in TenantUsers \ {u} : accounts'[v] = accounts[v]
  BY DEF LoginInv, AccountsTyped
<1>2. InvitationsTyped'
  BY DEF LoginInv, InvitationsTyped
<1>3. InvitationsAreSingle'
  BY <1>1 DEF LoginInv, InvitationsTyped, InvitationRows, Works, NoInvitation,
     InvitationsAreSingle
<1>4. \A v \in TenantUsers \ {u} : Exists(v) => accounts[v].email # row.email
  BY DEF EmailTaken, Exists, LoginInv, AccountsAreDistinct
<1>5. AccountsAreDistinct'
  BY <1>1, <1>4 DEF LoginInv, AccountsAreDistinct, Exists
<1> QED BY <1>1, <1>2, <1>3, <1>5 DEF LoginInv

(* A salon is made once, with its owner's membership.                      *)
LEMMA SalonCreated ==
    ASSUME SalonsTyped, PeopleInv, NEW k \in SalonKeys, NEW u \in TenantUsers, CreateInTx(k, u)
    PROVE  /\ SalonsTyped' /\ PeopleInv' /\ salons'[k] # NoSalon
           /\ \A j \in SalonKeys \ {k} : salons'[j] = salons[j]
<1>1. CASE salons[k] = NoSalon
  <2> DEFINE m == OwnerMembership(k, u)
  <2>1. salons' = [salons EXCEPT ![k] = [owner |-> u]] /\ memberships' = memberships \cup {m}
    BY <1>1 DEF CreateInTx
  <2>2. m \in MemberRows /\ m.salon = k /\ m.owner /\ m.user = u
    BY DEF OwnerMembership, MemberRows
  <2> HIDE DEF m
  <2>3. SalonsTyped' /\ salons'[k] = [owner |-> u]
        /\ \A j \in SalonKeys \ {k} : salons'[j] = salons[j]
    BY <2>1 DEF SalonsTyped
  <2>4. salons'[k] # NoSalon
    BY <2>3, TenancyConstants DEF NoSalon
  <2>5. \A x \in memberships : x.salon \in SalonKeys /\ x.salon # k
    BY <1>1 DEF PeopleInv, MembershipsTyped, MemberRows, MembersBelong
  <2>6. MembershipsTyped'
    BY <2>1, <2>2 DEF PeopleInv, MembershipsTyped
  <2>7. ASSUME NEW x \in memberships'
        PROVE  salons'[x.salon] # NoSalon /\ (x.owner => x.user = salons'[x.salon].owner)
    BY <2>1, <2>2, <2>3, <2>4, <2>5, <2>7 DEF PeopleInv, MembersBelong
  <2>8. ASSUME NEW j \in SalonKeys, salons'[j] # NoSalon
        PROVE  \E x \in memberships' : x.salon = j /\ x.owner
    BY <2>1, <2>2, <2>3, <2>8 DEF PeopleInv, MembersBelong
  <2> QED BY <2>3, <2>4, <2>6, <2>7, <2>8 DEF PeopleInv, MembersBelong
<1>2. CASE salons[k] # NoSalon
  BY <1>2, PeopleStand DEF CreateInTx, SalonsTyped
<1> QED BY <1>1, <1>2

-----------------------------------------------------------------------------
(* The application and the salon.                                          *)

LEMMA ReviewingKeeps ==
    ASSUME TenancyInv, NEW r \in Applications, NEW expected,
           AddNote(r, expected) \/ \E s \in ReviewStatuses : Mutate(r, s, expected)
    PROVE  TenancyInv'
<1>1. ReviewInv /\ RegistrationsTyped /\ ReviewAdmitted(r, expected)
  BY DEF TenancyInv, ReviewInv, AddNote, Mutate
<1>2. UNCHANGED <<salons, memberships, accounts, invitations, quota>>
  BY DEF AddNote, Mutate
<1>3. PICK old \in RegistrationRows : old = registrations[r]
  BY <1>1 DEF RegistrationsTyped
<1>4. old.status # "converted"
  BY <1>3 DEF AddNote, Mutate, terminalStatus
<1>5. \E row \in RegistrationRows : /\ row.status # "converted"
                                    /\ registrations' = [registrations EXCEPT ![r] = row]
  <2>1. CASE AddNote(r, expected)
    <3> DEFINE row == [old EXCEPT !.version = old.version + 1]
    <3>1. old.version + 1 \in 0 .. MaxReviewVersion
      BY <1>1, <1>3, TenancyConstants DEF RegistrationRows, ReviewAdmitted
    <3>2. row \in RegistrationRows /\ row.status = old.status
      BY <3>1 DEF RegistrationRows
    <3>3. registrations' = [registrations EXCEPT ![r] = row]
      BY <1>3, <2>1 DEF AddNote
    <3> HIDE DEF row
    <3> QED BY <1>4, <3>2, <3>3
  <2>2. ASSUME NEW s \in ReviewStatuses, Mutate(r, s, expected)
        PROVE  \E row \in RegistrationRows : /\ row.status # "converted"
                                             /\ registrations' = [registrations EXCEPT ![r] = row]
    <3>1. s # "converted"
      BY <1>3, <1>4, <2>2 DEF Mutate
    <3>2. registrations' = [registrations EXCEPT ![r].status = s,
                                                 ![r].version = registrations[r].version + 1]
      BY <2>2 DEF Mutate
    <3> DEFINE row == [status |-> s, version |-> registrations[r].version + 1,
                       redacted |-> registrations[r].redacted]
    <3>3. row \in RegistrationRows /\ registrations' = [registrations EXCEPT ![r] = row]
      BY <1>1, <3>2, ReviewedRow
    <3>4. row.status = s
      OBVIOUS
    <3> HIDE DEF row
    <3> QED BY <3>1, <3>3, <3>4
  <2> QED BY <2>1, <2>2
<1>6. ReviewInv'
  BY <1>1, <1>2, <1>3, <1>4, <1>5, ReviewChanges
<1> QED BY <1>2, <1>6, PeopleStand, LoginsStand, QuotaStands DEF TenancyInv

LEMMA SubmissionKeeps ==
    ASSUME TenancyInv, NEW r \in Applications, Submit(r) \/ RedactDue(r)
    PROVE  TenancyInv'
<1>1. ReviewInv /\ RegistrationsTyped /\ UNCHANGED <<salons, memberships, accounts, invitations, quota>>
  BY DEF TenancyInv, ReviewInv, Submit, RedactDue
<1>2. PICK old \in RegistrationRows : old = registrations[r]
  BY <1>1 DEF RegistrationsTyped
<1>3. CASE Submit(r)
  <2>1. PICK mid : mid = [old EXCEPT !.status = "new"]
    OBVIOUS
  <2>2. mid \in RegistrationRows /\ mid.status = "new"
    BY <2>1 DEF RegistrationRows, ReviewStatuses
  <2>3. [mid EXCEPT !.version = 1] \in RegistrationRows
        /\ [mid EXCEPT !.version = 1].status = "new"
    BY <2>2, TenancyConstants DEF RegistrationRows
  <2>4. registrations' = [registrations EXCEPT ![r] = [mid EXCEPT !.version = 1]]
    BY <1>1, <1>2, <1>3, <2>1 DEF Submit, RegistrationsTyped
  <2>5. ReviewInv'
    BY <1>1, <1>3, <2>3, <2>4, ReviewChanges DEF Submit
  <2> QED BY <1>1, <2>5, PeopleStand, LoginsStand, QuotaStands DEF TenancyInv
<1>4. CASE RedactDue(r)
  <2> DEFINE row == [old EXCEPT !.redacted = TRUE]
  <2>1. row \in RegistrationRows /\ row.status = old.status
    BY DEF RegistrationRows
  <2>2. registrations' = [registrations EXCEPT ![r] = row]
    BY <1>2, <1>4 DEF RedactDue
  <2> HIDE DEF row
  <2>3. ReviewInv'
    BY <1>1, <1>2, <2>1, <2>2, ReviewChanges
  <2> QED BY <1>1, <2>3, PeopleStand, LoginsStand, QuotaStands DEF TenancyInv
<1> QED BY <1>3, <1>4

(* resolveOwner invites a new account or finds one that is active.         *)
LEMMA OwnerResolved ==
    ASSUME LoginInv, NEW u \in TenantUsers, NEW e \in TenantEmails, NEW mode,
           resolveOwner(u, e, mode), UNCHANGED invitations
    PROVE  LoginInv'
<1>1. CASE mode = "create_invited"
  <2> DEFINE row == [status |-> "invited", email |-> e, session |-> FALSE]
  <2>1. row \in AccountRows
    BY DEF AccountRows
  <2>2. accounts' = [accounts EXCEPT ![u] = row] /\ ~ EmailTaken(row.email)
    BY <1>1 DEF resolveOwner
  <2>3. ~ row.session /\ row.status = "invited"
    OBVIOUS
  <2> HIDE DEF row
  <2> QED BY <2>1, <2>2, <2>3, AccountChanges
<1>2. CASE mode # "create_invited"
  BY <1>2, LoginsStand DEF resolveOwner
<1> QED BY <1>1, <1>2

LEMMA ProvisionKeeps ==
    ASSUME TenancyInv, NEW r \in Applications, NEW u \in TenantUsers, NEW e \in TenantEmails,
           NEW mode, NEW expected, Provision(r, u, e, mode, expected)
    PROVE  TenancyInv'
<1>1. /\ ReviewInv /\ RegistrationsTyped /\ SalonsTyped /\ PeopleInv /\ LoginInv /\ QuotaHolds
      /\ ReviewAdmitted(r, expected) /\ resolveOwner(u, e, mode) /\ CreateInTx(r, u)
      /\ UNCHANGED <<invitations, quota>> /\ r \in SalonKeys
  BY DEF TenancyInv, ReviewInv, Provision, SalonKeys
<1>2. LoginInv'
  BY <1>1, OwnerResolved
<1>3. /\ SalonsTyped' /\ PeopleInv' /\ salons'[r] # NoSalon
      /\ \A j \in SalonKeys \ {r} : salons'[j] = salons[j]
  BY <1>1, SalonCreated
<1> DEFINE row == [status |-> "converted", version |-> registrations[r].version + 1,
                   redacted |-> registrations[r].redacted]
<1>4. registrations' = [registrations EXCEPT ![r].status = "converted",
                                             ![r].version = registrations[r].version + 1]
  BY DEF Provision
<1>5. row \in RegistrationRows /\ registrations' = [registrations EXCEPT ![r] = row]
  BY <1>1, <1>4, ReviewedRow DEF ReviewStatuses
<1>6. row.status = "converted"
  OBVIOUS
<1> HIDE DEF row
<1>7. RegistrationsTyped' /\ registrations'[r] = row
      /\ \A q \in Applications \ {r} : registrations'[q] = registrations[q]
  BY <1>1, <1>5 DEF RegistrationsTyped
<1>8. ConvertedHaveSalons'
  BY <1>1, <1>3, <1>6, <1>7 DEF ReviewInv, ConvertedHaveSalons, SalonKeys
<1> QED BY <1>1, <1>2, <1>3, <1>7, <1>8, QuotaStands DEF TenancyInv, ReviewInv

LEMMA CreateSalonKeeps ==
    ASSUME TenancyInv, NEW u \in TenantUsers, CreateSalon(u)
    PROVE  TenancyInv'
<1>1. /\ ReviewInv /\ SalonsTyped /\ PeopleInv /\ CreateInTx("own", u)
      /\ UNCHANGED <<registrations, accounts, invitations, quota>> /\ "own" \in SalonKeys
  BY DEF TenancyInv, ReviewInv, CreateSalon, SalonKeys
<1>2. SalonsTyped' /\ PeopleInv' /\ \A j \in SalonKeys \ {"own"} : salons'[j] = salons[j]
  BY <1>1, SalonCreated
<1>3. \A r \in Applications : salons'[r] = salons[r]
  BY <1>2, TenancyConstants DEF SalonKeys
<1>4. ReviewInv'
  BY <1>1, <1>2, <1>3 DEF ReviewInv, RegistrationsTyped, ConvertedHaveSalons
<1> QED BY <1>1, <1>2, <1>4, LoginsStand, QuotaStands DEF TenancyInv

-----------------------------------------------------------------------------
(* Accounts and invitations.                                               *)

LEMMA AccountKeeps ==
    ASSUME TenancyInv, NEW u \in TenantUsers,
           \/ SignIn(u) \/ \E k \in SalonKeys : RotateTenantOwnerPassword(k, u)
           \/ \E e \in TenantEmails : CreateFirstOwner(u, e) \/ RenameTenantEmail(u, e)
    PROVE  TenancyInv'
<1>1. LoginInv /\ UNCHANGED <<registrations, salons, memberships, invitations, quota>>
  BY DEF TenancyInv, SignIn, RotateTenantOwnerPassword, CreateFirstOwner, RenameTenantEmail
<1>2. PICK old \in AccountRows : old = accounts[u]
  BY <1>1 DEF LoginInv, AccountsTyped
<1>3. ASSUME NEW on \in BOOLEAN, old.status = "active",
             accounts' = [accounts EXCEPT ![u].session = on]
      PROVE  LoginInv'
  <2> DEFINE row == [old EXCEPT !.session = on]
  <2>1. row \in AccountRows /\ row.status = "active" /\ row.email = old.email
    BY <1>3 DEF AccountRows
  <2>2. accounts' = [accounts EXCEPT ![u] = row] /\ Exists(u)
    BY <1>2, <1>3 DEF Exists
  <2>3. accounts[u].status = "active" /\ row.email = accounts[u].email
    BY <1>2, <1>3, <2>1
  <2> HIDE DEF row
  <2> QED BY <1>1, <2>1, <2>2, <2>3, AccountChanges
<1>4. ASSUME SignIn(u) PROVE LoginInv'
  BY <1>2, <1>3, <1>4 DEF SignIn
<1>5. ASSUME \E k \in SalonKeys : RotateTenantOwnerPassword(k, u) PROVE LoginInv'
  BY <1>2, <1>3, <1>5 DEF RotateTenantOwnerPassword
<1>6. ASSUME NEW e \in TenantEmails, CreateFirstOwner(u, e) PROVE LoginInv'
  <2> DEFINE row == [status |-> "active", email |-> e, session |-> TRUE]
  <2>1. row \in AccountRows /\ row.status = "active"
    BY DEF AccountRows
  <2>2. accounts' = [accounts EXCEPT ![u] = row]
    BY <1>6 DEF CreateFirstOwner
  <2> HIDE DEF row
  <2>3. ~ EmailTaken(row.email) /\ accounts[u].status # "invited"
    BY <1>6 DEF CreateFirstOwner, EmailTaken
  <2> QED BY <1>1, <2>1, <2>2, <2>3, AccountChanges
<1>7. ASSUME NEW e \in TenantEmails, RenameTenantEmail(u, e) PROVE LoginInv'
  <2>1. PICK mid : mid = [old EXCEPT !.email = e]
    OBVIOUS
  <2>2. mid \in AccountRows /\ mid.email = e /\ mid.status = old.status
    BY <2>1 DEF AccountRows
  <2> DEFINE row == [mid EXCEPT !.session = FALSE]
  <2>3. row \in AccountRows /\ row.email = e /\ row.status = old.status /\ ~ row.session
    BY <2>2 DEF AccountRows
  <2>4. accounts' = [accounts EXCEPT ![u] = row]
    BY <1>1, <1>2, <1>7, <2>1 DEF RenameTenantEmail, LoginInv, AccountsTyped
  <2>5. ~ EmailTaken(e)
    BY <1>7 DEF RenameTenantEmail
  <2> HIDE DEF row
  <2> QED BY <1>1, <1>2, <2>3, <2>4, <2>5, AccountChanges
<1>8. LoginInv'
  BY <1>4, <1>5, <1>6, <1>7
<1> QED BY <1>1, <1>8, ReviewStands, PeopleStand, QuotaStands DEF TenancyInv

(* An invitation that works has a user.                                    *)
LEMMA WorkingRow ==
    ASSUME InvitationsTyped, NEW i \in InvitationIds, invitations[i].status \in {"active"}
    PROVE  invitations[i] \in InvitationRows
BY DEF InvitationsTyped, NoInvitation

(* The new invitation of a user replaces the one that worked.              *)
LEMMA InvitationCreated ==
    ASSUME LoginInv, NEW u \in TenantUsers, NEW i \in InvitationIds,
           accounts[u].status = "invited", UNCHANGED accounts,
           invitations' = [RevokeInvitations(u) EXCEPT ![i] =
                             [status |-> "active", user |-> u, live |-> TRUE]]
    PROVE  LoginInv'
<1> DEFINE new == [status |-> "active", user |-> u, live |-> TRUE]
           left == RevokeInvitations(u)
<1>1. new \in InvitationRows /\ new.status = "active" /\ new.user = u
  BY DEF InvitationRows
<1>2. ASSUME NEW j \in InvitationIds
      PROVE  /\ left[j] \in InvitationRows \cup {NoInvitation}
             /\ left[j].status = "active" => left[j] = invitations[j] /\ left[j].user # u
  BY <1>2, WorkingRow DEF ActiveInvitations, LoginInv, RevokeInvitations, InvitationRows,
     InvitationsTyped
<1>3. left \in [InvitationIds -> InvitationRows \cup {NoInvitation}]
  BY <1>2 DEF RevokeInvitations
<1>4. invitations' = [left EXCEPT ![i] = new]
  OBVIOUS
<1> HIDE DEF left, new
<1>5. InvitationsTyped' /\ invitations'[i] = new
      /\ \A j \in InvitationIds \ {i} : invitations'[j] = left[j]
  BY <1>1, <1>3, <1>4 DEF InvitationsTyped
<1>6. \A j \in InvitationIds : Works(j)' =>
         \/ j = i
         \/ Works(j) /\ invitations'[j] = invitations[j] /\ invitations[j].user # u
  BY <1>2, <1>5 DEF Works
<1>7. InvitationsAreSingle'
  BY <1>1, <1>5, <1>6 DEF LoginInv, InvitationsAreSingle
<1>8. AccountsTyped' /\ AccountsAreDistinct'
  BY DEF LoginInv, AccountsTyped, AccountsAreDistinct, Exists
<1> QED BY <1>5, <1>7, <1>8 DEF LoginInv

LEMMA CreateInvitationKeeps ==
    ASSUME TenancyInv, NEW r \in Applications, NEW i \in InvitationIds, NEW rotate, NEW expected,
           CreateInvitation(r, i, rotate, expected)
    PROVE  TenancyInv'
<1> DEFINE u == salons[r].owner
<1>1. /\ ReviewInv /\ RegistrationsTyped /\ LoginInv /\ ReviewAdmitted(r, expected)
      /\ registrations[r].status = "converted" /\ accounts[u].status = "invited"
      /\ UNCHANGED <<salons, memberships, accounts, quota>>
      /\ invitations' = [RevokeInvitations(u) EXCEPT ![i] =
                           [status |-> "active", user |-> u, live |-> TRUE]]
  BY DEF TenancyInv, ReviewInv, CreateInvitation
<1>2. u \in TenantUsers
  BY <1>1 DEF ReviewInv, ConvertedHaveSalons, SalonsTyped, SalonKeys, NoSalon
<1>3. LoginInv'
  BY <1>1, <1>2, InvitationCreated
<1>4. PICK old \in RegistrationRows : old = registrations[r]
  BY <1>1 DEF RegistrationsTyped
<1> DEFINE row == [old EXCEPT !.version = old.version + 1]
<1>5. old.version + 1 \in 0 .. MaxReviewVersion
  BY <1>1, <1>4, TenancyConstants DEF RegistrationRows, ReviewAdmitted
<1>6. row \in RegistrationRows /\ row.status = old.status
  BY <1>5 DEF RegistrationRows
<1>7. registrations' = [registrations EXCEPT ![r] = row]
  BY <1>4 DEF CreateInvitation
<1> HIDE DEF row
<1>8. ReviewInv'
  BY <1>1, <1>4, <1>6, <1>7, ReviewChanges
<1> QED BY <1>1, <1>3, <1>8, PeopleStand, QuotaStands DEF TenancyInv

LEMMA InvitationExpiresKeeps ==
    ASSUME TenancyInv, NEW i \in InvitationIds, InvitationExpires(i)
    PROVE  TenancyInv'
<1>1. LoginInv /\ UNCHANGED <<registrations, salons, memberships, accounts, quota>>
  BY DEF TenancyInv, InvitationExpires
<1>2. PICK old \in InvitationRows : old = invitations[i]
  BY <1>1, WorkingRow DEF InvitationExpires, LoginInv
<1> DEFINE row == [old EXCEPT !.live = FALSE]
<1>3. row \in InvitationRows /\ row.status = old.status /\ row.user = old.user
  BY DEF InvitationRows
<1>4. invitations' = [invitations EXCEPT ![i] = row]
  BY <1>2 DEF InvitationExpires
<1> HIDE DEF row
<1>5. InvitationsTyped' /\ invitations'[i] = row
      /\ \A j \in InvitationIds \ {i} : invitations'[j] = invitations[j]
  BY <1>1, <1>3, <1>4 DEF LoginInv, InvitationsTyped
<1>6. \A j \in InvitationIds : /\ Works(j)' <=> Works(j)
                               /\ invitations[j].user = invitations'[j].user \/ ~ Works(j)
  BY <1>2, <1>3, <1>5 DEF Works
<1>7. InvitationsAreSingle'
  BY <1>1, <1>6 DEF LoginInv, InvitationsAreSingle
<1>8. AccountsTyped' /\ AccountsAreDistinct'
  BY <1>1 DEF LoginInv, AccountsTyped, AccountsAreDistinct, Exists
<1>9. LoginInv'
  BY <1>5, <1>7, <1>8 DEF LoginInv
<1> QED BY <1>1, <1>9, ReviewStands, PeopleStand, QuotaStands DEF TenancyInv

(* The owner who accepts becomes active, and has no invitation left: the   *)
(* one he used was the only one that worked.                               *)
LEMMA AcceptKeeps ==
    ASSUME TenancyInv, NEW i \in InvitationIds, AcceptInvitation(i)
    PROVE  TenancyInv'
<1> DEFINE u == invitations[i].user
<1>1. LoginInv /\ UNCHANGED <<registrations, salons, memberships, quota>>
  BY DEF TenancyInv, AcceptInvitation
<1>2. PICK old \in InvitationRows : old = invitations[i]
  BY <1>1, WorkingRow DEF AcceptInvitation, LoginInv
<1>3. Works(i) /\ u \in TenantUsers /\ accounts[u].status = "invited"
  BY <1>2 DEF AcceptInvitation, Works, InvitationRows
<1> DEFINE used == [old EXCEPT !.status = "used"]
<1>4. used \in InvitationRows /\ used.status # "active"
  BY DEF InvitationRows
<1>5. invitations' = [invitations EXCEPT ![i] = used]
  BY <1>2 DEF AcceptInvitation
<1>6. PICK account \in AccountRows : account = accounts[u]
  BY <1>1, <1>3 DEF LoginInv, AccountsTyped
<1>7. PICK mid : mid = [account EXCEPT !.status = "active"]
  OBVIOUS
<1> DEFINE row == [mid EXCEPT !.session = FALSE]
<1>8. mid \in AccountRows /\ mid.status = "active" /\ mid.email = account.email
  BY <1>7 DEF AccountRows
<1>9. row \in AccountRows /\ row.status = "active" /\ row.email = account.email /\ ~ row.session
  BY <1>8 DEF AccountRows
<1>10. accounts' = [accounts EXCEPT ![u] = row]
  BY <1>1, <1>3, <1>6, <1>7 DEF AcceptInvitation, LoginInv, AccountsTyped
<1> HIDE DEF used, row
<1>11. InvitationsTyped' /\ invitations'[i] = used
       /\ \A j \in InvitationIds \ {i} : invitations'[j] = invitations[j]
  BY <1>1, <1>4, <1>5 DEF LoginInv, InvitationsTyped
<1>12. AccountsTyped' /\ accounts'[u] = row
       /\ \A v \in TenantUsers \ {u} : accounts'[v] = accounts[v]
  BY <1>1, <1>3, <1>9, <1>10 DEF LoginInv, AccountsTyped
<1>13. ASSUME NEW j \in InvitationIds, Works(j)'
       PROVE  /\ j # i /\ Works(j) /\ invitations'[j] = invitations[j]
              /\ invitations[j].user \in TenantUsers \ {u}
  BY <1>1, <1>3, <1>4, <1>11, <1>13, WorkingRow DEF Works, LoginInv, InvitationRows,
     InvitationsAreSingle
<1> HIDE DEF u
<1>14. InvitationsAreSingle'
  BY <1>1, <1>12, <1>13 DEF LoginInv, InvitationsAreSingle
<1>15. AccountsAreDistinct'
  BY <1>1, <1>3, <1>6, <1>9, <1>12 DEF Exists, LoginInv, AccountsAreDistinct
<1>16. LoginInv'
  BY <1>11, <1>12, <1>14, <1>15 DEF LoginInv
<1> QED BY <1>1, <1>16, ReviewStands, PeopleStand, QuotaStands DEF TenancyInv

-----------------------------------------------------------------------------
(* The people of a salon, and its meter.                                   *)

LEMMA MembershipKeeps ==
    ASSUME TenancyInv, NEW k \in SalonKeys, NEW u \in TenantUsers,
           NEW role \in {"tenant_owner", "tenant_business_manager"}, NEW on \in BOOLEAN,
           NEW expected, MutateMembership(k, u, role, on, expected)
    PROVE  TenancyInv'
<1>1. /\ PeopleInv /\ salons[k] # NoSalon
      /\ UNCHANGED <<registrations, salons, accounts, invitations, quota>>
  BY DEF TenancyInv, MutateMembership
<1>2. CASE MembershipOf(k, u) = {}
  <2> DEFINE new == [salon |-> k, user |-> u, role |-> role, active |-> on, owner |-> FALSE,
                     version |-> 1]
  <2>1. memberships' = memberships \cup {new}
    BY <1>2 DEF MutateMembership
  <2>2. new \in MemberRows /\ new.salon = k /\ ~ new.owner
    BY DEF MemberRows
  <2> HIDE DEF new
  <2>3. PeopleInv'
    BY <1>1, <2>1, <2>2 DEF PeopleInv, MembershipsTyped, MembersBelong
  <2> QED BY <1>1, <2>3, ReviewStands, LoginsStand, QuotaStands DEF TenancyInv
<1>3. ASSUME NEW m \in memberships, NEW new,
             memberships' = (memberships \ {m}) \cup {new}, new \in MemberRows,
             new.salon = m.salon, new.user = m.user, new.owner = m.owner
      PROVE  PeopleInv'
  <2>1. \A x \in memberships' : \E y \in memberships :
           x.salon = y.salon /\ x.user = y.user /\ x.owner = y.owner
    BY <1>3
  <2>2. \A y \in memberships : \E x \in memberships' : x.salon = y.salon /\ x.owner = y.owner
    BY <1>3
  <2>3. MembershipsTyped'
    BY <1>1, <1>3 DEF PeopleInv, MembershipsTyped
  <2>4. \A x \in memberships' : /\ salons'[x.salon] # NoSalon
                                /\ x.owner => x.user = salons'[x.salon].owner
    <3> TAKE x \in memberships'
    <3>1. PICK y \in memberships : x.salon = y.salon /\ x.user = y.user /\ x.owner = y.owner
      BY <2>1
    <3> QED BY <1>1, <3>1 DEF PeopleInv, MembersBelong
  <2>5. \A j \in SalonKeys : salons'[j] # NoSalon => \E x \in memberships' : x.salon = j /\ x.owner
    <3> SUFFICES ASSUME NEW j \in SalonKeys, salons'[j] # NoSalon
                 PROVE  \E x \in memberships' : x.salon = j /\ x.owner
      OBVIOUS
    <3>1. PICK y \in memberships : y.salon = j /\ y.owner
      BY <1>1 DEF PeopleInv, MembersBelong
    <3> QED BY <2>2, <3>1
  <2> QED BY <2>3, <2>4, <2>5 DEF PeopleInv, MembersBelong
<1>4. CASE MembershipOf(k, u) # {}
  <2>1. PICK m \in MembershipOf(k, u) : /\ m.version < MaxMemberVersion
          /\ memberships' = (memberships \ {m}) \cup
               {IF m.role # role \/ m.active # on
                THEN [m EXCEPT !.role = role, !.active = on, !.version = m.version + 1] ELSE m}
    BY <1>4 DEF MutateMembership
  <2>2. m \in memberships /\ m \in MemberRows
    BY <1>1 DEF MembershipOf, PeopleInv, MembershipsTyped
  <2>3. PICK one : one = [m EXCEPT !.role = role]
    OBVIOUS
  <2>4. one \in MemberRows /\ one.salon = m.salon /\ one.user = m.user /\ one.owner = m.owner
    BY <2>2, <2>3 DEF MemberRows
  <2>5. PICK two : two = [one EXCEPT !.active = on]
    OBVIOUS
  <2>6. two \in MemberRows /\ two.salon = m.salon /\ two.user = m.user /\ two.owner = m.owner
    BY <2>4, <2>5 DEF MemberRows
  <2>7. PICK new : new = [two EXCEPT !.version = m.version + 1]
    OBVIOUS
  <2>8. new \in MemberRows /\ new.salon = m.salon /\ new.user = m.user /\ new.owner = m.owner
    BY <2>2, <2>6, <2>7 DEF MemberRows
  <2>9. memberships' = (memberships \ {m}) \cup {new} \/ memberships' = (memberships \ {m}) \cup {m}
    BY <2>1, <2>3, <2>5, <2>7
  <2>10. PeopleInv'
    BY <1>3, <2>2, <2>8, <2>9
  <2> QED BY <1>1, <2>10, ReviewStands, LoginsStand, QuotaStands DEF TenancyInv
<1> QED BY <1>2, <1>4

LEMMA QuotaRow ==
    ASSUME NEW l \in Nat, NEW v \in Nat, NEW n \in Nat, NEW s \in Nat \cup {NoLimit},
           NEW p \in Nat, n <= p, l <= p, s = NoLimit \/ s <= p,
           quota' = [limit |-> l, version |-> v, used |-> n, seen |-> s, peak |-> p]
    PROVE  QuotaHolds'
<1>1. s <= p
  BY DEF NoLimit
<1>2. quota' \in [limit : Nat, version : Nat, used : Nat, seen : Nat \cup {NoLimit}, peak : Nat]
  OBVIOUS
<1> QED BY <1>1, <1>2 DEF QuotaHolds

LEMMA QuotaKeeps ==
    ASSUME TenancyInv, QuotaNext
    PROVE  TenancyInv'
<1>1. QuotaHolds /\ UNCHANGED <<registrations, salons, memberships, accounts, invitations>>
  BY DEF TenancyInv, QuotaNext, Consume, UpdateLimits, ReadLimit, NextMinute
<1>2. PICK q : q = quota
  OBVIOUS
<1>3. /\ q.limit \in Nat /\ q.version \in Nat /\ q.used \in Nat /\ q.seen \in Nat \cup {NoLimit}
      /\ q.peak \in Nat /\ q.used <= q.peak /\ q.limit <= q.peak /\ q.seen <= q.peak
      /\ q = [limit |-> q.limit, version |-> q.version, used |-> q.used, seen |-> q.seen,
              peak |-> q.peak]
  BY <1>1, <1>2 DEF QuotaHolds
<1>4. ASSUME NEW n \in 1 .. MaxQuotaUnits, Consume(n) PROVE QuotaHolds'
  <2> DEFINE used == IF q.used + n > q.seen THEN q.used ELSE q.used + n
  <2>1. quota' = [q EXCEPT !.used = used, !.seen = NoLimit] /\ q.seen \in Nat
    BY <1>2, <1>3, <1>4 DEF Consume, Exhausted
  <2>2. used \in Nat /\ used <= q.peak
    BY <1>3, <2>1, TenancyConstants
  <2> HIDE DEF used
  <2>3. quota' = [limit |-> q.limit, version |-> q.version, used |-> used, seen |-> NoLimit,
                  peak |-> q.peak]
    BY <1>3, <2>1
  <2> QED BY <1>3, <2>2, <2>3, QuotaRow
<1>5. ASSUME NEW n \in 1 .. MaxQuotaUnits, NEW expected, UpdateLimits(n, expected)
      PROVE  QuotaHolds'
  <2> DEFINE peak == IF n > q.peak THEN n ELSE q.peak
  <2>1. quota' = [q EXCEPT !.limit = n, !.version = q.version + 1, !.peak = peak]
    BY <1>2, <1>5 DEF UpdateLimits
  <2>2. /\ peak \in Nat /\ n <= peak /\ q.used <= peak /\ q.seen <= peak /\ n \in Nat
        /\ q.version + 1 \in Nat
    BY <1>3, TenancyConstants DEF NoLimit
  <2> HIDE DEF peak
  <2>3. quota' = [limit |-> n, version |-> q.version + 1, used |-> q.used, seen |-> q.seen,
                  peak |-> peak]
    BY <1>3, <2>1
  <2> QED BY <1>3, <2>2, <2>3, QuotaRow
<1>6. ASSUME ReadLimit PROVE QuotaHolds'
  BY <1>2, <1>3, <1>6, QuotaRow DEF ReadLimit
<1>7. ASSUME NextMinute PROVE QuotaHolds'
  <2>1. quota' = [limit |-> q.limit, version |-> q.version, used |-> 0, seen |-> q.seen,
                  peak |-> q.limit] /\ q.seen = NoLimit
    BY <1>2, <1>3, <1>7 DEF NextMinute
  <2> QED BY <1>3, <2>1, QuotaRow
<1>8. QuotaHolds'
  BY <1>4, <1>5, <1>6, <1>7 DEF QuotaNext
<1> QED BY <1>1, <1>8, ReviewStands, PeopleStand, LoginsStand DEF TenancyInv

-----------------------------------------------------------------------------
(* The steps together.                                                     *)

LEMMA TenancyStep == TenancyInv /\ [TenancyNext]_tenancyVars => TenancyInv'
<1> SUFFICES ASSUME TenancyInv, [TenancyNext]_tenancyVars PROVE TenancyInv'
  OBVIOUS
<1>1. CASE UNCHANGED tenancyVars
  BY <1>1, ReviewStands, PeopleStand, LoginsStand, QuotaStands DEF tenancyVars, TenancyInv
<1>2. ASSUME NEW r \in Applications,
             NEW expected \in registrations[r].version - 1 .. registrations[r].version,
             \/ AddNote(r, expected)
             \/ \E s \in ReviewStatuses : Mutate(r, s, expected)
             \/ \E u \in TenantUsers, e \in TenantEmails, m \in {"create_invited", "use_existing"} :
                  Provision(r, u, e, m, expected)
             \/ \E i \in InvitationIds, rotate \in BOOLEAN : CreateInvitation(r, i, rotate, expected)
      PROVE  TenancyInv'
  BY <1>2, ReviewingKeeps, ProvisionKeeps, CreateInvitationKeeps
<1>3. CASE \E r \in Applications : Submit(r) \/ RedactDue(r)
  BY <1>3, SubmissionKeeps
<1>4. ASSUME NEW u \in TenantUsers,
             \/ CreateSalon(u) \/ SignIn(u)
             \/ \E e \in TenantEmails : CreateFirstOwner(u, e) \/ RenameTenantEmail(u, e)
             \/ \E k \in SalonKeys : RotateTenantOwnerPassword(k, u)
      PROVE  TenancyInv'
  BY <1>4, CreateSalonKeeps, AccountKeeps
<1>5. CASE \E i \in InvitationIds : AcceptInvitation(i) \/ InvitationExpires(i)
  BY <1>5, AcceptKeeps, InvitationExpiresKeeps
<1>6. CASE \E k \in SalonKeys, u \in TenantUsers, role \in {"tenant_owner", "tenant_business_manager"},
              on \in BOOLEAN, expected \in 0 .. MaxMemberVersion :
             MutateMembership(k, u, role, on, expected)
  BY <1>6, MembershipKeeps
<1>7. CASE QuotaNext
  BY <1>7, QuotaKeeps
<1> QED BY <1>1, <1>2, <1>3, <1>4, <1>5, <1>6, <1>7 DEF TenancyNext, ReviewNext

(* In every state a request is converted when its salon exists, people     *)
(* belong to salons, accounts and invitations are consistent, and the use  *)
(* of a minute stays within its largest limit.                             *)
THEOREM TenancyInvariant == TenancySpec => []TenancyInv
BY TenancyInitially, TenancyStep, PTL DEF TenancySpec

LEMMA TenancyTypes == TenancyInv => TenancyTypeOK
<1> SUFFICES ASSUME TenancyInv PROVE TenancyTypeOK
  OBVIOUS
<1>1. \A r \in Applications : registrations[r] \in RegistrationRows
  BY DEF TenancyInv, ReviewInv, RegistrationsTyped
<1>2. \A k \in SalonKeys : salons[k] \in [owner : TenantUsers \cup {"none"}]
  BY DEF TenancyInv, ReviewInv, SalonsTyped
<1>3. \A u \in TenantUsers : accounts[u] \in AccountRows
  BY DEF TenancyInv, LoginInv, AccountsTyped
<1> QED BY <1>1, <1>2, <1>3 DEF TenancyTypeOK, RegistrationRows, AccountRows

(* The types of the tenants' tables.                                       *)
THEOREM TenancyTypeCorrect == TenancySpec => []TenancyTypeOK
BY TenancyInvariant, TenancyTypes, PTL

LEMMA TenantsWhole == TenancyInv => TenantsAreWhole
<1> SUFFICES ASSUME TenancyInv PROVE TenantsAreWhole
  OBVIOUS
<1>1. \A r \in Applications : salons[r] # NoSalon <=> registrations[r].status = "converted"
  BY DEF TenancyInv, ReviewInv, ConvertedHaveSalons
<1>2. ASSUME NEW k \in SalonKeys, salons[k] # NoSalon
      PROVE  {m.user : m \in {x \in memberships : x.salon = k /\ x.owner}} = {salons[k].owner}
  <2>1. \A m \in memberships : m.salon = k /\ m.owner => m.user = salons[k].owner
    BY DEF TenancyInv, PeopleInv, MembersBelong
  <2>2. PICK m \in memberships : m.salon = k /\ m.owner
    BY <1>2 DEF TenancyInv, PeopleInv, MembersBelong
  <2> QED BY <2>1, <2>2
<1>3. ASSUME NEW u \in TenantUsers
      PROVE  Cardinality(ActiveInvitations(u)) <= IF accounts[u].status = "invited" THEN 1 ELSE 0
  <2>1. \A i \in ActiveInvitations(u) : i \in InvitationIds /\ Works(i) /\ invitations[i].user = u
    BY DEF ActiveInvitations, Works
  <2>2. \A i, j \in ActiveInvitations(u) : i = j
    BY <2>1 DEF TenancyInv, LoginInv, InvitationsAreSingle
  <2>3. ActiveInvitations(u) # {} => accounts[u].status = "invited"
    BY <2>1 DEF TenancyInv, LoginInv, InvitationsAreSingle
  <2>4. ActiveInvitations(u) = {} \/ \E i : ActiveInvitations(u) = {i}
    BY <2>2
  <2>5. \/ ActiveInvitations(u) = {} /\ Cardinality(ActiveInvitations(u)) = 0
        \/ ActiveInvitations(u) # {} /\ Cardinality(ActiveInvitations(u)) = 1
    BY <2>4, FS_EmptySet, FS_Singleton, Zenon
  <2> QED BY <2>3, <2>5
<1>4. ASSUME NEW u \in TenantUsers
      PROVE  /\ accounts[u].session => accounts[u].status = "active"
             /\ accounts[u].status # "none" => \A v \in TenantUsers \ {u} :
                   accounts[v].status # "none" => accounts[v].email # accounts[u].email
  BY DEF TenancyInv, LoginInv, AccountsAreDistinct, Exists
<1>5. quota.used <= quota.peak
  BY DEF TenancyInv, QuotaHolds
<1> QED BY <1>1, <1>2, <1>3, <1>4, <1>5 DEF TenantsAreWhole

(* A request becomes one salon exactly when it is converted, the salon has *)
(* one owner, emails and invitations are single, and metering holds, in    *)
(* any order of reviews, provisioning, invitations and sign-ins.           *)
THEOREM TenantsStayWhole == TenancySpec => []TenantsAreWhole
BY TenancyInvariant, TenantsWhole, PTL

(* Tenancy in the platform is tenancy alone.                               *)
THEOREM TenancyIsKept == MCSpec => TenancySpec
<1>1. MCInit => TenancyInit
  BY DEF MCInit
<1>2. [MCNext]_allVars => [TenancyNext]_tenancyVars
  BY DEF MCNext, allVars, TenancyNext
<1> QED BY <1>1, <1>2, PTL DEF MCSpec, TenancySpec

-----------------------------------------------------------------------------
(* Configuration: what the sections hold, and the versions that count      *)
(* their changes.                                                          *)

Values == UNION {SectionValues[x] : x \in Sections}
Configurations == {c \in [Sections -> Values] : \A x \in Sections : c[x] \in SectionValues[x]}
AuthorityRows == [name : Authorities, version : Nat]
FactRows == [bookable : BOOLEAN, activated : BOOLEAN, provider : BOOLEAN]

SalonsConfigured ==
    /\ conf \in [Salons -> Configurations] /\ vers \in [Salons -> [Sections -> Nat]]
    /\ authorityOf \in [Salons -> AuthorityRows] /\ facts \in [Salons -> FactRows]

LEMMA SectionNames ==
    Sections = {"profile", "public", "hours", "aliases", "categories", "consultation", "ai",
                "aiEnabled", "integrations", "knowledge"}
BY DEF Sections, SectionValues

LEMMA SectionSet ==
    ASSUME NEW c \in Configurations, NEW x \in Sections, NEW v \in SectionValues[x]
    PROVE  /\ [c EXCEPT ![x] = v] \in Configurations
           /\ [c EXCEPT ![x] = v][x] = v
           /\ \A y \in Sections \ {x} : [c EXCEPT ![x] = v][y] = c[y]
<1> DEFINE d == [c EXCEPT ![x] = v]
<1>1. c \in [Sections -> Values] /\ \A y \in Sections : c[y] \in SectionValues[y]
  BY DEF Configurations
<1>2. v \in Values
  BY DEF Values
<1>3. d \in [Sections -> Values]
  BY <1>1, <1>2
<1>4. d[x] = v /\ \A y \in Sections \ {x} : d[y] = c[y]
  BY <1>1
<1> HIDE DEF d
<1>5. \A y \in Sections : d[y] \in SectionValues[y]
  BY <1>1, <1>4
<1>6. d \in Configurations
  BY <1>3, <1>5 DEF Configurations
<1> QED BY <1>4, <1>6 DEF d

(* A step counts every change of a section and of an authority.            *)
Counted ==
    /\ \A s \in Salons, x \in Sections :
          vers[s][x] <= vers'[s][x] /\ (conf'[s][x] = conf[s][x] \/ vers[s][x] < vers'[s][x])
    /\ \A s \in Salons :
          authorityOf'[s] = authorityOf[s] \/ authorityOf[s].version < authorityOf'[s].version

LEMMA CountedWhenLeft ==
    ASSUME SalonsConfigured, UNCHANGED <<conf, vers, authorityOf>>
    PROVE  Counted
<1>1. \A s \in Salons, x \in Sections : vers[s][x] \in Nat
  BY DEF SalonsConfigured
<1> QED BY <1>1 DEF Counted

(* The triggers count what they see change.                                *)
LEMMA WrittenEffect ==
    ASSUME SalonsConfigured, NEW s \in Salons, NEW new \in Configurations, Written(s, new),
           UNCHANGED authorityOf
    PROVE  /\ SalonsConfigured' /\ Counted
           /\ conf'[s] = new
           /\ \A t \in Salons \ {s} : conf'[t] = conf[t] /\ facts'[t] = facts[t]
           /\ facts'[s] = Unsettled(facts[s], {x \in Sections : new[x] # conf[s][x]})
<1> DEFINE changed == {x \in Sections : new[x] # conf[s][x]}
           next == [x \in Sections |-> vers[s][x] + (IF x \in changed THEN 1 ELSE 0)]
           left == Unsettled(facts[s], changed)
<1>1. conf' = [conf EXCEPT ![s] = new]
  BY DEF Written
<1>2. vers' = [vers EXCEPT ![s] = next]
  BY DEF Written
<1>3. facts' = [facts EXCEPT ![s] = left]
  BY DEF Written
<1>4. conf' \in [Salons -> Configurations] /\ conf'[s] = new
      /\ \A t \in Salons \ {s} : conf'[t] = conf[t]
  BY <1>1 DEF SalonsConfigured
<1>5. \A x \in Sections : vers[s][x] \in Nat
  BY DEF SalonsConfigured
<1>6. next \in [Sections -> Nat]
  BY <1>5
<1>7. \A x \in Sections : vers[s][x] <= next[x] /\ (x \in changed => vers[s][x] < next[x])
  BY <1>5
<1>8. left \in FactRows
  <2>1. facts[s] \in FactRows
    BY DEF SalonsConfigured
  <2>2. PICK f \in FactRows : f = facts[s]
    BY <2>1
  <2>3. PICK one : one = [f EXCEPT !.activated = @ /\ changed \cap {"profile", "hours", "consultation"} = {}]
    OBVIOUS
  <2>4. one \in FactRows
    BY <2>3 DEF FactRows
  <2>5. [one EXCEPT !.provider = @ /\ "integrations" \notin changed] \in FactRows
    BY <2>4 DEF FactRows
  <2> QED BY <2>2, <2>3, <2>5 DEF Unsettled
<1> HIDE DEF next, left
<1>9. vers' \in [Salons -> [Sections -> Nat]] /\ vers'[s] = next
      /\ \A t \in Salons \ {s} : vers'[t] = vers[t]
  BY <1>2, <1>6 DEF SalonsConfigured
<1>10. facts' \in [Salons -> FactRows] /\ facts'[s] = left
       /\ \A t \in Salons \ {s} : facts'[t] = facts[t]
  BY <1>3, <1>8 DEF SalonsConfigured
<1>11. SalonsConfigured'
  BY <1>4, <1>9, <1>10 DEF SalonsConfigured
<1>12. \A t \in Salons, x \in Sections :
          vers[t][x] <= vers'[t][x] /\ (conf'[t][x] = conf[t][x] \/ vers[t][x] < vers'[t][x])
  <2> SUFFICES ASSUME NEW t \in Salons, NEW x \in Sections
               PROVE  vers[t][x] <= vers'[t][x]
                      /\ (conf'[t][x] = conf[t][x] \/ vers[t][x] < vers'[t][x])
    OBVIOUS
  <2>1. CASE t = s
    BY <1>4, <1>7, <1>9, <2>1
  <2>2. CASE t # s
    BY <1>4, <1>9, <2>2 DEF SalonsConfigured
  <2> QED BY <2>1, <2>2
<1> QED BY <1>4, <1>10, <1>11, <1>12 DEF Counted, left

(* What a change of other sections leaves of the facts.                    *)
LEMMA UnsettledLeaves ==
    ASSUME NEW f \in FactRows, NEW changed
    PROVE  /\ Unsettled(f, changed).bookable = f.bookable
           /\ changed \cap {"profile", "hours", "consultation"} = {} =>
                 Unsettled(f, changed).activated = f.activated
           /\ "integrations" \notin changed => Unsettled(f, changed).provider = f.provider
<1>1. PICK one : one = [f EXCEPT !.activated = @ /\ changed \cap {"profile", "hours", "consultation"} = {}]
  OBVIOUS
<1>2. /\ one \in FactRows /\ one.bookable = f.bookable /\ one.provider = f.provider
      /\ changed \cap {"profile", "hours", "consultation"} = {} => one.activated = f.activated
  BY <1>1 DEF FactRows
<1>3. PICK two : two = [one EXCEPT !.provider = @ /\ "integrations" \notin changed]
  OBVIOUS
<1>4. /\ two.bookable = one.bookable /\ two.activated = one.activated
      /\ "integrations" \notin changed => two.provider = one.provider
  BY <1>2, <1>3 DEF FactRows
<1>5. Unsettled(f, changed) = two
  BY <1>1, <1>3 DEF Unsettled
<1> QED BY <1>2, <1>4, <1>5

-----------------------------------------------------------------------------
(* What an administrator's client holds.                                   *)

LoadedRows == [section : BusinessSections \cup TechnicalSections, value : Values, version : Nat]
LoadedOK(l) ==
    \/ l = NotLoaded
    \/ /\ l \in LoadedRows /\ l.version <= vers["target"][l.section]
       /\ l.version < vers["target"][l.section] \/ l.value = conf["target"][l.section]
ClientsInformed ==
    /\ loaded \in [Admins -> LoadedRows \cup {NotLoaded}]
    /\ \A a \in Admins : LoadedOK(loaded[a])

LEMMA LoadedSections == BusinessSections \cup TechnicalSections \subseteq Sections
BY SectionNames DEF BusinessSections, TechnicalSections

LEMMA LoadedStays ==
    ASSUME SalonsConfigured, SalonsConfigured', Counted, NEW l, LoadedOK(l)
    PROVE  LoadedOK(l)'
<1>1. CASE l = NotLoaded
  BY <1>1 DEF LoadedOK
<1>2. CASE l \in LoadedRows
  BY <1>1, <1>2, LoadedSections DEF LoadedRows, SalonsConfigured, Salons, Counted, LoadedOK
<1> QED BY <1>1, <1>2 DEF LoadedOK

LEMMA ClientsStand ==
    ASSUME SalonsConfigured, SalonsConfigured', Counted, ClientsInformed, UNCHANGED loaded
    PROVE  ClientsInformed'
<1>1. ASSUME NEW a \in Admins PROVE LoadedOK(loaded[a])'
  <2>1. PICK l : l = loaded[a]
    OBVIOUS
  <2>2. LoadedOK(l)'
    BY <2>1, LoadedStays DEF ClientsInformed
  <2> QED BY <2>1, <2>2 DEF LoadedOK
<1> QED BY <1>1 DEF ClientsInformed

-----------------------------------------------------------------------------
(* What a transfer was planned from.                                       *)

SelectionBundles(sel) ==
    {b \in [Scoped(sel) -> Values] : \A x \in Scoped(sel) : b[x] \in SectionValues[x]}
Bundles == UNION {SelectionBundles(sel) : sel \in Selections}
FenceMaps == {<<>>} \cup UNION {[FenceRows(sel) -> Nat] : sel \in Selections}
TransferSteps == {"source", "sourceFences", "target", "targetFences", "hours", "planned"}

RunRows == [status : {"previewed", "applied"}, tenant : BOOLEAN, sel : Selections,
            bundle : Bundles,
            fingerprint : Selections \X Bundles \X FenceMaps \X FenceMaps,
            authority : AuthorityRows, sourceFences : FenceMaps, targetFences : FenceMaps]
PreparedRows == [step : TransferSteps, kind : [preview : Nat], sel : Selections,
                 upload : Uploads \cup {<<>>}, bundle : Bundles \cup {<<>>},
                 sourceFences : FenceMaps, target : Configurations, authority : AuthorityRows,
                 publishable : BOOLEAN, targetFences : FenceMaps, unavailable : BOOLEAN]

(* Versions that were read are not ahead of the ones there are.            *)
Seen(s, sel, fences) ==
    /\ fences \in [FenceRows(sel) -> Nat]
    /\ \A x \in FenceRows(sel) : fences[x] <= vers[s][x]

RunOK(run) ==
    /\ Seen("target", run.sel, run.targetFences)
    /\ run.tenant => Seen("source", run.sel, run.sourceFences)
    /\ run.authority.version <= authorityOf["target"].version

(* What was read since a preview is what is there, or a version has moved  *)
(* on from the preview's.                                                  *)
StillThere(s, sel, fences, values) ==
    \A x \in Scoped(sel) : fences[x] < vers[s][x] \/ values[x] = conf[s][x]
AuthorityStillThere(run, authority) ==
    \/ run.authority.version < authorityOf["target"].version
    \/ authority = authorityOf["target"]

Exported(p) == p.step # "source"
SourceSeen(p) == p.step \in {"target", "targetFences", "hours", "planned"}
TargetRead(p) == p.step \in {"targetFences", "hours", "planned"}
TargetSeen(p) == p.step \in {"hours", "planned"}

PlannedFrom(p, run) ==
    /\ run.sel = p.sel /\ run.tenant = (p.upload = <<>>)
    /\ Exported(p) /\ p.upload = <<>> /\ ~ p.unavailable =>
          StillThere("source", p.sel, run.sourceFences, p.bundle)
    /\ TargetRead(p) => /\ StillThere("target", p.sel, run.targetFences, p.target)
                        /\ AuthorityStillThere(run, p.authority)
PreparedOK(p) ==
    /\ p.authority.version <= authorityOf["target"].version
    /\ p.upload # <<>> => Scoped(p.sel) \subseteq DOMAIN p.upload
    /\ Exported(p) => p.bundle \in SelectionBundles(p.sel) /\ (p.unavailable => "hours" \in p.sel)
    /\ SourceSeen(p) /\ p.upload = <<>> => Seen("source", p.sel, p.sourceFences)
    /\ TargetSeen(p) => Seen("target", p.sel, p.targetFences)
    /\ p.kind.preview # 0 => /\ p.kind.preview \in DOMAIN transfer
                             /\ PlannedFrom(p, transfer[p.kind.preview])

RunsHold == transfer \in Seq(RunRows) /\ \A i \in DOMAIN transfer : RunOK(transfer[i])
PreparedHold ==
    /\ prepared \in [TransferRequests -> PreparedRows \cup {IdleTransfer}]
    /\ \A r \in TransferRequests : prepared[r] # IdleTransfer => PreparedOK(prepared[r])

LEMMA RowsOfSelections ==
    ASSUME NEW sel \in Selections
    PROVE  /\ Scoped(sel) \subseteq FenceRows(sel) /\ FenceRows(sel) \subseteq Sections
           /\ "hours" \in Scoped(sel) <=> "hours" \in sel
           /\ [FenceRows(sel) -> Nat] \subseteq FenceMaps
           /\ SelectionBundles(sel) \subseteq Bundles
<1>1. sel \subseteq Sections
  BY ConfigurationConstants
<1> QED BY <1>1, SectionNames DEF Scoped, FenceRows, FenceMaps, Bundles

LEMMA SeenStays ==
    ASSUME SalonsConfigured, SalonsConfigured', Counted, NEW s \in Salons,
           NEW sel \in Selections, NEW fences, Seen(s, sel, fences)
    PROVE  Seen(s, sel, fences)'
<1>1. ASSUME NEW x \in FenceRows(sel) PROVE fences[x] <= vers'[s][x]
  BY <1>1, RowsOfSelections DEF Seen, SalonsConfigured, Counted
<1> QED BY <1>1 DEF Seen

LEMMA ThereStays ==
    ASSUME SalonsConfigured, SalonsConfigured', Counted, NEW s \in Salons,
           NEW sel \in Selections, NEW fences, NEW values, Seen(s, sel, fences),
           StillThere(s, sel, fences, values)
    PROVE  StillThere(s, sel, fences, values)'
<1>1. ASSUME NEW x \in Scoped(sel)
      PROVE  fences[x] < vers'[s][x] \/ values[x] = conf'[s][x]
  <2>1. x \in Sections /\ x \in FenceRows(sel)
    BY RowsOfSelections
  <2>2. /\ fences[x] \in Nat /\ vers[s][x] \in Nat /\ vers'[s][x] \in Nat
        /\ fences[x] <= vers[s][x] /\ vers[s][x] <= vers'[s][x]
        /\ conf'[s][x] = conf[s][x] \/ vers[s][x] < vers'[s][x]
        /\ fences[x] < vers[s][x] \/ values[x] = conf[s][x]
    BY <2>1 DEF Seen, StillThere, SalonsConfigured, Counted
  <2> QED BY <2>2
<1> QED BY <1>1 DEF StillThere

LEMMA AuthorityStays ==
    ASSUME SalonsConfigured, SalonsConfigured', Counted
    PROVE  /\ authorityOf["target"].version \in Nat /\ authorityOf'["target"].version \in Nat
           /\ authorityOf["target"].version <= authorityOf'["target"].version
           /\ \/ authorityOf'["target"] = authorityOf["target"]
              \/ authorityOf["target"].version < authorityOf'["target"].version
<1>1. authorityOf["target"] \in AuthorityRows /\ authorityOf'["target"] \in AuthorityRows
  BY DEF SalonsConfigured, Salons
<1>2. \/ authorityOf'["target"] = authorityOf["target"]
      \/ authorityOf["target"].version < authorityOf'["target"].version
  BY DEF Counted, Salons
<1> QED BY <1>1, <1>2 DEF AuthorityRows

LEMMA RunStays ==
    ASSUME SalonsConfigured, SalonsConfigured', Counted, NEW run \in RunRows, RunOK(run)
    PROVE  RunOK(run)'
<1>1. run.sel \in Selections /\ run.authority.version \in Nat
  BY DEF RunRows, AuthorityRows
<1>2. Seen("target", run.sel, run.targetFences)'
  BY <1>1, SeenStays DEF RunOK, Salons
<1>3. run.tenant => Seen("source", run.sel, run.sourceFences)'
  BY <1>1, SeenStays DEF RunOK, Salons
<1>4. run.authority.version <= authorityOf'["target"].version
  BY <1>1, AuthorityStays DEF RunOK
<1> QED BY <1>2, <1>3, <1>4 DEF RunOK

(* The runs that are there stay, with what they were planned from.         *)
SameRun(old, new) ==
    /\ new.sel = old.sel /\ new.tenant = old.tenant /\ new.authority = old.authority
    /\ new.sourceFences = old.sourceFences /\ new.targetFences = old.targetFences
RunsExtended ==
    \A i \in DOMAIN transfer : i \in DOMAIN transfer' /\ SameRun(transfer[i], transfer'[i])

LEMMA PlannedStays ==
    ASSUME SalonsConfigured, SalonsConfigured', Counted, NEW p \in PreparedRows,
           NEW run \in RunRows, RunOK(run), PlannedFrom(p, run), NEW new, SameRun(run, new)
    PROVE  PlannedFrom(p, new)'
<1>1. p.sel \in Selections /\ run.sel = p.sel /\ run.tenant = (p.upload = <<>>)
  BY DEF PreparedRows, PlannedFrom
<1>2. Exported(p) /\ p.upload = <<>> /\ ~ p.unavailable =>
         StillThere("source", p.sel, run.sourceFences, p.bundle)'
  BY <1>1, ThereStays DEF RunOK, PlannedFrom, Salons
<1>3. TargetRead(p) => StillThere("target", p.sel, run.targetFences, p.target)'
  BY <1>1, ThereStays DEF RunOK, PlannedFrom, Salons
<1>4. TargetRead(p) => AuthorityStillThere(run, p.authority)'
  BY AuthorityStays DEF RunRows, AuthorityRows, RunOK, PlannedFrom, AuthorityStillThere
<1>5. /\ new.sel = run.sel /\ new.tenant = run.tenant /\ new.authority = run.authority
      /\ new.sourceFences = run.sourceFences /\ new.targetFences = run.targetFences
  BY DEF SameRun
<1> QED BY <1>1, <1>2, <1>3, <1>4, <1>5 DEF PlannedFrom, StillThere, AuthorityStillThere

LEMMA PreparedStays ==
    ASSUME SalonsConfigured, SalonsConfigured', Counted, RunsHold, RunsExtended,
           NEW p \in PreparedRows, PreparedOK(p)
    PROVE  PreparedOK(p)'
<1>1. p.sel \in Selections /\ p.authority.version \in Nat
  BY DEF PreparedRows, AuthorityRows
<1>2. p.authority.version <= authorityOf'["target"].version
  BY <1>1, AuthorityStays DEF PreparedOK
<1>3. SourceSeen(p) /\ p.upload = <<>> => Seen("source", p.sel, p.sourceFences)'
  BY <1>1, SeenStays DEF PreparedOK, Salons
<1>4. TargetSeen(p) => Seen("target", p.sel, p.targetFences)'
  BY <1>1, SeenStays DEF PreparedOK, Salons
<1>5. ASSUME p.kind.preview # 0
      PROVE  p.kind.preview \in DOMAIN transfer' /\ PlannedFrom(p, transfer[p.kind.preview])'
  <2>1. PICK i \in DOMAIN transfer : i = p.kind.preview
    BY <1>5 DEF PreparedOK
  <2>2. PICK run \in RunRows : run = transfer[i]
    BY DEF RunsHold
  <2>3. RunOK(run) /\ PlannedFrom(p, run)
    BY <1>5, <2>1, <2>2 DEF RunsHold, PreparedOK
  <2>4. PICK new : new = transfer'[i]
    OBVIOUS
  <2>5. i \in DOMAIN transfer' /\ SameRun(run, new)
    BY <2>2, <2>4 DEF RunsExtended
  <2>6. PlannedFrom(p, new)'
    BY <2>3, <2>5, PlannedStays
  <2> QED BY <2>1, <2>4, <2>5, <2>6 DEF PlannedFrom
<1> QED BY <1>2, <1>3, <1>4, <1>5 DEF PreparedOK

-----------------------------------------------------------------------------
(* The records of the target salon, and the invariant.                     *)

ActionRows == [section : {"none", "eligibility"} \cup Sections \cup Kinds]
RecordRows == [kind : Kinds, by : Admins \X ActionKeys, active : BOOLEAN, ai : BOOLEAN,
               archived : BOOLEAN, linked : BOOLEAN, version : Nat, changes : Nat]

KeysTyped == actions \in [Admins -> [ActionKeys -> ActionRows]]
(* A record names the key of its creation, which is used.                  *)
KeyIsUsed(row) == actions[row.by[1]][row.by[2]] # NoAction
RecordsHold ==
    /\ records \in Seq(RecordRows) /\ RecordsAreSound
    /\ \A n \in DOMAIN records : KeyIsUsed(records[n])

ConfigInv ==
    /\ SalonsConfigured /\ OnePhraseOneOwner /\ editsLeft \in 0 .. MaxConfigEdits
    /\ ClientsInformed /\ KeysTyped /\ RecordsHold
    /\ RunsHold /\ PreparedHold

(* What a step never does: overwrite what its author has not seen, and     *)
(* publish a salon that is not ready.                                      *)
Informed ==
    /\ \A r \in TransferRequests : AppliesToStep(r) =>
         /\ \A x \in Scoped(prepared[r].sel) : prepared[r].target[x] = conf["target"][x]
         /\ prepared[r].upload = <<>> =>
                prepared[r].bundle = Bundle(conf["source"], prepared[r].sel)
         /\ prepared[r].authority = authorityOf["target"]
    /\ \A a \in Admins : actions'[a] # actions[a] /\ loaded[a] # NotLoaded /\ conf' # conf =>
         conf["target"][loaded[a].section] = loaded[a].value
Ready ==
    \A s \in Salons : ~ conf[s].public /\ conf'[s].public =>
        /\ facts'[s].bookable
        /\ authorityOf'[s].name = "manleai_calendar" => conf'[s].hours # NoHours /\ facts'[s].activated
        /\ authorityOf'[s].name = "external_provider" => facts'[s].provider
ConfigKept == ConfigInv' /\ Informed /\ Ready

LEMMA RunsStand ==
    ASSUME SalonsConfigured, SalonsConfigured', Counted, RunsHold, UNCHANGED transfer
    PROVE  RunsHold' /\ RunsExtended
<1>1. ASSUME NEW i \in DOMAIN transfer PROVE RunOK(transfer[i])'
  <2>1. PICK run \in RunRows : run = transfer[i]
    BY DEF RunsHold
  <2>2. RunOK(run)'
    BY <2>1, RunStays DEF RunsHold
  <2> QED BY <2>1, <2>2 DEF RunOK
<1> QED BY <1>1 DEF RunsHold, RunsExtended, SameRun

(* Requests that a step does not touch stay as they are.                   *)
LEMMA OthersStay ==
    ASSUME SalonsConfigured, SalonsConfigured', Counted, RunsHold, RunsExtended, PreparedHold,
           NEW r \in TransferRequests, prepared'[r] = prepared[r], prepared'[r] # IdleTransfer
    PROVE  PreparedOK(prepared[r])'
<1>1. PICK p \in PreparedRows : p = prepared[r]
  BY DEF PreparedHold
<1>2. PreparedOK(p)'
  BY <1>1, PreparedStays DEF PreparedHold
<1> QED BY <1>1, <1>2 DEF PreparedOK, PlannedFrom

LEMMA TransfersStand ==
    ASSUME SalonsConfigured, SalonsConfigured', Counted, RunsHold, PreparedHold,
           UNCHANGED <<transfer, prepared>>
    PROVE  RunsHold' /\ PreparedHold'
<1>1. RunsHold' /\ RunsExtended
  BY RunsStand
<1>2. \A r \in TransferRequests : prepared'[r] # IdleTransfer => PreparedOK(prepared[r])'
  BY <1>1, OthersStay
<1> QED BY <1>1, <1>2 DEF PreparedHold

LEMMA RecordsStand ==
    ASSUME KeysTyped, RecordsHold, UNCHANGED <<records, actions>>
    PROVE  KeysTyped' /\ RecordsHold'
BY DEF KeysTyped, RecordsHold, RecordsAreSound, KeyIsUsed

(* A writer without a version.                                             *)
LEMMA ConfigStands ==
    ASSUME ConfigInv, SalonsConfigured', Counted, OnePhraseOneOwner', Ready,
           editsLeft' \in 0 .. MaxConfigEdits, ClientsKept, RecordsKept
    PROVE  ConfigKept
<1>1. ClientsInformed'
  BY ClientsStand DEF ConfigInv, ClientsKept
<1>2. KeysTyped' /\ RecordsHold'
  BY RecordsStand DEF ConfigInv, ClientsKept, RecordsKept
<1>3. RunsHold' /\ PreparedHold'
  BY TransfersStand DEF ConfigInv, ClientsKept
<1>4. Informed
  BY DEF Informed, AppliesToStep, ClientsKept
<1> QED BY <1>1, <1>2, <1>3, <1>4 DEF ConfigInv, ConfigKept

LEMMA EditsCounted ==
    ASSUME editsLeft \in 0 .. MaxConfigEdits, Edited
    PROVE  editsLeft' \in 0 .. MaxConfigEdits
BY ConfigurationConstants DEF Edited

(* A page that goes live in a write that leaves the readiness alone.       *)
LEMMA PublishedReady ==
    ASSUME SalonsConfigured, NEW s \in Salons, NEW new \in Configurations, Written(s, new),
           UNCHANGED authorityOf, NEW seen, CanPublish(s, seen),
           authorityOf[s].name = "manleai_calendar" =>
              /\ seen.hours = new.hours
              /\ \A x \in {"profile", "hours", "consultation"} : new[x] = conf[s][x],
           authorityOf[s].name = "external_provider" => new["integrations"] = conf[s]["integrations"]
    PROVE  Ready
<1> DEFINE changed == {x \in Sections : new[x] # conf[s][x]}
<1>1. /\ conf'[s] = new /\ facts'[s] = Unsettled(facts[s], changed)
      /\ \A t \in Salons \ {s} : conf'[t] = conf[t]
  BY WrittenEffect
<1>2. facts[s] \in FactRows
  BY DEF SalonsConfigured
<1>3. authorityOf[s].name \in Authorities
  BY DEF SalonsConfigured, AuthorityRows
<1>4. facts'[s].bookable
  BY <1>1, <1>2, UnsettledLeaves DEF CanPublish
<1>5. ASSUME authorityOf[s].name = "manleai_calendar"
      PROVE  new.hours # NoHours /\ facts'[s].activated
  BY <1>1, <1>2, <1>5, UnsettledLeaves DEF CanPublish
<1>6. ASSUME authorityOf[s].name = "external_provider" PROVE facts'[s].provider
  BY <1>1, <1>2, <1>6, UnsettledLeaves DEF CanPublish
<1> QED BY <1>1, <1>4, <1>5, <1>6 DEF Ready

LEMMA NothingPublished ==
    ASSUME \A s \in Salons : conf'[s].public => conf[s].public
    PROVE  Ready
BY DEF Ready

-----------------------------------------------------------------------------
(* The owner's routes.                                                     *)

(* One section of one salon is written.                                    *)
LEMMA SectionWritten ==
    ASSUME ConfigInv, NEW s \in Salons, NEW x \in Sections, NEW v \in SectionValues[x],
           Written(s, [conf[s] EXCEPT ![x] = v]), UNCHANGED authorityOf,
           x = "public" /\ v => CanPublish(s, conf[s]),
           x = "aliases" /\ v => ~ conf[s].categories,
           x = "categories" /\ v => ~ conf[s].aliases
    PROVE  /\ SalonsConfigured' /\ Counted /\ OnePhraseOneOwner' /\ Ready
           /\ [conf[s] EXCEPT ![x] = v] \in Configurations
<1> DEFINE new == [conf[s] EXCEPT ![x] = v]
<1>1. SalonsConfigured /\ OnePhraseOneOwner /\ conf[s] \in Configurations
  BY DEF ConfigInv, SalonsConfigured
<1>2. /\ new \in Configurations /\ new[x] = v
      /\ \A y \in Sections \ {x} : new[y] = conf[s][y]
  BY <1>1, SectionSet
<1>3. Written(s, new)
  OBVIOUS
<1> HIDE DEF new
<1>4. /\ SalonsConfigured' /\ Counted /\ conf'[s] = new
      /\ \A t \in Salons \ {s} : conf'[t] = conf[t]
  BY <1>1, <1>2, <1>3, WrittenEffect
<1>5. ~ (new["aliases"] /\ new["categories"])
  BY <1>1, <1>2, SectionNames DEF OnePhraseOneOwner
<1>6. OnePhraseOneOwner'
  BY <1>1, <1>4, <1>5 DEF OnePhraseOneOwner
<1>7. CASE x = "public" /\ v
  <2>1. /\ new.hours = conf[s].hours /\ new["integrations"] = conf[s]["integrations"]
        /\ \A y \in {"profile", "hours", "consultation"} : new[y] = conf[s][y]
    BY <1>2, <1>7, SectionNames
  <2>2. Ready
    BY <1>1, <1>2, <1>3, <1>7, <2>1, PublishedReady
  <2> QED BY <1>2, <1>4, <1>6, <2>2 DEF new
<1>8. CASE ~ (x = "public" /\ v)
  BY <1>2, <1>4, <1>6, <1>8, SectionNames, NothingPublished DEF new
<1> QED BY <1>7, <1>8

LEMMA OwnerWrites ==
    ASSUME ConfigInv, NEW s \in Salons,
           \/ \E x \in SectionValues.ai : UpdateSettings(s, x)
           \/ \E b \in BOOLEAN : \/ UpdatePublicCatalogSettings(s, b)
                                 \/ UpsertServiceAlias(s, b) \/ UpsertCategoryAlias(s, b)
           \/ \E t \in Texts : UpdateKnowledge(s, t)
    PROVE  ConfigKept
<1>1. Edited /\ ClientsKept /\ RecordsKept /\ UNCHANGED authorityOf
  BY DEF UpdateSettings, UpdatePublicCatalogSettings, UpsertServiceAlias, UpsertCategoryAlias,
     UpdateKnowledge
<1>2. \E x \in Sections : \E v \in SectionValues[x] :
         /\ Written(s, [conf[s] EXCEPT ![x] = v])
         /\ x = "public" /\ v => CanPublish(s, conf[s])
         /\ x = "aliases" /\ v => ~ conf[s].categories
         /\ x = "categories" /\ v => ~ conf[s].aliases
  BY SectionNames DEF UpdateSettings, UpdatePublicCatalogSettings, SectionValues,
     UpsertServiceAlias, FreeForService, UpsertCategoryAlias, FreeForCategory, UpdateKnowledge
<1>3. SalonsConfigured' /\ Counted /\ OnePhraseOneOwner' /\ Ready
  BY <1>1, <1>2, SectionWritten
<1>4. editsLeft' \in 0 .. MaxConfigEdits
  BY <1>1, EditsCounted DEF ConfigInv
<1> QED BY <1>1, <1>3, <1>4, ConfigStands

LEMMA UpdateKeepsSalon ==
    ASSUME ConfigInv, NEW s \in Salons, NEW text \in Texts, NEW enabled \in BOOLEAN,
           Update(s, text, enabled)
    PROVE  ConfigKept
<1> DEFINE new == [conf[s] EXCEPT !.profile = text, !.aiEnabled = enabled]
<1>1. /\ SalonsConfigured /\ OnePhraseOneOwner /\ conf[s] \in Configurations
      /\ Edited /\ Written(s, new) /\ ClientsKept /\ RecordsKept /\ UNCHANGED authorityOf
  BY DEF ConfigInv, SalonsConfigured, Update
<1>2. PICK mid : mid = [conf[s] EXCEPT !["profile"] = text]
  OBVIOUS
<1>3. mid \in Configurations /\ \A y \in Sections \ {"profile"} : mid[y] = conf[s][y]
  BY <1>1, <1>2, SectionNames, SectionSet DEF SectionValues
<1>4. new = [mid EXCEPT !["aiEnabled"] = enabled]
  BY <1>2
<1>5. new \in Configurations /\ \A y \in Sections \ {"aiEnabled"} : new[y] = mid[y]
  <2>1. "aiEnabled" \in Sections /\ enabled \in SectionValues["aiEnabled"]
    BY SectionNames DEF SectionValues
  <2> HIDE DEF new
  <2>2. mid \in Configurations
    BY <1>3
  <2>3. ASSUME NEW x \in Sections, NEW v \in SectionValues[x]
        PROVE [mid EXCEPT ![x] = v] \in Configurations
    BY <2>2, SectionSet
  <2>4. ASSUME NEW x \in Sections, NEW v \in SectionValues[x]
        PROVE \A y \in Sections \ {x} : [mid EXCEPT ![x] = v][y] = mid[y]
    BY <2>2, SectionSet
  <2>5. [mid EXCEPT !["aiEnabled"] = enabled] \in Configurations
    BY <2>1, <2>3
  <2>6. \A y \in Sections \ {"aiEnabled"} : [mid EXCEPT !["aiEnabled"] = enabled][y] = mid[y]
    BY <2>1, <2>4
  <2> QED BY <1>4, <2>5, <2>6
<1> HIDE DEF new
<1>6. /\ new["public"] = conf[s]["public"] /\ new["aliases"] = conf[s]["aliases"]
      /\ new["categories"] = conf[s]["categories"]
  BY <1>3, <1>5, SectionNames
<1>7. /\ SalonsConfigured' /\ Counted /\ conf'[s] = new
      /\ \A t \in Salons \ {s} : conf'[t] = conf[t]
  BY <1>1, <1>5, WrittenEffect
<1>8. OnePhraseOneOwner' /\ Ready
  BY <1>1, <1>6, <1>7, NothingPublished DEF OnePhraseOneOwner
<1>9. editsLeft' \in 0 .. MaxConfigEdits
  BY <1>1, EditsCounted DEF ConfigInv
<1> QED BY <1>1, <1>7, <1>8, <1>9, ConfigStands

-----------------------------------------------------------------------------
(* The world around it.                                                    *)

LEMMA SwitchKeeps ==
    ASSUME ConfigInv, NEW s \in Salons, NEW name \in Authorities, SwitchAuthority(s, name)
    PROVE  ConfigKept
<1>1. /\ SalonsConfigured /\ Edited /\ ClientsKept /\ RecordsKept
      /\ UNCHANGED <<conf, vers, facts>>
  BY DEF ConfigInv, SwitchAuthority
<1> DEFINE row == [name |-> name, version |-> authorityOf[s].version + 1]
<1>2. authorityOf' = [authorityOf EXCEPT ![s] = row]
  BY DEF SwitchAuthority
<1>3. row \in AuthorityRows /\ authorityOf[s].version < row.version
  BY <1>1 DEF SalonsConfigured, AuthorityRows
<1> HIDE DEF row
<1>4. /\ authorityOf' \in [Salons -> AuthorityRows] /\ authorityOf'[s] = row
      /\ \A t \in Salons \ {s} : authorityOf'[t] = authorityOf[t]
  BY <1>1, <1>2, <1>3 DEF SalonsConfigured
<1>5. SalonsConfigured'
  BY <1>1, <1>4 DEF SalonsConfigured
<1>6. \A t \in Salons, x \in Sections : vers[t][x] \in Nat
  BY <1>1 DEF SalonsConfigured
<1>7. Counted
  BY <1>1, <1>3, <1>4, <1>6 DEF Counted
<1>8. OnePhraseOneOwner' /\ Ready
  BY <1>1 DEF ConfigInv, OnePhraseOneOwner, Ready
<1>9. editsLeft' \in 0 .. MaxConfigEdits
  BY <1>1, EditsCounted DEF ConfigInv
<1> QED BY <1>1, <1>5, <1>7, <1>8, <1>9, ConfigStands

LEMMA FactsKeep ==
    ASSUME ConfigInv, NEW s \in Salons, BecomesReady(s) \/ LosesServices(s)
    PROVE  ConfigKept
<1>1. SalonsConfigured /\ ClientsKept /\ RecordsKept /\ UNCHANGED <<conf, vers, authorityOf>>
  BY DEF ConfigInv, BecomesReady, LosesServices
<1>2. facts' \in [Salons -> FactRows]
  <2>1. CASE BecomesReady(s)
    BY <1>1, <2>1 DEF FactRows, BecomesReady, SalonsConfigured
  <2>2. CASE LosesServices(s)
    BY <1>1, <2>2 DEF SalonsConfigured, FactRows, LosesServices
  <2> QED BY <2>1, <2>2
<1>3. SalonsConfigured' /\ Counted
  BY <1>1, <1>2, CountedWhenLeft DEF SalonsConfigured
<1>4. OnePhraseOneOwner' /\ Ready
  BY <1>1 DEF ConfigInv, OnePhraseOneOwner, Ready
<1>5. editsLeft' \in 0 .. MaxConfigEdits
  BY EditsCounted DEF ConfigInv, BecomesReady, LosesServices
<1> QED BY <1>1, <1>3, <1>4, <1>5, ConfigStands

-----------------------------------------------------------------------------
(* The APIs with expected versions.                                        *)

LEMMA LoadKeeps ==
    ASSUME ConfigInv, NEW a \in Admins, NEW x, Load(a, x)
    PROVE  ConfigKept
<1> DEFINE row == [section |-> x, value |-> conf["target"][x], version |-> vers["target"][x]]
<1>1. /\ SalonsConfigured /\ ClientsInformed /\ x \in BusinessSections \cup TechnicalSections
      /\ UNCHANGED <<conf, vers, authorityOf, facts, actions, transfer, prepared, editsLeft,
                     records, eligible>>
  BY DEF ConfigInv, Load, RecordsKept
<1>2. loaded' = [loaded EXCEPT ![a] = row]
  BY DEF Load
<1>3. SalonsConfigured' /\ Counted
  BY <1>1, CountedWhenLeft DEF SalonsConfigured
<1>4. conf["target"][x] \in Values /\ vers["target"][x] \in Nat
  BY <1>1, LoadedSections DEF Salons, SalonsConfigured, Configurations
<1>5. row \in LoadedRows
  BY <1>1, <1>4 DEF LoadedRows
<1>6. row.section = x /\ row.value = conf["target"][x] /\ row.version = vers["target"][x]
  OBVIOUS
<1> HIDE DEF row
<1>7. LoadedOK(row)
  BY <1>4, <1>5, <1>6 DEF LoadedOK
<1>8. /\ loaded' \in [Admins -> LoadedRows \cup {NotLoaded}] /\ loaded'[a] = row
      /\ \A b \in Admins \ {a} : loaded'[b] = loaded[b]
  BY <1>1, <1>2, <1>5 DEF ClientsInformed
<1>9. ClientsInformed'
  BY <1>1, <1>7, <1>8 DEF ClientsInformed, LoadedOK
<1>10. RunsHold' /\ PreparedHold' /\ KeysTyped' /\ RecordsHold'
  BY <1>1, <1>3, TransfersStand, RecordsStand DEF ConfigInv
<1>11. Informed /\ Ready
  BY <1>1 DEF Informed, AppliesToStep, Ready
<1>12. OnePhraseOneOwner' /\ editsLeft' \in 0 .. MaxConfigEdits
  BY <1>1 DEF ConfigInv, OnePhraseOneOwner
<1> QED BY <1>3, <1>9, <1>10, <1>11, <1>12 DEF ConfigInv, ConfigKept

(* The key of a mutation is recorded.                                      *)
LEMMA KeyRecorded ==
    ASSUME KeysTyped, NEW a \in Admins, NEW k \in ActionKeys, NEW name,
           name \in {"eligibility"} \cup Sections \cup Kinds,
           actions' = [actions EXCEPT ![a][k] = [section |-> name]]
    PROVE  /\ KeysTyped' /\ actions'[a][k] # NoAction
           /\ \A b \in Admins \ {a} : actions'[b] = actions[b]
           /\ \A b \in Admins, j \in ActionKeys :
                 actions[b][j] # NoAction => actions'[b][j] # NoAction
<1> DEFINE row == [section |-> name]
           keys == [actions[a] EXCEPT ![k] = row]
<1>1. name # "none"
  BY SectionNames DEF Kinds
<1>2. row \in ActionRows /\ row # NoAction
  BY <1>1 DEF ActionRows, NoAction
<1>3. actions' = [actions EXCEPT ![a] = keys]
  BY DEF KeysTyped
<1> HIDE DEF row
<1>4. keys \in [ActionKeys -> ActionRows] /\ keys[k] = row
      /\ \A j \in ActionKeys \ {k} : keys[j] = actions[a][j]
  BY <1>2 DEF KeysTyped
<1> HIDE DEF keys
<1>5. KeysTyped' /\ actions'[a] = keys /\ \A b \in Admins \ {a} : actions'[b] = actions[b]
  BY <1>3, <1>4 DEF KeysTyped
<1> QED BY <1>2, <1>4, <1>5

(* Records that are not touched keep their keys.                           *)
LEMMA KeysStayUsed ==
    ASSUME RecordsHold, UNCHANGED records,
           \A b \in Admins, j \in ActionKeys :
              actions[b][j] # NoAction => actions'[b][j] # NoAction
    PROVE  RecordsHold'
<1>1. ASSUME NEW n \in DOMAIN records PROVE KeyIsUsed(records[n])'
  <2>1. PICK row \in RecordRows : row = records[n]
    BY DEF RecordsHold
  <2>2. row.by[1] \in Admins /\ row.by[2] \in ActionKeys
    BY DEF RecordRows
  <2> QED BY <2>1, <2>2 DEF RecordsHold, KeyIsUsed
<1> QED BY <1>1 DEF RecordsHold, RecordsAreSound

LEMMA MutationKeeps ==
    ASSUME ConfigInv, NEW a \in Admins, NEW k \in ActionKeys, NEW v,
           NEW x \in BusinessSections \cup TechnicalSections, loaded[a].section = x,
           applyMutation(a, k, v)
    PROVE  ConfigKept
<1>1. /\ SalonsConfigured /\ ClientsInformed /\ x \in Sections /\ v \in SectionValues[x]
      /\ Edited /\ VersionMatches(a) /\ Allowed(x, v)
      /\ Written("target", [conf["target"] EXCEPT ![x] = v])
      /\ actions' = [actions EXCEPT ![a][k] = [section |-> x]]
      /\ loaded' = [loaded EXCEPT ![a] = NotLoaded]
      /\ UNCHANGED <<authorityOf, transfer, prepared, records, eligible>>
  BY LoadedSections DEF ConfigInv, applyMutation, RecordsKept
<1>2. SalonsConfigured' /\ Counted /\ OnePhraseOneOwner' /\ Ready
  BY <1>1, SectionWritten DEF BusinessSections, TechnicalSections, Allowed, FreeForCategory,
     Salons
<1>3. ClientsInformed'
  <2>1. /\ loaded' \in [Admins -> LoadedRows \cup {NotLoaded}] /\ loaded'[a] = NotLoaded
        /\ \A b \in Admins \ {a} : loaded'[b] = loaded[b]
    BY <1>1 DEF ClientsInformed
  <2>2. ASSUME NEW b \in Admins PROVE LoadedOK(loaded[b])'
    <3>1. CASE b = a
      BY <2>1, <3>1 DEF LoadedOK
    <3>2. CASE b # a
      <4>1. PICK l : l = loaded[b]
        OBVIOUS
      <4>2. LoadedOK(l)'
        BY <1>1, <1>2, <4>1, LoadedStays DEF ClientsInformed
      <4> QED BY <2>1, <3>2, <4>1, <4>2 DEF LoadedOK
    <3> QED BY <3>1, <3>2
  <2> QED BY <2>1, <2>2 DEF ClientsInformed
<1>4. /\ KeysTyped' /\ RecordsHold'
      /\ \A b \in Admins \ {a} : actions'[b] = actions[b]
  BY <1>1, KeyRecorded, KeysStayUsed DEF ConfigInv
<1>5. RunsHold' /\ PreparedHold'
  BY <1>1, <1>2, TransfersStand DEF ConfigInv
<1>6. loaded[a] # NotLoaded => conf["target"][x] = loaded[a].value
  <2>1. PICK l : l = loaded[a]
    OBVIOUS
  <2>2. LoadedOK(l) /\ l.section = x /\ l.version = vers["target"][x]
    BY <1>1, <2>1 DEF ClientsInformed, VersionMatches
  <2>3. vers["target"][x] \in Nat
    BY <1>1 DEF SalonsConfigured, Salons
  <2> QED BY <2>1, <2>2, <2>3 DEF LoadedOK
<1>7. Informed
  BY <1>1, <1>4, <1>6 DEF Informed, AppliesToStep
<1>8. editsLeft' \in 0 .. MaxConfigEdits
  BY <1>1, EditsCounted DEF ConfigInv
<1> QED BY <1>2, <1>3, <1>4, <1>5, <1>7, <1>8 DEF ConfigInv, ConfigKept

-----------------------------------------------------------------------------
(* Services, staff and customers.                                          *)

(* A step about the records.                                               *)
LEMMA RecordsChange ==
    ASSUME ConfigInv, RecordsOnly, KeysTyped', RecordsHold'
    PROVE  ConfigKept
<1>1. /\ SalonsConfigured
      /\ UNCHANGED <<conf, vers, authorityOf, facts, loaded, transfer, prepared, editsLeft>>
  BY DEF ConfigInv, RecordsOnly
<1>2. SalonsConfigured' /\ Counted
  BY <1>1, CountedWhenLeft DEF SalonsConfigured
<1>3. ClientsInformed' /\ RunsHold' /\ PreparedHold'
  BY <1>1, <1>2, ClientsStand, TransfersStand DEF ConfigInv
<1>4. Informed /\ Ready /\ OnePhraseOneOwner' /\ editsLeft' \in 0 .. MaxConfigEdits
  BY <1>1 DEF ConfigInv, OnePhraseOneOwner, Informed, AppliesToStep, Ready
<1> QED BY <1>2, <1>3, <1>4 DEF ConfigInv, ConfigKept

(* A record is replaced by one of the same creation.                       *)
LEMMA RecordReplaced ==
    ASSUME RecordsHold, NEW n \in DOMAIN records, NEW new \in RecordRows,
           new.by = records[n].by, new.archived => ~ new.active /\ ~ new.ai,
           records' = [records EXCEPT ![n] = new],
           \A b \in Admins, j \in ActionKeys :
              actions[b][j] # NoAction => actions'[b][j] # NoAction
    PROVE  RecordsHold'
<1>1. /\ records' \in Seq(RecordRows) /\ DOMAIN records' = DOMAIN records /\ records'[n] = new
      /\ \A m \in DOMAIN records \ {n} : records'[m] = records[m]
  BY DEF RecordsHold
<1>2. \A m \in DOMAIN records : records'[m].by = records[m].by
  BY <1>1
<1>3. RecordsAreSound'
  BY <1>1, <1>2 DEF RecordsHold, RecordsAreSound
<1>4. ASSUME NEW m \in DOMAIN records PROVE KeyIsUsed(records[m])'
  <2>1. PICK row \in RecordRows : row = records[m]
    BY DEF RecordsHold
  <2>2. row.by[1] \in Admins /\ row.by[2] \in ActionKeys
    BY DEF RecordRows
  <2>3. actions[row.by[1]][row.by[2]] # NoAction
    BY <2>1 DEF RecordsHold, KeyIsUsed
  <2> QED BY <1>2, <2>1, <2>2, <2>3 DEF KeyIsUsed
<1> QED BY <1>1, <1>3, <1>4 DEF RecordsHold

LEMMA CreateRecordKeeps ==
    ASSUME ConfigInv, NEW a \in Admins, NEW k \in ActionKeys, NEW kind \in Kinds,
           NEW ai \in BOOLEAN, CreateRecord(a, k, kind, ai)
    PROVE  ConfigKept
<1> DEFINE new == [kind |-> kind, by |-> <<a, k>>, active |-> TRUE, ai |-> ai /\ kind # "customer",
                   archived |-> FALSE, linked |-> FALSE, version |-> 1, changes |-> 0]
<1>1. /\ KeysTyped /\ RecordsHold /\ RecordsOnly /\ actions[a][k] = NoAction
      /\ actions' = [actions EXCEPT ![a][k] = [section |-> kind]]
  BY DEF ConfigInv, CreateRecord, KeyUnused
<1>2. records' = Append(records, new)
  BY DEF CreateRecord
<1>3. new \in RecordRows /\ new.by = <<a, k>> /\ ~ new.archived
  BY DEF RecordRows
<1> HIDE DEF new
<1>4. /\ KeysTyped' /\ actions'[a][k] # NoAction
      /\ \A b \in Admins, j \in ActionKeys : actions[b][j] # NoAction => actions'[b][j] # NoAction
  BY <1>1, KeyRecorded
<1>5. /\ records' \in Seq(RecordRows) /\ Len(records') = Len(records) + 1
      /\ \A m \in DOMAIN records : records'[m] = records[m]
      /\ records'[Len(records) + 1] = new
      /\ DOMAIN records = 1 .. Len(records) /\ DOMAIN records' = 1 .. Len(records')
  BY <1>1, <1>2, <1>3 DEF RecordsHold
<1>6. \A m \in DOMAIN records' : m \in DOMAIN records \/ m = Len(records) + 1
  BY <1>1, <1>5 DEF RecordsHold
<1>7. ASSUME NEW m \in DOMAIN records
      PROVE  /\ records[m].by[1] \in Admins /\ records[m].by[2] \in ActionKeys
             /\ actions[records[m].by[1]][records[m].by[2]] # NoAction
  <2>1. records[m] \in RecordRows /\ KeyIsUsed(records[m])
    BY <1>1 DEF RecordsHold
  <2> QED BY <2>1 DEF RecordRows, KeyIsUsed
<1>8. \A m \in DOMAIN records : records[m].by # <<a, k>>
  BY <1>1, <1>7
<1>9. RecordsAreSound'
  BY <1>1, <1>3, <1>5, <1>6, <1>8 DEF RecordsHold, RecordsAreSound
<1>10. \A m \in DOMAIN records' : KeyIsUsed(records[m])'
  BY <1>3, <1>4, <1>5, <1>6, <1>7 DEF KeyIsUsed
<1>11. RecordsHold'
  BY <1>5, <1>9, <1>10 DEF RecordsHold
<1> QED BY <1>1, <1>4, <1>11, RecordsChange

LEMMA MutateRecordKeeps ==
    ASSUME ConfigInv, NEW a \in Admins, NEW k \in ActionKeys, NEW n \in DOMAIN records,
           NEW active \in BOOLEAN, NEW ai \in BOOLEAN, MutateRecord(a, k, n, active, ai)
    PROVE  ConfigKept
<1>1. KeysTyped /\ RecordsHold /\ RecordsOnly
  BY DEF ConfigInv, MutateRecord
<1>2. PICK r \in RecordRows : r = records[n]
  BY <1>1 DEF RecordsHold
<1>3. /\ ~ r.archived
      /\ records' = [records EXCEPT ![n] = [r EXCEPT !.active = active, !.ai = ai,
                       !.version = r.version + 1, !.changes = r.changes + 1]]
      /\ actions' = [actions EXCEPT ![a][k] = [section |-> r.kind]]
  BY <1>2 DEF MutateRecord, Updatable
<1>4. r = [kind |-> r.kind, by |-> r.by, active |-> r.active, ai |-> r.ai,
           archived |-> r.archived, linked |-> r.linked, version |-> r.version,
           changes |-> r.changes]
  BY DEF RecordRows
<1>5. PICK new : new = [r EXCEPT !.active = active, !.ai = ai, !.version = r.version + 1,
                                 !.changes = r.changes + 1]
  OBVIOUS
<1>6. new = [kind |-> r.kind, by |-> r.by, active |-> active, ai |-> ai,
             archived |-> r.archived, linked |-> r.linked, version |-> r.version + 1,
             changes |-> r.changes + 1]
  BY <1>4, <1>5
<1>7. new \in RecordRows /\ new.by = r.by /\ ~ new.archived
  BY <1>3, <1>6 DEF RecordRows
<1>8. /\ KeysTyped'
      /\ \A b \in Admins, j \in ActionKeys : actions[b][j] # NoAction => actions'[b][j] # NoAction
  BY <1>1, <1>3, KeyRecorded DEF RecordRows
<1>9. RecordsHold'
  BY <1>1, <1>2, <1>3, <1>5, <1>7, <1>8, RecordReplaced
<1> QED BY <1>1, <1>8, <1>9, RecordsChange

LEMMA ArchiveKeeps ==
    ASSUME ConfigInv, NEW a \in Admins, NEW k \in ActionKeys, NEW n \in DOMAIN records,
           ArchiveRecord(a, k, n)
    PROVE  ConfigKept
<1>1. KeysTyped /\ RecordsHold /\ RecordsOnly
  BY DEF ConfigInv, ArchiveRecord
<1>2. PICK r \in RecordRows : r = records[n]
  BY <1>1 DEF RecordsHold
<1>3. /\ records' = [records EXCEPT ![n] = [r EXCEPT !.active = FALSE, !.ai = FALSE,
                       !.archived = TRUE, !.version = r.version + 1, !.changes = r.changes + 1]]
      /\ actions' = [actions EXCEPT ![a][k] = [section |-> r.kind]]
  BY <1>2 DEF ArchiveRecord
<1>4. r = [kind |-> r.kind, by |-> r.by, active |-> r.active, ai |-> r.ai,
           archived |-> r.archived, linked |-> r.linked, version |-> r.version,
           changes |-> r.changes]
  BY DEF RecordRows
<1>5. PICK new : new = [r EXCEPT !.active = FALSE, !.ai = FALSE, !.archived = TRUE,
                                 !.version = r.version + 1, !.changes = r.changes + 1]
  OBVIOUS
<1>6. new = [kind |-> r.kind, by |-> r.by, active |-> FALSE, ai |-> FALSE,
             archived |-> TRUE, linked |-> r.linked, version |-> r.version + 1,
             changes |-> r.changes + 1]
  BY <1>4, <1>5
<1>7. new \in RecordRows /\ new.by = r.by /\ ~ new.active /\ ~ new.ai
  BY <1>6 DEF RecordRows
<1>8. /\ KeysTyped'
      /\ \A b \in Admins, j \in ActionKeys : actions[b][j] # NoAction => actions'[b][j] # NoAction
  BY <1>1, <1>3, KeyRecorded DEF RecordRows
<1>9. RecordsHold'
  BY <1>1, <1>2, <1>3, <1>5, <1>7, <1>8, RecordReplaced
<1> QED BY <1>1, <1>8, <1>9, RecordsChange

LEMMA LinkKeeps ==
    ASSUME ConfigInv, NEW n \in DOMAIN records, LinkRecord(n)
    PROVE  ConfigKept
<1>1. KeysTyped /\ RecordsHold /\ RecordsOnly /\ UNCHANGED actions
  BY DEF ConfigInv, LinkRecord
<1>2. PICK r \in RecordRows : r = records[n]
  BY <1>1 DEF RecordsHold
<1> DEFINE new == [r EXCEPT !.linked = ~ r.linked]
<1>3. records' = [records EXCEPT ![n] = new]
  BY <1>2 DEF LinkRecord
<1>4. /\ new \in RecordRows /\ new.by = r.by /\ new.active = r.active /\ new.ai = r.ai
      /\ new.archived = r.archived
  BY DEF RecordRows
<1> HIDE DEF new
<1>5. new.archived => ~ new.active /\ ~ new.ai
  BY <1>1, <1>2, <1>4 DEF RecordsHold, RecordsAreSound
<1>6. RecordsHold'
  BY <1>1, <1>2, <1>3, <1>4, <1>5, RecordReplaced
<1>7. KeysTyped'
  BY <1>1 DEF KeysTyped
<1> QED BY <1>1, <1>6, <1>7, RecordsChange

LEMMA EligibilityKeeps ==
    ASSUME ConfigInv, NEW a \in Admins, NEW k \in ActionKeys, NEW n, NEW offered,
           ReplaceStaffServiceEligibility(a, k, n, offered)
    PROVE  ConfigKept
<1>1. /\ KeysTyped /\ RecordsHold /\ RecordsOnly /\ UNCHANGED records
      /\ actions' = [actions EXCEPT ![a][k] = [section |-> "eligibility"]]
  BY DEF ConfigInv, ReplaceStaffServiceEligibility
<1>2. /\ KeysTyped'
      /\ \A b \in Admins, j \in ActionKeys : actions[b][j] # NoAction => actions'[b][j] # NoAction
  BY <1>1, KeyRecorded
<1>3. RecordsHold'
  BY <1>1, <1>2, KeysStayUsed
<1> QED BY <1>1, <1>2, <1>3, RecordsChange

-----------------------------------------------------------------------------
(* Preparing a transfer.                                                   *)

OnlyPrepared ==
    UNCHANGED <<conf, vers, authorityOf, facts, loaded, actions, transfer, editsLeft, records,
                eligible>>

LEMMA OnlyPreparedKeeps ==
    ASSUME ConfigInv, OnlyPrepared, PreparedHold'
    PROVE  ConfigKept
<1>1. SalonsConfigured /\ SalonsConfigured' /\ Counted
  BY CountedWhenLeft DEF ConfigInv, OnlyPrepared, SalonsConfigured
<1>2. ClientsInformed' /\ RunsHold' /\ KeysTyped' /\ RecordsHold'
  BY <1>1, ClientsStand, RunsStand, RecordsStand DEF ConfigInv, OnlyPrepared
<1>3. Informed /\ Ready /\ OnePhraseOneOwner' /\ editsLeft' \in 0 .. MaxConfigEdits
  BY DEF OnlyPrepared, ConfigInv, OnePhraseOneOwner, Informed, AppliesToStep, Ready
<1> QED BY <1>1, <1>2, <1>3 DEF ConfigInv, ConfigKept

LEMMA RequestKeeps ==
    ASSUME ConfigInv, NEW r \in TransferRequests, NEW new \in PreparedRows \cup {IdleTransfer},
           new # IdleTransfer => PreparedOK(new),
           prepared' = [prepared EXCEPT ![r] = new], OnlyPrepared
    PROVE  ConfigKept
<1>1. SalonsConfigured /\ SalonsConfigured' /\ Counted /\ RunsHold /\ PreparedHold
  BY CountedWhenLeft DEF ConfigInv, OnlyPrepared, SalonsConfigured
<1>2. /\ prepared' \in [TransferRequests -> PreparedRows \cup {IdleTransfer}]
      /\ prepared'[r] = new /\ \A q \in TransferRequests \ {r} : prepared'[q] = prepared[q]
  BY <1>1 DEF PreparedHold
<1>3. RunsExtended
  BY DEF RunsExtended, SameRun, OnlyPrepared
<1>4. new # IdleTransfer => PreparedOK(new)'
  BY <1>1, <1>3, PreparedStays
<1>5. ASSUME NEW q \in TransferRequests, prepared'[q] # IdleTransfer PROVE PreparedOK(prepared[q])'
  BY <1>1, <1>2, <1>3, <1>4, <1>5, OthersStay DEF PreparedOK, PlannedFrom
<1>6. PreparedHold'
  BY <1>2, <1>5 DEF PreparedHold
<1> QED BY <1>6, OnlyPreparedKeeps

LEMMA StartKeeps ==
    ASSUME ConfigInv, NEW r \in TransferRequests, NEW kind \in [preview : Nat],
           NEW sel \in Selections, NEW upload \in Uploads \cup {<<>>},
           upload # <<>> => Scoped(sel) \subseteq DOMAIN upload,
           kind.preview # 0 => /\ kind.preview \in DOMAIN transfer
                               /\ transfer[kind.preview].sel = sel
                               /\ transfer[kind.preview].tenant = (upload = <<>>),
           StartTransfer(r, kind, sel, upload), OnlyPrepared
    PROVE  ConfigKept
<1> DEFINE new == [step |-> "source", kind |-> kind, sel |-> sel, upload |-> upload, bundle |-> <<>>,
          sourceFences |-> <<>>, target |-> conf["target"], authority |-> authorityOf["target"],
          publishable |-> FALSE, targetFences |-> <<>>, unavailable |-> FALSE]
<1>1. conf["target"] \in Configurations /\ authorityOf["target"] \in AuthorityRows
  BY DEF ConfigInv, SalonsConfigured, Salons
<1>2. new \in PreparedRows
  BY <1>1 DEF PreparedRows, TransferSteps, FenceMaps
<1>3. /\ new.step = "source" /\ new.kind = kind /\ new.sel = sel /\ new.upload = upload
      /\ new.authority = authorityOf["target"]
  OBVIOUS
<1>4. prepared' = [prepared EXCEPT ![r] = new]
  BY DEF StartTransfer
<1> HIDE DEF new
<1>5. PreparedOK(new)
  BY <1>1, <1>3 DEF AuthorityRows, PreparedOK, PlannedFrom, Exported, SourceSeen, TargetRead,
     TargetSeen
<1> QED BY <1>2, <1>4, <1>5, RequestKeeps

LEMMA PreviewRequested ==
    ASSUME ConfigInv, NEW r \in TransferRequests, NEW sel \in Selections,
           NEW upload \in Uploads \cup {<<>>}, RequestPreview(r, sel, upload)
    PROVE  ConfigKept
<1>1. /\ StartTransfer(r, [preview |-> 0], sel, upload) /\ OnlyPrepared
      /\ upload # <<>> => Scoped(sel) \subseteq DOMAIN upload
  BY DEF RequestPreview, OnlyPrepared, RecordsKept
<1>2. [preview |-> 0] \in [preview : Nat] /\ [preview |-> 0].preview = 0
  OBVIOUS
<1> QED BY <1>1, <1>2, StartKeeps

LEMMA ApplyRequested ==
    ASSUME ConfigInv, NEW r \in TransferRequests, NEW i \in 1 .. MaxPreviews,
           NEW upload \in Uploads \cup {<<>>}, RequestApply(r, i, upload)
    PROVE  ConfigKept
<1>1. PICK sel : sel = transfer[i].sel
  OBVIOUS
<1>2. /\ StartTransfer(r, [preview |-> i], sel, upload) /\ OnlyPrepared
      /\ i \in DOMAIN transfer /\ transfer[i].tenant = (upload = <<>>)
      /\ upload # <<>> => Scoped(sel) \subseteq DOMAIN upload
  BY <1>1 DEF RequestApply, OnlyPrepared, RecordsKept
<1>3. sel \in Selections
  <2>1. transfer[i] \in RunRows
    BY <1>2 DEF ConfigInv, RunsHold
  <2> QED BY <1>1, <2>1 DEF RunRows
<1>4. [preview |-> i] \in [preview : Nat] /\ [preview |-> i].preview = i
  BY ConfigurationConstants
<1> QED BY <1>1, <1>2, <1>3, <1>4, StartKeeps

(* A request that is being handled.                                        *)
LEMMA Handled ==
    ASSUME ConfigInv, NEW r \in TransferRequests, prepared[r].step # "idle"
    PROVE  /\ prepared[r] \in PreparedRows /\ prepared[r] # IdleTransfer
           /\ \A p : p = prepared[r] => PreparedOK(p)
<1>1. prepared[r] # IdleTransfer
  BY DEF IdleTransfer
<1> QED BY <1>1 DEF ConfigInv, PreparedHold

LEMMA IdleIsNoRow == IdleTransfer \notin PreparedRows
BY DEF IdleTransfer, PreparedRows, TransferSteps

LEMMA SnapshotSeen ==
    ASSUME SalonsConfigured, NEW s \in Salons, NEW sel \in Selections
    PROVE  Fences(s, sel) \in FenceMaps /\ Seen(s, sel, Fences(s, sel))
<1>1. \A x \in FenceRows(sel) : vers[s][x] \in Nat
  BY RowsOfSelections DEF SalonsConfigured
<1>2. Fences(s, sel) \in [FenceRows(sel) -> Nat]
  BY <1>1 DEF Fences
<1>3. \A x \in FenceRows(sel) : Fences(s, sel)[x] <= vers[s][x]
  BY <1>1 DEF Fences
<1> QED BY <1>2, <1>3, RowsOfSelections DEF Seen

LEMMA BundleOfValues ==
    ASSUME NEW sel \in Selections, NEW c, Scoped(sel) \subseteq DOMAIN c,
           \A x \in Scoped(sel) : c[x] \in SectionValues[x]
    PROVE  /\ Bundle(c, sel) \in SelectionBundles(sel)
           /\ \A x \in Scoped(sel) : Bundle(c, sel)[x] = c[x]
<1>1. \A x \in Scoped(sel) : c[x] \in Values
  BY RowsOfSelections DEF Values
<1> QED BY <1>1 DEF Bundle, SelectionBundles

LEMMA ExportKeeps ==
    ASSUME ConfigInv, NEW r \in TransferRequests, exportSalon(r)
    PROVE  ConfigKept
<1>1. PICK p : p = prepared[r]
  OBVIOUS
<1>2. p.step = "source" /\ p \in PreparedRows /\ PreparedOK(p)
  BY <1>1, Handled DEF exportSalon
<1>3. p.sel \in Selections /\ p.upload \in Uploads \cup {<<>>}
  BY <1>2 DEF PreparedRows
<1> DEFINE external == p.upload = <<>> /\ "hours" \in p.sel
                       /\ authorityOf["source"].name = "external_provider"
           c == IF p.upload = <<>> THEN conf["source"] ELSE p.upload
           b == Bundle(c, p.sel)
           bundle == IF external THEN [b EXCEPT !.hours = NoHours] ELSE b
<1>4. Scoped(p.sel) \subseteq DOMAIN c /\ \A x \in Scoped(p.sel) : c[x] \in SectionValues[x]
  BY <1>2, <1>3, RowsOfSelections, ConfigurationConstants DEF ConfigInv, SalonsConfigured,
     Salons, Configurations, PreparedOK
<1>5. PICK d : d = c
  OBVIOUS
<1>6. b = Bundle(d, p.sel)
  BY <1>5
<1>7. b \in SelectionBundles(p.sel) /\ \A x \in Scoped(p.sel) : b[x] = c[x]
  <2> HIDE DEF c
  <2> QED BY <1>3, <1>4, BundleOfValues
<1> HIDE DEF b, c
<1>8. bundle \in SelectionBundles(p.sel) /\ (~ external => bundle = b)
  <2>1. CASE external
    <3>1. "hours" \in Scoped(p.sel)
      BY <1>3, <2>1, RowsOfSelections
    <3>2. NoHours \in SectionValues["hours"] /\ NoHours \in Values
      BY SectionNames DEF SectionValues, Values
    <3>3. bundle = [b EXCEPT !["hours"] = NoHours]
      BY <2>1
    <3>4. bundle \in [Scoped(p.sel) -> Values] /\ bundle["hours"] = NoHours
          /\ \A x \in Scoped(p.sel) \ {"hours"} : bundle[x] = b[x]
      BY <1>7, <3>1, <3>2, <3>3 DEF SelectionBundles
    <3> HIDE DEF bundle
    <3>5. \A x \in Scoped(p.sel) : bundle[x] \in SectionValues[x]
      BY <1>7, <3>2, <3>4 DEF SelectionBundles
    <3> QED BY <2>1, <3>4, <3>5 DEF SelectionBundles
  <2>2. CASE ~ external
    BY <1>7, <2>2
  <2> QED BY <2>1, <2>2
<1>9. external \in BOOLEAN /\ (external => "hours" \in p.sel)
  OBVIOUS
<1>10. PICK new : new = [p EXCEPT !.step = "sourceFences", !.unavailable = external, !.bundle = bundle]
  OBVIOUS
<1>11. prepared' = [prepared EXCEPT ![r] = new] /\ OnlyPrepared
  BY <1>1, <1>10 DEF exportSalon, TransferStep, OnlyPrepared, RecordsKept, b, c
<1>12. PICK isExternal \in BOOLEAN : isExternal = external
  BY <1>9
<1>13. PICK values \in SelectionBundles(p.sel) : values = bundle
  BY <1>8
<1>14. new = [p EXCEPT !.step = "sourceFences", !.unavailable = isExternal, !.bundle = values]
  BY <1>10, <1>12, <1>13
<1> HIDE DEF external, bundle
<1>15. values \in Bundles
  BY <1>3, RowsOfSelections
<1>16. /\ new \in PreparedRows
       /\ new.step = "sourceFences" /\ new.unavailable = isExternal /\ new.bundle = values
       /\ new.kind = p.kind /\ new.sel = p.sel /\ new.upload = p.upload
       /\ new.authority = p.authority
  BY <1>2, <1>14, <1>15 DEF PreparedRows, TransferSteps
<1>17. p.upload = <<>> /\ ~ isExternal => \A x \in Scoped(p.sel) : values[x] = conf["source"][x]
  BY <1>7, <1>8, <1>12, <1>13 DEF c
<1>18. new.kind.preview # 0 => /\ new.kind.preview \in DOMAIN transfer
                               /\ PlannedFrom(new, transfer[new.kind.preview])
  BY <1>2, <1>16, <1>17 DEF PreparedOK, PlannedFrom, StillThere, TargetRead
<1>19. PreparedOK(new)
  BY <1>2, <1>9, <1>12, <1>16, <1>18 DEF PreparedOK, SourceSeen, TargetSeen
<1> QED BY <1>11, <1>16, <1>19, RequestKeeps

LEMMA SourceKeeps ==
    ASSUME ConfigInv, NEW r \in TransferRequests, SnapshotSource(r)
    PROVE  ConfigKept
<1>1. PICK p : p = prepared[r]
  OBVIOUS
<1>2. p.step = "sourceFences" /\ p \in PreparedRows /\ PreparedOK(p)
  BY <1>1, Handled DEF SnapshotSource
<1>3. p.sel \in Selections
  BY <1>2 DEF PreparedRows
<1>4. PICK fences \in FenceMaps : fences = IF p.upload = <<>> THEN Fences("source", p.sel) ELSE <<>>
  BY <1>3, SnapshotSeen DEF FenceMaps, ConfigInv, Salons
<1>5. p.upload = <<>> => Seen("source", p.sel, fences)
  BY <1>3, <1>4, SnapshotSeen DEF ConfigInv, Salons
<1>6. PICK new : new = [p EXCEPT !.step = "target", !.sourceFences = fences]
  OBVIOUS
<1>7. prepared' = [prepared EXCEPT ![r] = new] /\ OnlyPrepared
  BY <1>1, <1>4, <1>6 DEF SnapshotSource, TransferStep, OnlyPrepared, RecordsKept
<1>8. /\ new \in PreparedRows
      /\ new.step = "target" /\ new.unavailable = p.unavailable /\ new.bundle = p.bundle
      /\ new.kind = p.kind /\ new.sel = p.sel /\ new.upload = p.upload
      /\ new.authority = p.authority /\ new.sourceFences = fences
  BY <1>2, <1>6 DEF PreparedRows, TransferSteps
<1>9. PreparedOK(new)
  BY <1>2, <1>5, <1>8 DEF PreparedOK, PlannedFrom, Exported, SourceSeen, TargetRead, TargetSeen
<1> QED BY <1>7, <1>8, <1>9, RequestKeeps

LEMMA CanPublishIsBoolean ==
    ASSUME SalonsConfigured, NEW s \in Salons, NEW c
    PROVE  CanPublish(s, c) \in BOOLEAN
<1>1. facts[s] \in FactRows
  BY DEF SalonsConfigured
<1> QED BY <1>1 DEF CanPublish, FactRows

LEMMA TargetKeeps ==
    ASSUME ConfigInv, NEW r \in TransferRequests, TargetImportState(r)
    PROVE  ConfigKept
<1>1. PICK p : p = prepared[r]
  OBVIOUS
<1>2. p.step = "target" /\ p \in PreparedRows /\ PreparedOK(p)
  BY <1>1, Handled DEF TargetImportState
<1>3. conf["target"] \in Configurations /\ authorityOf["target"] \in AuthorityRows
  BY DEF ConfigInv, SalonsConfigured, Salons
<1>4. PICK ready \in BOOLEAN : ready = CanPublish("target", conf["target"])
  BY CanPublishIsBoolean DEF ConfigInv, Salons
<1>5. PICK new : new = [p EXCEPT !.step = "targetFences", !.target = conf["target"],
                                 !.authority = authorityOf["target"], !.publishable = ready]
  OBVIOUS
<1>6. prepared' = [prepared EXCEPT ![r] = new] /\ OnlyPrepared
  BY <1>1, <1>4, <1>5 DEF TargetImportState, TransferStep, OnlyPrepared, RecordsKept
<1>7. PICK c \in Configurations : c = conf["target"]
  BY <1>3
<1>8. PICK au \in AuthorityRows : au = authorityOf["target"]
  BY <1>3
<1>9. /\ new \in PreparedRows
      /\ new.step = "targetFences" /\ new.unavailable = p.unavailable /\ new.bundle = p.bundle
      /\ new.kind = p.kind /\ new.sel = p.sel /\ new.upload = p.upload
      /\ new.authority = au /\ new.sourceFences = p.sourceFences /\ new.target = c
  BY <1>2, <1>5, <1>7, <1>8 DEF PreparedRows, TransferSteps
<1>10. au.version <= authorityOf["target"].version
  BY <1>8 DEF AuthorityRows
<1>11. StillThere("target", p.sel, transfer[p.kind.preview].targetFences, c)
  BY <1>7 DEF StillThere
<1>12. PreparedOK(new)
  BY <1>2, <1>8, <1>9, <1>10, <1>11 DEF PreparedOK, PlannedFrom, Exported, SourceSeen, TargetRead,
     TargetSeen, AuthorityStillThere
<1> QED BY <1>6, <1>9, <1>12, RequestKeeps

LEMMA TargetSnapshotKeeps ==
    ASSUME ConfigInv, NEW r \in TransferRequests, SnapshotTarget(r)
    PROVE  ConfigKept
<1>1. PICK p : p = prepared[r]
  OBVIOUS
<1>2. p.step = "targetFences" /\ p \in PreparedRows /\ PreparedOK(p)
  BY <1>1, Handled DEF SnapshotTarget
<1>3. p.sel \in Selections
  BY <1>2 DEF PreparedRows
<1>4. PICK fences \in FenceMaps : fences = Fences("target", p.sel)
  BY <1>3, SnapshotSeen DEF ConfigInv, Salons
<1>5. Seen("target", p.sel, fences)
  BY <1>3, <1>4, SnapshotSeen DEF ConfigInv, Salons
<1>6. PICK new : new = [p EXCEPT !.step = "hours", !.targetFences = fences]
  OBVIOUS
<1>7. prepared' = [prepared EXCEPT ![r] = new] /\ OnlyPrepared
  BY <1>1, <1>4, <1>6 DEF SnapshotTarget, TransferStep, OnlyPrepared, RecordsKept
<1>8. /\ new \in PreparedRows
      /\ new.step = "hours" /\ new.unavailable = p.unavailable /\ new.bundle = p.bundle
      /\ new.kind = p.kind /\ new.sel = p.sel /\ new.upload = p.upload /\ new.target = p.target
      /\ new.authority = p.authority /\ new.sourceFences = p.sourceFences
      /\ new.targetFences = fences
  BY <1>2, <1>6 DEF PreparedRows, TransferSteps
<1>9. PreparedOK(new)
  BY <1>2, <1>5, <1>8 DEF PreparedOK, PlannedFrom, Exported, SourceSeen, TargetRead, TargetSeen
<1> QED BY <1>7, <1>8, <1>9, RequestKeeps

LEMMA HoursKeep ==
    ASSUME ConfigInv, NEW r \in TransferRequests, LocalBusinessHours(r)
    PROVE  ConfigKept
<1>1. PICK p : p = prepared[r]
  OBVIOUS
<1>2. p.step = "hours" /\ p \in PreparedRows /\ PreparedOK(p)
  BY <1>1, Handled DEF LocalBusinessHours
<1>3. p.target \in Configurations /\ conf["target"] \in Configurations
  BY <1>2 DEF PreparedRows, ConfigInv, SalonsConfigured, Salons
<1>4. PICK v \in SectionValues["hours"] : v = conf["target"]["hours"]
  BY <1>3, SectionNames DEF Configurations
<1>5. PICK c : c = [p.target EXCEPT !["hours"] = v]
  OBVIOUS
<1>6. /\ c \in Configurations /\ c["hours"] = v
      /\ \A y \in Sections \ {"hours"} : c[y] = p.target[y]
  BY <1>3, <1>5, SectionNames, SectionSet
<1>7. PICK new : new = [p EXCEPT !.step = "planned", !.target = c]
  OBVIOUS
<1>8. new = [p EXCEPT !.step = "planned", !.target.hours = conf["target"].hours]
  BY <1>2, <1>4, <1>5, <1>7 DEF PreparedRows
<1>9. prepared' = [prepared EXCEPT ![r] = new] /\ OnlyPrepared
  BY <1>1, <1>8 DEF LocalBusinessHours, TransferStep, OnlyPrepared, RecordsKept
<1>10. /\ new \in PreparedRows
       /\ new.step = "planned" /\ new.unavailable = p.unavailable /\ new.bundle = p.bundle
       /\ new.kind = p.kind /\ new.sel = p.sel /\ new.upload = p.upload /\ new.target = c
       /\ new.authority = p.authority /\ new.sourceFences = p.sourceFences
       /\ new.targetFences = p.targetFences
  BY <1>2, <1>6, <1>7 DEF PreparedRows, TransferSteps
<1>11. ASSUME NEW fences, StillThere("target", p.sel, fences, p.target)
       PROVE  StillThere("target", p.sel, fences, c)
  BY <1>2, <1>4, <1>6, <1>11, RowsOfSelections DEF PreparedRows, StillThere
<1>12. new.kind.preview # 0 => /\ new.kind.preview \in DOMAIN transfer
                               /\ PlannedFrom(new, transfer[new.kind.preview])
  BY <1>2, <1>10, <1>11 DEF PreparedOK, PlannedFrom, Exported, TargetRead
<1>13. PreparedOK(new)
  BY <1>2, <1>10, <1>12 DEF PreparedOK, Exported, SourceSeen, TargetSeen
<1> QED BY <1>9, <1>10, <1>13, RequestKeeps

LEMMA TransferEndsKeeps ==
    ASSUME ConfigInv, NEW r \in TransferRequests, TransferEnds(r)
    PROVE  ConfigKept
BY RequestKeeps DEF TransferEnds, OnlyPrepared, RecordsKept

-----------------------------------------------------------------------------
(* Preview and apply.                                                      *)

(* A request is done, and the runs are the same or one more.               *)
LEMMA RequestDone ==
    ASSUME SalonsConfigured, SalonsConfigured', Counted, RunsHold, RunsExtended, PreparedHold,
           NEW r \in TransferRequests, prepared' = [prepared EXCEPT ![r] = IdleTransfer]
    PROVE  /\ PreparedHold'
           /\ \A q \in TransferRequests \ {r} : prepared'[q] = prepared[q]
<1>1. /\ prepared' \in [TransferRequests -> PreparedRows \cup {IdleTransfer}]
      /\ prepared'[r] = IdleTransfer
      /\ \A q \in TransferRequests \ {r} : prepared'[q] = prepared[q]
  BY DEF PreparedHold
<1>2. ASSUME NEW q \in TransferRequests, prepared'[q] # IdleTransfer PROVE PreparedOK(prepared[q])'
  BY <1>1, <1>2, OthersStay
<1> QED BY <1>1, <1>2 DEF PreparedHold

LEMMA PreviewKeeps ==
    ASSUME ConfigInv, NEW r \in TransferRequests, CreatePreview(r)
    PROVE  ConfigKept
<1>1. PICK p : p = prepared[r]
  OBVIOUS
<1>2. p.step = "planned" /\ p \in PreparedRows /\ PreparedOK(p)
  BY <1>1, Handled DEF CreatePreview
<1>3. /\ SalonsConfigured /\ RunsHold /\ PreparedHold
      /\ UNCHANGED <<conf, vers, authorityOf, facts, loaded, actions, editsLeft, records, eligible>>
  BY DEF ConfigInv, CreatePreview, RecordsKept
<1>4. SalonsConfigured' /\ Counted
  BY <1>3, CountedWhenLeft DEF SalonsConfigured
<1>5. PICK tenant \in BOOLEAN : tenant = (p.upload = <<>>)
  OBVIOUS
<1> DEFINE run == [status |-> "previewed", tenant |-> tenant, sel |-> p.sel, bundle |-> p.bundle,
                   fingerprint |-> Fingerprint(p), authority |-> p.authority,
                   sourceFences |-> p.sourceFences, targetFences |-> p.targetFences]
<1>6. transfer' = Append(transfer, run)
  BY <1>1, <1>5 DEF CreatePreview
<1>7. p.bundle \in Bundles
  BY <1>2, RowsOfSelections DEF PreparedRows, PreparedOK, Exported
<1>8. run \in RunRows
  BY <1>2, <1>7 DEF RunRows, PreparedRows, Fingerprint
<1>9. RunOK(run)
  BY <1>2, <1>5 DEF RunOK, PreparedOK, SourceSeen, TargetSeen
<1>10. PICK new \in RunRows : new = run
  BY <1>8
<1> HIDE DEF run
<1>11. /\ transfer' = Append(transfer, new) /\ transfer \in Seq(RunRows)
       /\ transfer' \in Seq(RunRows) /\ DOMAIN transfer' = DOMAIN transfer \cup {Len(transfer) + 1}
       /\ \A i \in DOMAIN transfer : transfer'[i] = transfer[i]
       /\ transfer'[Len(transfer) + 1] = new
       /\ Len(transfer') # Len(transfer)
  BY <1>3, <1>6, <1>10 DEF RunsHold
<1>12. RunsExtended
  BY <1>11 DEF RunsExtended, SameRun
<1>13. ASSUME NEW i \in DOMAIN transfer' PROVE RunOK(transfer[i])'
  <2>1. PICK old \in RunRows : old = transfer'[i] /\ RunOK(old)
    BY <1>3, <1>9, <1>10, <1>11 DEF RunsHold
  <2>2. RunOK(old)'
    BY <1>3, <1>4, <2>1, RunStays
  <2> QED BY <2>1, <2>2 DEF RunOK
<1>14. RunsHold'
  BY <1>11, <1>13 DEF RunsHold
<1>15. PreparedHold'
  BY <1>3, <1>4, <1>12, RequestDone DEF CreatePreview
<1>16. ClientsInformed' /\ KeysTyped' /\ RecordsHold'
  BY <1>3, <1>4, ClientsStand, RecordsStand DEF ConfigInv
<1>17. Informed /\ Ready /\ OnePhraseOneOwner' /\ editsLeft' \in 0 .. MaxConfigEdits
  BY <1>3, <1>11 DEF ConfigInv, OnePhraseOneOwner, Informed, AppliesToStep, Ready
<1> QED BY <1>4, <1>14, <1>15, <1>16, <1>17 DEF ConfigInv, ConfigKept

(* What a request that is still current was planned from is what is there. *)
LEMMA CurrentIsThere ==
    ASSUME ConfigInv, NEW p \in PreparedRows, PreparedOK(p), p.step = "planned",
           p.kind.preview # 0, CanApply(p), StillCurrent(p, transfer[p.kind.preview])
    PROVE  /\ \A x \in Scoped(p.sel) : p.target[x] = conf["target"][x]
           /\ p.upload = <<>> => p.bundle = Bundle(conf["source"], p.sel)
           /\ p.authority = authorityOf["target"]
<1>1. PICK run : run = transfer[p.kind.preview]
  OBVIOUS
<1>2. PlannedFrom(p, run) /\ StillCurrent(p, run)
  BY <1>1 DEF PreparedOK
<1>3. /\ run.sel = p.sel /\ run.tenant = (p.upload = <<>>) /\ p.sel \in Selections
      /\ Exported(p) /\ TargetRead(p)
  BY <1>2 DEF PlannedFrom, PreparedRows, Exported, TargetRead
<1>4. ~ p.unavailable
  BY <1>3 DEF CanApply, HoursConflict, PreparedOK
<1>5. ASSUME NEW s \in Salons, NEW fences, fences = Fences(s, p.sel), NEW values,
             StillThere(s, p.sel, fences, values), NEW x \in Scoped(p.sel)
      PROVE  values[x] = conf[s][x]
  <2>1. x \in Sections /\ x \in FenceRows(p.sel)
    BY <1>3, RowsOfSelections
  <2>2. vers[s][x] \in Nat /\ fences[x] = vers[s][x]
    BY <1>5, <2>1 DEF ConfigInv, SalonsConfigured, Fences
  <2> QED BY <1>5, <2>2 DEF StillThere
<1>6. \A x \in Scoped(p.sel) : p.target[x] = conf["target"][x]
  BY <1>2, <1>3, <1>5 DEF PlannedFrom, StillCurrent, Salons
<1>7. ASSUME p.upload = <<>> PROVE p.bundle = Bundle(conf["source"], p.sel)
  <2>1. StillThere("source", p.sel, run.sourceFences, p.bundle)
    BY <1>2, <1>3, <1>4, <1>7 DEF PlannedFrom
  <2>2. run.sourceFences = Fences("source", p.sel) /\ "source" \in Salons
    BY <1>2, <1>3, <1>7 DEF StillCurrent, Salons
  <2>3. \A x \in Scoped(p.sel) : p.bundle[x] = conf["source"][x]
    BY <1>5, <2>1, <2>2
  <2>4. p.bundle \in [Scoped(p.sel) -> Values]
    BY <1>3 DEF PreparedOK, SelectionBundles
  <2> QED BY <2>3, <2>4 DEF Bundle
<1>8. p.authority = authorityOf["target"]
  BY <1>2, <1>3 DEF ConfigInv, SalonsConfigured, Salons, AuthorityRows, StillCurrent,
     PlannedFrom, AuthorityStillThere
<1> QED BY <1>6, <1>7, <1>8

(* The plan of a request, section by section.                              *)
LEMMA PlannedTyped ==
    ASSUME NEW p \in PreparedRows, PreparedOK(p), p.step = "planned"
    PROVE  \A x \in Scoped(p.sel) : Planned(p, x) \in SectionValues[x]
<1> SUFFICES ASSUME NEW x \in Scoped(p.sel) PROVE Planned(p, x) \in SectionValues[x]
  OBVIOUS
<1>1. p.bundle[x] \in SectionValues[x]
  BY DEF PreparedOK, Exported, SelectionBundles
<1>2. CASE x = "ai"
  BY <1>1, <1>2 DEF SectionValues, Planned, PlannedPolicy
<1>3. CASE x = "public"
  BY <1>1, <1>3, SectionNames DEF SectionValues, PreparedRows, Configurations, Planned,
     PlannedPage
<1>4. CASE x # "ai" /\ x # "public"
  BY <1>1, <1>4 DEF Planned, Incoming
<1> QED BY <1>2, <1>3, <1>4

LEMMA AppliedTyped ==
    ASSUME ConfigInv, NEW p \in PreparedRows, PreparedOK(p), p.step = "planned"
    PROVE  /\ Applied(p) \in Configurations
           /\ \A x \in Sections : \/ Applied(p)[x] = conf["target"][x]
                                  \/ x \in Changes(p) /\ Applied(p)[x] = Planned(p, x)
           /\ "aliases" \in Changes(p) /\ p.bundle.aliases /\ conf["target"].categories =>
                 Applied(p)["aliases"] = conf["target"]["aliases"]
           /\ "categories" \in Changes(p) /\ p.bundle.categories /\ conf["target"].aliases =>
                 Applied(p)["categories"] = conf["target"]["categories"]
<1>1. conf["target"] \in Configurations
  BY DEF ConfigInv, SalonsConfigured, Salons
<1>2. \A x \in Changes(p) : Planned(p, x) \in SectionValues[x]
  BY PlannedTyped DEF Changes
<1>3. \A x \in Sections : \/ Applied(p)[x] = conf["target"][x]
                          \/ x \in Changes(p) /\ Applied(p)[x] = Planned(p, x)
  BY DEF Applied
<1>4. \A x \in Sections : Applied(p)[x] \in SectionValues[x]
  BY <1>1, <1>2, <1>3 DEF Configurations
<1>5. Applied(p) = [x \in Sections |-> Applied(p)[x]]
  BY DEF Applied
<1>6. \A x \in Sections : Applied(p)[x] \in Values
  BY <1>4 DEF Values
<1>7. Applied(p) \in Configurations
  BY <1>4, <1>5, <1>6 DEF Configurations
<1>8. "aliases" \in Sections /\ "categories" \in Sections
  BY SectionNames
<1>9. "aliases" \in Changes(p) /\ p.bundle.aliases /\ conf["target"].categories =>
         Applied(p)["aliases"] = conf["target"]["aliases"]
  BY <1>8 DEF Applied, FreeForService
<1>10. "categories" \in Changes(p) /\ p.bundle.categories /\ conf["target"].aliases =>
          Applied(p)["categories"] = conf["target"]["categories"]
  BY <1>8 DEF Applied, FreeForCategory
<1> QED BY <1>3, <1>7, <1>9, <1>10

(* An application takes no phrase from its owner.                          *)
LEMMA AppliedPhrases ==
    ASSUME ConfigInv, NEW p \in PreparedRows, PreparedOK(p), p.step = "planned", CanApply(p)
    PROVE  ~ (Applied(p)["aliases"] /\ Applied(p)["categories"])
<1>1. ~ (conf["target"]["aliases"] /\ conf["target"]["categories"])
  BY DEF ConfigInv, OnePhraseOneOwner, Salons
<1>2. "aliases" \in Sections /\ "categories" \in Sections
  BY SectionNames
<1>3. ASSUME "aliases" \in Changes(p)
      PROVE  "aliases" \in p.sel /\ Planned(p, "aliases") = p.bundle.aliases
  BY <1>3 DEF Changes, Scoped, Planned, Incoming
<1>4. ASSUME "categories" \in Changes(p)
      PROVE  "categories" \in p.sel /\ Planned(p, "categories") = p.bundle.categories
  BY <1>4 DEF Changes, Scoped, Planned, Incoming
<1>5. ~ ("aliases" \in p.sel /\ p.bundle.aliases /\ "categories" \in p.sel /\ p.bundle.categories)
  BY DEF CanApply, AliasConflict
<1> QED BY <1>1, <1>2, <1>3, <1>4, <1>5, AppliedTyped

(* A page that an application publishes is ready when it is published.     *)
LEMMA AppliedReady ==
    ASSUME ConfigInv, NEW p \in PreparedRows, PreparedOK(p), p.step = "planned", CanApply(p),
           \A x \in Scoped(p.sel) : p.target[x] = conf["target"][x],
           p.authority = authorityOf["target"], applyPlanTx(p), UNCHANGED authorityOf
    PROVE  Ready
<1> DEFINE new == Applied(p)
<1>1. /\ SalonsConfigured /\ "target" \in Salons /\ new \in Configurations
      /\ Written("target", new)
  BY AppliedTyped DEF ConfigInv, Salons, applyPlanTx
<1>2. \A x \in Sections : \/ new[x] = conf["target"][x]
                          \/ x \in Changes(p) /\ new[x] = Planned(p, x)
  BY AppliedTyped
<1> HIDE DEF new
<1>3. "public" \in Sections
  BY SectionNames
<1>4. CASE new["public"] => conf["target"]["public"]
  <2>1. conf'["target"] = new /\ \A t \in Salons \ {"target"} : conf'[t] = conf[t]
    BY <1>1, WrittenEffect
  <2> QED BY <1>4, <2>1, NothingPublished
<1>5. CASE new["public"] /\ ~ conf["target"]["public"]
  <2>1. "public" \in Changes(p) /\ Planned(p, "public")
    BY <1>2, <1>3, <1>5
  <2>2. PlannedPage(p)
    BY <2>1 DEF Planned
  <2>3. "public" \in p.sel /\ ~ p.target["public"]
    BY <1>5, <2>1 DEF Changes, Scoped
  <2>4. p.bundle.public
    BY <2>2, <2>3 DEF PlannedPage
  <2> DEFINE profiled == [conf["target"] EXCEPT !.profile = IF "profile" \in Changes(p)
                                                            THEN p.bundle.profile ELSE @]
  <2>5. CanPublish("target", profiled)
    BY <2>1, <2>2 DEF applyPlanTx
  <2>6. profiled.hours = conf["target"].hours
    BY DEF ConfigInv, SalonsConfigured, Configurations, Salons
  <2> HIDE DEF profiled
  <2>7. ~ ReadinessInvalidated(p)
    BY DEF CanApply
  <2>8. ASSUME authorityOf["target"].name = "manleai_calendar"
        PROVE  /\ \A x \in {"profile", "hours", "consultation"} : new[x] = conf["target"][x]
               /\ profiled.hours = new.hours
    BY <1>2, <2>3, <2>4, <2>6, <2>7, <2>8, SectionNames DEF ReadinessInvalidated
  <2>9. ASSUME authorityOf["target"].name = "external_provider"
        PROVE  new["integrations"] = conf["target"]["integrations"]
    BY <1>2, <2>3, <2>4, <2>7, <2>9, SectionNames DEF ReadinessInvalidated
  <2> QED BY <1>1, <2>5, <2>8, <2>9, PublishedReady
<1> QED BY <1>4, <1>5

LEMMA ApplyKeeps ==
    ASSUME ConfigInv, NEW r \in TransferRequests, Apply(r)
    PROVE  ConfigKept
<1>1. PICK p : p = prepared[r]
  OBVIOUS
<1>2. /\ p.step = "planned" /\ p \in PreparedRows /\ PreparedOK(p) /\ p.kind.preview # 0
      /\ p.kind.preview \in DOMAIN transfer
      /\ CanApply(p) /\ StillCurrent(p, transfer[p.kind.preview]) /\ applyPlanTx(p)
  BY <1>1, Handled DEF Apply, PreparedOK
<1>3. /\ \A x \in Scoped(p.sel) : p.target[x] = conf["target"][x]
      /\ p.upload = <<>> => p.bundle = Bundle(conf["source"], p.sel)
      /\ p.authority = authorityOf["target"]
  BY <1>2, CurrentIsThere
<1>4. /\ SalonsConfigured /\ RunsHold /\ PreparedHold /\ OnePhraseOneOwner
      /\ UNCHANGED <<authorityOf, loaded, actions, editsLeft, records, eligible>>
  BY DEF ConfigInv, Apply, RecordsKept
<1>5. /\ SalonsConfigured' /\ Counted /\ conf'["target"] = Applied(p)
      /\ \A t \in Salons \ {"target"} : conf'[t] = conf[t]
  BY <1>2, <1>4, AppliedTyped, WrittenEffect DEF applyPlanTx, Salons
<1>6. OnePhraseOneOwner'
  BY <1>2, <1>4, <1>5, AppliedPhrases DEF OnePhraseOneOwner
<1>7. Ready
  BY <1>2, <1>3, <1>4, AppliedReady
<1>8. PICK i \in DOMAIN transfer : i = p.kind.preview
  BY <1>2
<1>9. transfer' = [transfer EXCEPT ![i].status = "applied"]
  BY <1>1, <1>8 DEF Apply
<1>10. PICK run \in RunRows : run = transfer[i] /\ RunOK(run)
  BY <1>4 DEF RunsHold
<1>11. PICK new : new = [run EXCEPT !.status = "applied"]
  OBVIOUS
<1>12. new \in RunRows /\ SameRun(run, new)
  BY <1>10, <1>11 DEF RunRows, SameRun
<1>13. /\ transfer' \in Seq(RunRows) /\ DOMAIN transfer' = DOMAIN transfer
       /\ transfer'[i] = new /\ \A j \in DOMAIN transfer \ {i} : transfer'[j] = transfer[j]
  BY <1>4, <1>9, <1>10, <1>11, <1>12 DEF RunsHold
<1>14. RunsExtended
  BY <1>10, <1>12, <1>13 DEF RunsExtended, SameRun
<1>15. ASSUME NEW j \in DOMAIN transfer' PROVE RunOK(transfer[j])'
  <2>1. RunOK(new)
    BY <1>10, <1>12 DEF RunOK, SameRun
  <2>2. PICK old \in RunRows : old = transfer'[j] /\ RunOK(old)
    BY <1>4, <1>12, <1>13, <2>1 DEF RunsHold
  <2>3. RunOK(old)'
    BY <1>4, <1>5, <2>2, RunStays
  <2> QED BY <2>2, <2>3 DEF RunOK
<1>16. RunsHold'
  BY <1>13, <1>15 DEF RunsHold
<1>17. PreparedHold' /\ \A q \in TransferRequests \ {r} : prepared'[q] = prepared[q]
  BY <1>4, <1>5, <1>14, RequestDone DEF Apply
<1>18. ClientsInformed' /\ KeysTyped' /\ RecordsHold'
  BY <1>4, <1>5, ClientsStand, RecordsStand DEF ConfigInv
<1>19. \A q \in TransferRequests : AppliesToStep(q) => q = r
  BY <1>17 DEF AppliesToStep, IdleTransfer
<1>20. Informed
  BY <1>1, <1>3, <1>4, <1>19 DEF Informed
<1>21. editsLeft' \in 0 .. MaxConfigEdits
  BY <1>4 DEF ConfigInv
<1> QED BY <1>5, <1>6, <1>7, <1>16, <1>17, <1>18, <1>20, <1>21 DEF ConfigInv, ConfigKept

-----------------------------------------------------------------------------
(* Every step of the configuration, and the theorems.                      *)

LEMMA OwnerStep == ConfigInv /\ OwnerConfigEdits => ConfigKept
<1> SUFFICES ASSUME ConfigInv, OwnerConfigEdits PROVE ConfigKept
  OBVIOUS
<1>1. PICK s \in Salons :
        \/ \E t \in Texts, e \in BOOLEAN : Update(s, t, e)
        \/ \E x \in SectionValues.ai : UpdateSettings(s, x)
        \/ \E b \in BOOLEAN : \/ UpdatePublicCatalogSettings(s, b)
                              \/ UpsertServiceAlias(s, b) \/ UpsertCategoryAlias(s, b)
        \/ \E t \in Texts : UpdateKnowledge(s, t)
        \/ \E n \in Authorities : SwitchAuthority(s, n)
        \/ BecomesReady(s) \/ LosesServices(s)
  BY DEF OwnerConfigEdits
<1>2. CASE \E t \in Texts, e \in BOOLEAN : Update(s, t, e)
  BY <1>2, UpdateKeepsSalon
<1>3. CASE \/ \E x \in SectionValues.ai : UpdateSettings(s, x)
           \/ \E b \in BOOLEAN : \/ UpdatePublicCatalogSettings(s, b)
                                 \/ UpsertServiceAlias(s, b) \/ UpsertCategoryAlias(s, b)
           \/ \E t \in Texts : UpdateKnowledge(s, t)
  BY <1>3, OwnerWrites
<1>4. CASE \E n \in Authorities : SwitchAuthority(s, n)
  BY <1>4, SwitchKeeps
<1>5. CASE BecomesReady(s) \/ LosesServices(s)
  BY <1>5, FactsKeep
<1> QED BY <1>1, <1>2, <1>3, <1>4, <1>5

LEMMA AdminStep == ConfigInv /\ AdminEdits => ConfigKept
<1> SUFFICES ASSUME ConfigInv, AdminEdits PROVE ConfigKept
  OBVIOUS
<1>1. PICK a \in Admins :
        \/ \E x \in Sections : Load(a, x)
        \/ \E k \in ActionKeys, x \in BusinessSections \cup TechnicalSections :
             \E v \in SectionValues[x] :
                 loaded[a].section = x /\ KeysInOrder(a, k) /\ applyMutation(a, k, v)
  BY DEF AdminEdits
<1>2. CASE \E x \in Sections : Load(a, x)
  BY <1>2, LoadKeeps
<1>3. CASE \E k \in ActionKeys, x \in BusinessSections \cup TechnicalSections :
             \E v \in SectionValues[x] :
                 loaded[a].section = x /\ KeysInOrder(a, k) /\ applyMutation(a, k, v)
  BY <1>3, MutationKeeps
<1> QED BY <1>1, <1>2, <1>3

LEMMA TransfersStep == ConfigInv /\ Transfers => ConfigKept
<1> SUFFICES ASSUME ConfigInv, Transfers PROVE ConfigKept
  OBVIOUS
<1>1. PICK r \in TransferRequests :
        \/ \E u \in Uploads \cup {<<>>} :
             \/ \E sel \in Selections : RequestPreview(r, sel, u)
             \/ \E i \in 1 .. MaxPreviews : RequestApply(r, i, u)
        \/ exportSalon(r) \/ SnapshotSource(r) \/ TargetImportState(r) \/ SnapshotTarget(r)
        \/ LocalBusinessHours(r) \/ CreatePreview(r) \/ Apply(r) \/ TransferEnds(r)
  BY DEF Transfers
<1>2. CASE \E u \in Uploads \cup {<<>>}, sel \in Selections : RequestPreview(r, sel, u)
  BY <1>2, PreviewRequested
<1>3. CASE \E u \in Uploads \cup {<<>>}, i \in 1 .. MaxPreviews : RequestApply(r, i, u)
  BY <1>3, ApplyRequested
<1>4. CASE exportSalon(r)
  BY <1>4, ExportKeeps
<1>5. CASE SnapshotSource(r)
  BY <1>5, SourceKeeps
<1>6. CASE TargetImportState(r)
  BY <1>6, TargetKeeps
<1>7. CASE SnapshotTarget(r)
  BY <1>7, TargetSnapshotKeeps
<1>8. CASE LocalBusinessHours(r)
  BY <1>8, HoursKeep
<1>9. CASE CreatePreview(r)
  BY <1>9, PreviewKeeps
<1>10. CASE Apply(r)
  BY <1>10, ApplyKeeps
<1>11. CASE TransferEnds(r)
  BY <1>11, TransferEndsKeeps
<1> QED BY <1>1, <1>2, <1>3, <1>4, <1>5, <1>6, <1>7, <1>8, <1>9, <1>10, <1>11

LEMMA RecordsStep == ConfigInv /\ RecordsNext => ConfigKept
<1> SUFFICES ASSUME ConfigInv, RecordsNext PROVE ConfigKept
  OBVIOUS
<1>1. CASE \E n \in DOMAIN records : LinkRecord(n)
  BY <1>1, LinkKeeps
<1>2. CASE \E a \in Admins, k \in ActionKeys, kind \in Kinds, ai \in BOOLEAN :
             CreateRecord(a, k, kind, ai)
  BY <1>2, CreateRecordKeeps
<1>3. CASE \E a \in Admins, k \in ActionKeys, n \in DOMAIN records, active, ai \in BOOLEAN :
             MutateRecord(a, k, n, active, ai)
  BY <1>3, MutateRecordKeeps
<1>4. CASE \E a \in Admins, k \in ActionKeys, n \in DOMAIN records : ArchiveRecord(a, k, n)
  BY <1>4, ArchiveKeeps
<1>5. CASE \E a \in Admins, k \in ActionKeys, n \in DOMAIN records :
             \E offered \in SUBSET DOMAIN records : ReplaceStaffServiceEligibility(a, k, n, offered)
  BY <1>5, EligibilityKeeps
<1> QED BY <1>1, <1>2, <1>3, <1>4, <1>5 DEF RecordsNext

LEMMA ConfigStep == ConfigInv /\ [ConfigNext]_configVars => ConfigKept
<1> SUFFICES ASSUME ConfigInv, [ConfigNext]_configVars PROVE ConfigKept
  OBVIOUS
<1>1. CASE OwnerConfigEdits
  BY <1>1, OwnerStep
<1>2. CASE AdminEdits
  BY <1>2, AdminStep
<1>3. CASE Transfers
  BY <1>3, TransfersStep
<1>4. CASE RecordsNext
  BY <1>4, RecordsStep
<1>5. CASE UNCHANGED configVars
  BY <1>5, CountedWhenLeft, TransfersStand, OnlyPreparedKeeps DEF configVars, ConfigInv,
     OnlyPrepared, SalonsConfigured
<1> QED BY <1>1, <1>2, <1>3, <1>4, <1>5 DEF ConfigNext, TransferNext

LEMMA ConfigInitially == ConfigInit => ConfigInv
<1> SUFFICES ASSUME ConfigInit PROVE ConfigInv
  OBVIOUS
<1>1. AnyText \in Texts
  BY ConfigurationConstants DEF AnyText
<1>2. PICK published \in BOOLEAN, named \in BOOLEAN :
        conf = [s \in Salons |-> [x \in Sections |->
                 IF x = "public" /\ s = "source" THEN published
                 ELSE IF (x = "aliases" /\ s = "source") \/ (x = "categories" /\ s = "target") THEN named
                 ELSE IF x \in {"profile", "integrations", "knowledge"} THEN AnyText
                 ELSE IF x = "hours" THEN (IF s = "source" THEN AnyText ELSE NoHours)
                 ELSE IF x = "ai" THEN "plain"
                 ELSE IF x = "consultation" THEN s = "source" ELSE FALSE]]
  BY DEF ConfigInit
<1>3. ASSUME NEW s \in Salons, NEW x \in Sections PROVE conf[s][x] \in SectionValues[x]
  <2>1. CASE x \in {"profile", "integrations", "knowledge"}
    <3>1. SectionValues[x] = Texts
      BY <2>1 DEF SectionValues
    <3>2. conf[s][x] = AnyText
      BY <1>2, <2>1
    <3> QED BY <1>1, <3>1, <3>2
  <2>2. CASE x = "hours"
    BY <1>1, <1>2, <2>2 DEF SectionValues
  <2>3. CASE x = "ai"
    BY <1>2, <2>3 DEF SectionValues
  <2>4. CASE x \in {"public", "aliases", "categories", "consultation", "aiEnabled"}
    <3>1. SectionValues[x] = BOOLEAN
      BY <2>4 DEF SectionValues
    <3>2. conf[s][x] \in {published, named, s = "source", FALSE}
      BY <1>2, <2>4
    <3> QED BY <3>1, <3>2
  <2> QED BY <2>1, <2>2, <2>3, <2>4, SectionNames
<1>4. conf \in [Salons -> Configurations]
  <2>1. \A s \in Salons : conf[s] \in Configurations
    <3> SUFFICES ASSUME NEW s \in Salons PROVE conf[s] \in Configurations
      OBVIOUS
    <3>1. \A x \in Sections : conf[s][x] \in SectionValues[x] /\ conf[s][x] \in Values
      BY <1>3 DEF Values
    <3>2. conf[s] = [x \in Sections |-> conf[s][x]]
      BY <1>2
    <3> QED BY <3>1, <3>2 DEF Configurations
  <2> QED BY <1>2, <2>1
<1>5. vers \in [Salons -> [Sections -> Nat]]
  BY DEF ConfigInit
<1>6. authorityOf \in [Salons -> AuthorityRows]
  <2>1. PICK name \in Authorities :
          authorityOf = [s \in Salons |-> [name |-> IF s = "target" THEN name ELSE "owner_manual",
                                           version |-> 1]]
    BY DEF ConfigInit
  <2>2. \A s \in Salons : [name |-> IF s = "target" THEN name ELSE "owner_manual", version |-> 1]
                             \in AuthorityRows
    BY DEF AuthorityRows, Authorities
  <2> QED BY <2>1, <2>2
<1>7. facts \in [Salons -> FactRows]
  BY DEF ConfigInit, FactRows
<1>8. OnePhraseOneOwner
  BY <1>2, SectionNames DEF Salons, OnePhraseOneOwner
<1>9. ClientsInformed
  BY DEF ConfigInit, ClientsInformed, LoadedOK
<1>10. KeysTyped
  BY DEF NoAction, ActionRows, ConfigInit, KeysTyped
<1>11. RecordsHold /\ RunsHold
  BY DEF ConfigInit, RecordsHold, RecordsAreSound, RunsHold
<1>12. PreparedHold
  BY DEF ConfigInit, PreparedHold
<1>13. editsLeft \in 0 .. MaxConfigEdits
  BY DEF ConfigInit
<1> QED BY <1>4, <1>5, <1>6, <1>7, <1>8, <1>9, <1>10, <1>11, <1>12, <1>13
        DEF ConfigInv, SalonsConfigured

(* In every state what clients and transfers have read is what is there,   *)
(* or the version it was read with has been counted on.                    *)
THEOREM ConfigInvariant == ConfigSpec => []ConfigInv
<1>1. ConfigInv /\ [ConfigNext]_configVars => ConfigInv'
  BY ConfigStep DEF ConfigKept
<1> QED BY ConfigInitially, <1>1, PTL DEF ConfigSpec

LEMMA ConfigTypes == ConfigInv => ConfigTypeOK
<1> SUFFICES ASSUME ConfigInv PROVE ConfigTypeOK
  OBVIOUS
<1>1. \A s \in Salons, x \in Sections : conf[s][x] \in SectionValues[x] /\ vers[s][x] \in Nat
  BY DEF ConfigInv, SalonsConfigured, Configurations
<1>2. \A s \in Salons : authorityOf[s].name \in Authorities /\ authorityOf[s].version \in Nat
  BY DEF ConfigInv, SalonsConfigured, AuthorityRows
<1>3. \A i \in DOMAIN transfer : transfer[i] \in RunRows
  BY DEF ConfigInv, RunsHold
<1>4. \A n \in DOMAIN records : records[n] \in RecordRows
  BY DEF ConfigInv, RecordsHold
<1> QED BY <1>1, <1>2, <1>3, <1>4 DEF ConfigTypeOK, ConfigInv, RunRows, RecordRows

(* The types of the tables of the salon's configuration.                   *)
THEOREM ConfigTypeCorrect == ConfigSpec => []ConfigTypeOK
BY ConfigInvariant, ConfigTypes, PTL

LEMMA InvariantIsSound == ConfigInv => ConfigurationIsSound
BY DEF ConfigInv, RecordsHold, ConfigurationIsSound

(* Whichever of the owner, the administrators and a transfer writes last,  *)
(* a phrase has one owner, no retry doubles a record and no archived       *)
(* record is active.                                                       *)
THEOREM ConfigurationStaysSound == ConfigSpec => []ConfigurationIsSound
BY ConfigInvariant, InvariantIsSound, PTL

(* A transfer is applied to the configuration it was planned against, with *)
(* what its source has, and a mutation replaces what its author has read.  *)
THEOREM WritesStayInformed == ConfigSpec => WritesAreInformed
<1>1. ConfigInv /\ [ConfigNext]_configVars => [Informed]_configVars
  BY ConfigStep DEF ConfigKept
<1> HIDE DEF Informed
<1>2. ConfigSpec => [][Informed]_configVars
  BY ConfigInvariant, <1>1, PTL DEF ConfigSpec
<1> QED BY <1>2 DEF WritesAreInformed, Informed

(* A page goes live in a state in which its salon can publish it.          *)
THEOREM PublishedStaysReady == ConfigSpec => PublishedIsReady
<1>1. ConfigInv /\ [ConfigNext]_configVars => [Ready]_configVars
  BY ConfigStep DEF ConfigKept
<1>2. ConfigSpec => [][Ready]_configVars
  BY ConfigInvariant, <1>1, PTL DEF ConfigSpec
<1> QED BY <1>2 DEF PublishedIsReady, Ready

-----------------------------------------------------------------------------
(* The gate: evidence speaks of the versions it was written for.           *)

LinkRows == [status : {"not_connected", "connected", "syncing", "active", "error"},
             located : BOOLEAN, synced : BOOLEAN, scopes : {"read", "buyer", "seller"},
             version : 1 .. MaxGateVersion]
SquareConfigRows == [enabled : BOOLEAN, version : 1 .. MaxConfigVersion]
EvidenceRows == [key : GateKeys, connection : 1 .. MaxGateVersion, config : 1 .. MaxConfigVersion,
                 scopes : {"read", "buyer", "seller"}, safe : BOOLEAN, live : BOOLEAN]
GateActionRows == [kind : {"evaluate", "activate", "enable", "disable"}, version : Nat]

(* A location is chosen before anything is imported from it.               *)
LinkTyped ==
    /\ link \in LinkRows
    /\ link.status = "syncing" \/ link.synced => link.located
    /\ link.status = "active" => link.synced
ProviderTyped ==
    /\ provider.name \in {"", "square"} /\ provider.version = IF provider.name = "" THEN 0 ELSE 1
    /\ gateRun \in [GateRequests -> {"idle", "may_test", "platform", "owner"}]

(* Keys are used in order, and the AI switch counts fewer of its own.      *)
KeysUsed(n) == \A k \in GateKeys : gateActions[k] # NoGateAction <=> k <= n
KeysCounted ==
    /\ gateActions \in [GateKeys -> GateActionRows \cup {NoGateAction}]
    /\ aiSwitch \in [enabled : BOOLEAN, version : Nat]
    /\ \E n \in 0 .. MaxGateKeys : KeysUsed(n) /\ aiSwitch.version <= n

(* Evidence for the versions there are says what is so.                    *)
EvidenceFits(e) ==
    /\ e \in EvidenceRows
    /\ e.connection <= link.version /\ e.config <= squareConfig.version
    /\ e.connection = link.version /\ e.config = squareConfig.version =>
          e.safe = (squareCapabilityBlocker = "none")
EvidenceHolds == squareConfig \in SquareConfigRows /\ \A e \in evidence : EvidenceFits(e)

GateInv == LinkTyped /\ ProviderTyped /\ KeysCounted /\ EvidenceHolds

(* The connection changes only to another version.                         *)
LEMMA LinkChanges ==
    ASSUME GateInv, link' = link \/ link'.version = link.version + 1, LinkTyped',
           UNCHANGED <<squareConfig, evidence>>
    PROVE  EvidenceHolds'
<1>1. link.version \in Nat /\ squareConfig \in SquareConfigRows
  BY DEF GateInv, LinkTyped, LinkRows, EvidenceHolds
<1>2. ASSUME NEW e \in evidence PROVE EvidenceFits(e)'
  BY <1>1, <1>2 DEF GateInv, EvidenceHolds, EvidenceFits, EvidenceRows, squareCapabilityBlocker
<1> QED BY <1>1, <1>2 DEF EvidenceHolds

LEMMA LinkMovesKeeps ==
    ASSUME GateInv, NEW new \in LinkRows, new.version = link.version, LinkMoves(new),
           new.status = "syncing" \/ new.synced => new.located,
           new.status = "active" => new.synced
    PROVE  GateInv'
<1>1. UNCHANGED <<squareConfig, evidence, provider, aiSwitch, gateActions, gateRun>>
  BY DEF LinkMoves
<1>2. link.version \in 1 .. MaxGateVersion /\ link.version < MaxGateVersion
  BY DEF GateInv, LinkTyped, LinkRows, LinkMoves
<1>3. link' = Fenced(new)
  BY DEF LinkMoves
<1>4. PICK moved : moved = [new EXCEPT !.version = @ + 1]
  OBVIOUS
<1>5. /\ moved \in LinkRows /\ moved.version = link.version + 1 /\ moved.status = new.status
      /\ moved.synced = new.synced /\ moved.located = new.located
  BY <1>2, <1>4, GateConstants DEF LinkRows
<1>6. link' = moved \/ link' = link
  BY <1>3, <1>4 DEF Fenced
<1>7. LinkTyped'
  BY <1>5, <1>6 DEF GateInv, LinkTyped
<1>8. EvidenceHolds'
  BY <1>1, <1>5, <1>6, <1>7, LinkChanges
<1> QED BY <1>1, <1>7, <1>8 DEF GateInv, ProviderTyped, KeysCounted, KeysUsed

LEMMA ConnectionKeeps ==
    ASSUME GateInv,
           \/ \E sc \in GrantedScopes : Reauthorize(sc)
           \/ ChooseLocation \/ SnapshotBegins \/ SnapshotEnds
    PROVE  GateInv'
<1>1. PICK old \in LinkRows : old = link
  BY DEF GateInv, LinkTyped
<1>2. /\ old.status = "syncing" \/ old.synced => old.located
      /\ old.status = "active" => old.synced
  BY <1>1 DEF GateInv, LinkTyped
<1>3. ASSUME NEW sc \in GrantedScopes, Reauthorize(sc) PROVE GateInv'
  <2>1. PICK new : new = [old EXCEPT !.status = "connected", !.scopes = sc, !.version = @ + 1]
    OBVIOUS
  <2>2. link' = new /\ old.version < MaxGateVersion
        /\ UNCHANGED <<squareConfig, evidence, provider, aiSwitch, gateActions, gateRun>>
    BY <1>1, <1>3, <2>1 DEF Reauthorize
  <2>3. /\ new \in LinkRows /\ new.version = old.version + 1 /\ new.status = "connected"
        /\ new.synced = old.synced /\ new.located = old.located
    <3>1. old.version \in Nat /\ old.version + 1 \in 1 .. MaxGateVersion
      BY <2>2, GateConstants DEF LinkRows
    <3>2. PICK next \in 1 .. MaxGateVersion : next = old.version + 1
      BY <3>1
    <3>3. sc \in {"read", "buyer", "seller"}
      BY DEF GrantedScopes
    <3>4. new = [old EXCEPT !.status = "connected", !.scopes = sc, !.version = next]
      BY <2>1, <3>2
    <3> QED BY <3>2, <3>3, <3>4 DEF LinkRows
  <2>4. LinkTyped'
    BY <1>2, <2>2, <2>3 DEF LinkTyped
  <2>5. EvidenceHolds'
    BY <1>1, <2>2, <2>3, <2>4, LinkChanges
  <2> QED BY <2>2, <2>4, <2>5 DEF GateInv, ProviderTyped, KeysCounted, KeysUsed
<1>4. CASE ChooseLocation
  <2>1. PICK new : new = [old EXCEPT !.located = TRUE, !.status = "connected", !.synced = FALSE]
    OBVIOUS
  <2>2. /\ new \in LinkRows /\ new.version = old.version /\ new.status = "connected"
        /\ new.synced = FALSE
    BY <2>1 DEF LinkRows
  <2>3. LinkMoves(new)
    BY <1>1, <1>4, <2>1 DEF ChooseLocation
  <2> QED BY <1>1, <2>2, <2>3, LinkMovesKeeps
<1>5. CASE SnapshotBegins
  <2>1. PICK new : new = [old EXCEPT !.status = "syncing", !.synced = FALSE]
    OBVIOUS
  <2>2. /\ new \in LinkRows /\ new.version = old.version /\ new.status = "syncing"
        /\ new.synced = FALSE /\ new.located = old.located
    BY <2>1 DEF LinkRows
  <2>3. LinkMoves(new) /\ old.located
    BY <1>1, <1>5, <2>1 DEF SnapshotBegins
  <2> QED BY <1>1, <2>2, <2>3, LinkMovesKeeps
<1>6. CASE SnapshotEnds
  <2>1. old.status = "syncing" /\ old.located
    BY <1>1, <1>2, <1>6 DEF SnapshotEnds
  <2>2. PICK done : done = [old EXCEPT !.status = "active", !.synced = TRUE]
    OBVIOUS
  <2>3. PICK failed : failed = [old EXCEPT !.status = "error"]
    OBVIOUS
  <2>4. LinkMoves(done) \/ LinkMoves(failed)
    BY <1>1, <1>6, <2>2, <2>3 DEF SnapshotEnds
  <2>5. /\ done \in LinkRows /\ done.version = old.version /\ done.status = "active"
        /\ done.synced = TRUE /\ done.located = old.located
    BY <2>2 DEF LinkRows
  <2>6. /\ failed \in LinkRows /\ failed.version = old.version /\ failed.status = "error"
        /\ failed.synced = old.synced /\ failed.located = old.located
    BY <2>3 DEF LinkRows
  <2>7. CASE LinkMoves(done)
    BY <1>1, <2>1, <2>5, <2>7, LinkMovesKeeps
  <2>8. CASE LinkMoves(failed)
    BY <1>1, <2>1, <2>6, <2>8, LinkMovesKeeps
  <2> QED BY <2>4, <2>7, <2>8
<1> QED BY <1>3, <1>4, <1>5, <1>6

LEMMA ConfigurationKeeps ==
    ASSUME GateInv, ConfigChanges
    PROVE  GateInv'
<1>1. UNCHANGED <<link, evidence, provider, aiSwitch, gateActions, gateRun>>
  BY DEF ConfigChanges
<1>2. PICK on \in BOOLEAN :
         squareConfig' = [enabled |-> on, version |-> squareConfig.version + 1]
  BY DEF ConfigChanges
<1>3. squareConfig.version \in 1 .. MaxConfigVersion /\ squareConfig.version < MaxConfigVersion
  BY DEF GateInv, EvidenceHolds, SquareConfigRows, ConfigChanges
<1>4. squareConfig' \in SquareConfigRows /\ squareConfig'.version = squareConfig.version + 1
  BY <1>2, <1>3, GateConstants DEF SquareConfigRows
<1>5. ASSUME NEW e \in evidence PROVE EvidenceFits(e)'
  BY <1>1, <1>3, <1>4, <1>5 DEF GateInv, EvidenceHolds, EvidenceFits, EvidenceRows
<1>6. EvidenceHolds'
  BY <1>1, <1>4, <1>5 DEF EvidenceHolds
<1> QED BY <1>1, <1>6 DEF GateInv, LinkTyped, ProviderTyped, KeysCounted, KeysUsed

(* A key is taken by a request of an operator.                             *)
LEMMA KeyTaken ==
    ASSUME KeysCounted, NEW k \in GateKeys, FreshKey(k), NEW row \in GateActionRows,
           gateActions' = [gateActions EXCEPT ![k] = row],
           aiSwitch' \in [enabled : BOOLEAN, version : Nat],
           \/ aiSwitch'.version = aiSwitch.version
           \/ aiSwitch'.version = aiSwitch.version + 1
    PROVE  KeysCounted'
<1>1. PICK n \in 0 .. MaxGateKeys : KeysUsed(n) /\ aiSwitch.version <= n
  BY DEF KeysCounted
<1>2. k \in 1 .. MaxGateKeys /\ MaxGateKeys \in Nat /\ aiSwitch.version \in Nat
  BY GateConstants DEF GateKeys, KeysCounted
<1>3. k = n + 1
  BY <1>1, <1>2 DEF KeysUsed, FreshKey, GateKeys
<1>4. row # NoGateAction
  BY DEF GateActionRows, NoGateAction
<1>5. /\ gateActions' \in [GateKeys -> GateActionRows \cup {NoGateAction}]
      /\ gateActions'[k] = row /\ \A j \in GateKeys \ {k} : gateActions'[j] = gateActions[j]
  BY DEF KeysCounted
<1>6. ASSUME NEW j \in GateKeys PROVE gateActions'[j] # NoGateAction <=> j <= n + 1
  BY <1>1, <1>2, <1>3, <1>4, <1>5, <1>6 DEF GateKeys, KeysUsed
<1>7. KeysUsed(n + 1)'
  BY <1>6 DEF KeysUsed
<1>8. n + 1 \in 0 .. MaxGateKeys /\ aiSwitch'.version \in Nat /\ aiSwitch'.version <= n + 1
  BY <1>1, <1>2, <1>3
<1> QED BY <1>5, <1>7, <1>8 DEF KeysCounted

LEMMA EvaluationKeeps ==
    ASSUME GateInv, NEW k \in GateKeys, NEW v, NEW c,
           ReevaluateSquareSchedulingCapability(k, v, c)
    PROVE  GateInv'
<1>1. /\ FreshKey(k) /\ evidence' = evidence \cup {EvidenceFor(k)}
      /\ UNCHANGED <<link, squareConfig, provider, aiSwitch, gateRun>>
  BY DEF ReevaluateSquareSchedulingCapability
<1>2. PICK row : row = [kind |-> "evaluate", version |-> link.version]
  OBVIOUS
<1>3. gateActions' = [gateActions EXCEPT ![k] = row]
  BY <1>2 DEF ReevaluateSquareSchedulingCapability
<1>4. link \in LinkRows /\ squareConfig \in SquareConfigRows
  BY DEF GateInv, LinkTyped, EvidenceHolds
<1>5. row \in GateActionRows
  BY <1>2, <1>4 DEF LinkRows, GateActionRows
<1>6. KeysCounted'
  BY <1>1, <1>3, <1>5, KeyTaken DEF GateInv, KeysCounted
<1>7. PICK safe \in BOOLEAN : safe = (squareCapabilityBlocker = "none")
  OBVIOUS
<1>8. PICK e : e = EvidenceFor(k)
  OBVIOUS
<1>9. /\ e \in EvidenceRows /\ e.connection = link.version /\ e.config = squareConfig.version
      /\ e.safe = safe
  BY <1>4, <1>7, <1>8 DEF EvidenceFor, EvidenceRows, LinkRows, SquareConfigRows
<1>10. EvidenceFits(e)
  BY <1>4, <1>7, <1>9 DEF EvidenceFits, LinkRows, SquareConfigRows
<1>11. \A d \in evidence' : EvidenceFits(d)
  BY <1>1, <1>8, <1>10 DEF GateInv, EvidenceHolds
<1>12. EvidenceHolds'
  BY <1>1, <1>4, <1>11 DEF EvidenceHolds, EvidenceFits, squareCapabilityBlocker
<1> QED BY <1>1, <1>6, <1>12 DEF GateInv, LinkTyped, ProviderTyped

LEMMA ExpiryKeeps ==
    ASSUME GateInv, NEW e \in evidence, EvidenceExpires(e)
    PROVE  GateInv'
<1>1. UNCHANGED <<link, squareConfig, provider, aiSwitch, gateActions, gateRun>>
  BY DEF EvidenceExpires
<1>2. PICK old : old = [e EXCEPT !.live = FALSE]
  OBVIOUS
<1>3. evidence' = (evidence \ {e}) \cup {old}
  BY <1>2 DEF EvidenceExpires
<1>4. EvidenceFits(e)
  BY DEF GateInv, EvidenceHolds
<1>5. /\ old \in EvidenceRows /\ old.connection = e.connection /\ old.config = e.config
      /\ old.safe = e.safe
  BY <1>2, <1>4 DEF EvidenceFits, EvidenceRows
<1>6. EvidenceFits(old)
  BY <1>4, <1>5 DEF EvidenceFits
<1>7. \A d \in evidence' : EvidenceFits(d)
  BY <1>3, <1>6 DEF GateInv, EvidenceHolds
<1>8. EvidenceHolds'
  BY <1>1, <1>7 DEF GateInv, EvidenceHolds, EvidenceFits, squareCapabilityBlocker
<1> QED BY <1>1, <1>8 DEF GateInv, LinkTyped, ProviderTyped, KeysCounted, KeysUsed

LEMMA ActivationKeeps ==
    ASSUME GateInv, NEW k \in GateKeys, NEW v, NEW c,
           ActivateInitialProviderForPlatform(k, v, c)
    PROVE  GateInv'
<1>1. /\ FreshKey(k) /\ provider.name = ""
      /\ provider' = [name |-> "square", version |-> provider.version + 1]
      /\ UNCHANGED <<link, squareConfig, evidence, aiSwitch, gateRun>>
  BY DEF ActivateInitialProviderForPlatform, initialProviderActivationStatus
<1>2. provider.version = 0
  BY <1>1 DEF GateInv, ProviderTyped
<1>3. PICK row : row = [kind |-> "activate", version |-> provider.version + 1]
  OBVIOUS
<1>4. row \in GateActionRows
  BY <1>2, <1>3 DEF GateActionRows
<1>5. gateActions' = [gateActions EXCEPT ![k] = row]
  BY <1>3 DEF ActivateInitialProviderForPlatform
<1>6. KeysCounted'
  <2>1. aiSwitch \in [enabled : BOOLEAN, version : Nat] /\ KeysCounted
    BY DEF GateInv, KeysCounted
  <2> QED BY <1>1, <1>4, <1>5, <2>1, KeyTaken
<1>7. ProviderTyped'
  <2>1. PICK next : next = provider.version + 1
    OBVIOUS
  <2>2. next = 1
    BY <1>2, <2>1
  <2>3. provider' = [name |-> "square", version |-> next]
    BY <1>1, <2>1
  <2>4. provider'.name = "square" /\ provider'.version = 1
    BY <2>2, <2>3
  <2> QED BY <1>1, <2>4 DEF GateInv, ProviderTyped
<1> QED BY <1>1, <1>6, <1>7 DEF GateInv, LinkTyped, EvidenceHolds, EvidenceFits, squareCapabilityBlocker

(* Requests, test bookings and the switch leave connection and evidence.   *)
LEMMA RequestsKeep ==
    ASSUME GateInv,
           \/ \E r \in GateRequests : \/ ReadTestReadiness(r) \/ CreateTestBooking(r)
                                      \/ ReadEnableReadiness(r) \/ EnableAIBooking(r)
           \/ \E o \in {"booked", "unknown", "denied", "unsupported"} : TestBookingEnds(o)
           \/ \E code \in {"denied", "unsupported"} : BookingRefused(code)
           \/ CancelTestBooking \/ DisableAIBooking
    PROVE  GateInv'
<1>1. UNCHANGED <<link, squareConfig, evidence, provider, gateActions>>
  BY DEF ReadTestReadiness, CreateTestBooking, ReadEnableReadiness, EnableAIBooking, TestBookingEnds,
     BookingRefused, CancelTestBooking, DisableAIBooking
<1>2. gateRun' \in [GateRequests -> {"idle", "may_test", "platform", "owner"}]
  <2>1. gateRun \in [GateRequests -> {"idle", "may_test", "platform", "owner"}]
    BY DEF GateInv, ProviderTyped
  <2>2. \/ gateRun' = gateRun
        \/ \E r \in GateRequests, phase \in {"idle", "may_test", "platform", "owner"} :
             gateRun' = [gateRun EXCEPT ![r] = phase]
    BY DEF ReadTestReadiness, CreateTestBooking, ReadEnableReadiness, EnableAIBooking,
       TestBookingEnds, BookingRefused, CancelTestBooking, DisableAIBooking, Decided
  <2> QED BY <2>1, <2>2
<1>3. aiSwitch' \in [enabled : BOOLEAN, version : Nat] /\ aiSwitch'.version = aiSwitch.version
  BY DEF ReadTestReadiness, CreateTestBooking, ReadEnableReadiness, EnableAIBooking,
     TestBookingEnds, BookingRefused, CancelTestBooking, DisableAIBooking, GateInv, KeysCounted
<1>4. KeysCounted'
  BY <1>1, <1>3 DEF GateInv, KeysCounted, KeysUsed
<1>5. EvidenceHolds' /\ LinkTyped' /\ ProviderTyped'
  BY <1>1, <1>2 DEF GateInv, LinkTyped, ProviderTyped, EvidenceHolds, EvidenceFits,
     squareCapabilityBlocker
<1> QED BY <1>4, <1>5 DEF GateInv

LEMMA SwitchSets ==
    ASSUME GateInv, NEW r \in GateRequests, NEW k \in GateKeys, NEW on \in BOOLEAN, NEW v,
           SetAIBookingForPlatform(r, k, on, v)
    PROVE  GateInv'
<1>1. /\ FreshKey(k) /\ aiSwitch' = [enabled |-> on, version |-> aiSwitch.version + 1]
      /\ UNCHANGED <<link, squareConfig, evidence, provider>>
  BY DEF SetAIBookingForPlatform, SetAIRuntime
<1>2. PICK row : row = [kind |-> IF on THEN "enable" ELSE "disable", version |-> aiSwitch.version + 1]
  OBVIOUS
<1>3. aiSwitch.version \in Nat
  BY DEF GateInv, KeysCounted
<1>4. row \in GateActionRows
  BY <1>2, <1>3 DEF GateActionRows
<1>5. gateActions' = [gateActions EXCEPT ![k] = row]
  BY <1>2 DEF SetAIBookingForPlatform, SetAIRuntime
<1>6. KeysCounted'
  <2>1. aiSwitch' \in [enabled : BOOLEAN, version : Nat] /\ aiSwitch'.version = aiSwitch.version + 1
    BY <1>1, <1>3
  <2> QED BY <1>1, <1>4, <1>5, <2>1, KeyTaken DEF GateInv
<1>7. gateRun' = [gateRun EXCEPT ![r] = "idle"] \/ gateRun' = gateRun
  BY DEF SetAIBookingForPlatform, Decided
<1>8. ProviderTyped'
  BY <1>1, <1>7 DEF GateInv, ProviderTyped
<1> QED BY <1>1, <1>6, <1>8 DEF GateInv, LinkTyped, EvidenceHolds, EvidenceFits, squareCapabilityBlocker

LEMMA GateStep == GateInv /\ [GateNext]_gateVars => GateInv'
<1> SUFFICES ASSUME GateInv, [GateNext]_gateVars PROVE GateInv'
  OBVIOUS
<1>1. CASE \/ \E sc \in GrantedScopes : Reauthorize(sc)
           \/ ChooseLocation \/ SnapshotBegins \/ SnapshotEnds
  BY <1>1, ConnectionKeeps
<1>2. CASE ConfigChanges
  BY <1>2, ConfigurationKeeps
<1>3. CASE \E k \in GateKeys, v \in {link.version - 1, link.version},
             c \in {squareConfig.version - 1, squareConfig.version} :
               \/ ReevaluateSquareSchedulingCapability(k, v, c)
               \/ ActivateInitialProviderForPlatform(k, v, c)
  BY <1>3, EvaluationKeeps, ActivationKeeps
<1>4. CASE \E e \in evidence : EvidenceExpires(e)
  BY <1>4, ExpiryKeeps
<1>5. CASE \/ \E r \in GateRequests : \/ ReadTestReadiness(r) \/ CreateTestBooking(r)
                                      \/ ReadEnableReadiness(r) \/ EnableAIBooking(r)
           \/ \E o \in {"booked", "unknown", "denied", "unsupported"} : TestBookingEnds(o)
           \/ \E code \in {"denied", "unsupported"} : BookingRefused(code)
           \/ CancelTestBooking \/ DisableAIBooking
  BY <1>5, RequestsKeep
<1>6. CASE \E r \in GateRequests, k \in GateKeys, on \in BOOLEAN,
             v \in {aiSwitch.version - 1, aiSwitch.version} : SetAIBookingForPlatform(r, k, on, v)
  BY <1>6, SwitchSets
<1>7. CASE UNCHANGED gateVars
  BY <1>7 DEF gateVars, GateInv, LinkTyped, ProviderTyped, KeysCounted, KeysUsed, EvidenceHolds,
     EvidenceFits, squareCapabilityBlocker
<1> QED BY <1>1, <1>2, <1>3, <1>4, <1>5, <1>6, <1>7 DEF GateNext

LEMMA GateInitially == GateInit => GateInv
<1> SUFFICES ASSUME GateInit PROVE GateInv
  OBVIOUS
<1>1. 1 \in 1 .. MaxGateVersion /\ 1 \in 1 .. MaxConfigVersion /\ 0 \in 0 .. MaxGateKeys
  BY GateConstants
<1>2. LinkTyped
  <2>1. link = [status |-> "not_connected", located |-> FALSE, synced |-> FALSE,
                scopes |-> "read", version |-> 1]
    BY DEF GateInit
  <2>2. link \in LinkRows
    BY <1>1, <2>1 DEF LinkRows
  <2> QED BY <2>1, <2>2 DEF LinkTyped
<1>3. ProviderTyped
  BY DEF GateInit, ProviderTyped
<1>4. KeysCounted
  <2>1. gateActions \in [GateKeys -> GateActionRows \cup {NoGateAction}]
    BY DEF GateInit
  <2>2. KeysUsed(0)
    <3>1. \A k \in GateKeys : gateActions[k] = NoGateAction
      BY DEF GateInit
    <3>2. \A k \in GateKeys : ~ (k <= 0)
      BY DEF GateKeys
    <3> QED BY <3>1, <3>2 DEF KeysUsed
  <2>3. aiSwitch = [enabled |-> FALSE, version |-> 0]
    BY DEF GateInit
  <2>4. aiSwitch \in [enabled : BOOLEAN, version : Nat] /\ aiSwitch.version <= 0
    BY <2>3
  <2> QED BY <1>1, <2>1, <2>2, <2>4 DEF KeysCounted
<1>5. EvidenceHolds
  <2>1. squareConfig = [enabled |-> TRUE, version |-> 1] /\ evidence = {}
    BY DEF GateInit
  <2> QED BY <1>1, <2>1 DEF EvidenceHolds, SquareConfigRows
<1> QED BY <1>2, <1>3, <1>4, <1>5 DEF GateInv

(* In every state evidence for the versions there are says what is so.     *)
THEOREM GateInvariant == GateSpec => []GateInv
BY GateInitially, GateStep, PTL DEF GateSpec

LEMMA GateTypes == GateInv => GateTypeOK
<1> SUFFICES ASSUME GateInv PROVE GateTypeOK
  OBVIOUS
<1>1. PICK n \in 0 .. MaxGateKeys : aiSwitch.version <= n
  BY DEF GateInv, KeysCounted
<1>2. aiSwitch.version \in Nat /\ aiSwitch.version <= MaxGateKeys
  BY <1>1, GateConstants DEF GateInv, KeysCounted
<1>3. squareConfig.version \in 0 .. MaxConfigVersion
  BY GateConstants DEF GateInv, EvidenceHolds, SquareConfigRows
<1> QED BY <1>2, <1>3 DEF GateInv, LinkTyped, LinkRows, ProviderTyped, GateTypeOK

(* The types of what the gate reads.                                       *)
THEOREM GateTypeCorrect == GateSpec => []GateTypeOK
BY GateInvariant, GateTypes, PTL

LEMMA EvidenceIsSafe == GateInv => AutomaticCreateIsSafe
<1> SUFFICES ASSUME GateInv PROVE AutomaticCreateIsSafe
  OBVIOUS
<1>1. ASSUME NEW e \in CurrentEvidence, e.safe
      PROVE  /\ link.status = "active" /\ link.located /\ link.synced
             /\ link.scopes = "buyer" /\ squareConfig.enabled
  BY <1>1 DEF GateInv, EvidenceHolds, CurrentEvidence, EvidenceFits, squareCapabilityBlocker,
     squareWritePermissionMode
<1> QED BY <1>1 DEF AutomaticCreateIsSafe, GetSquareSchedulingCapabilityEvaluation, TargetCapability

(* Evidence that is taken for current speaks of the connection as it is,   *)
(* whatever was authorized, synchronized, configured or has expired since. *)
THEOREM AutomaticCreateStaysSafe == GateSpec => []AutomaticCreateIsSafe
BY GateInvariant, EvidenceIsSafe, PTL

(* The gate in the platform is the gate alone.                             *)
THEOREM GateIsKept == MCSpec => GateSpec
<1>1. MCInit => GateInit
  BY DEF MCInit
<1>2. [MCNext]_allVars => [GateNext]_gateVars
  BY DEF MCNext, allVars
<1> QED BY <1>1, <1>2, PTL DEF MCSpec, GateSpec

-----------------------------------------------------------------------------
(* The imported catalog: what may be offered is of the generation and the  *)
(* location of the connection.                                             *)

Places == ShopLocations \cup {NoPlaceYet}
ShopRows == [status : {"not_connected", "connected", "syncing", "active", "error"},
             merchant : Merchants \cup {NoPlaceYet}, location : Places,
             generation : 0 .. MaxSnapshots, synced : BOOLEAN]
CatalogRows == [source : {"imported", "local"}, ai : BOOLEAN, active : BOOLEAN, archived : BOOLEAN,
                sync : {"synced", "unmapped", "archived", "local_only"}, generation : Nat,
                location : Places]

AuthorizedRuns == [phase : {"authorized"}, location : ShopLocations]
ListingRuns == [phase : {"listing", "staffing"}, location : ShopLocations, generation : Nat,
                services : SUBSET ImportedServices,
                bookable : SUBSET (ImportedServices \cup ImportedStaff)]
ListedRuns == [phase : {"listed"}, location : ShopLocations, generation : Nat,
               services : SUBSET ImportedServices,
               bookable : SUBSET (ImportedServices \cup ImportedStaff),
               staff : SUBSET ImportedStaff]
EndedRuns == [phase : {"applied", "failed"}, generation : Nat]
SnapshotRows == {IdleSnapshot} \cup AuthorizedRuns \cup ListingRuns \cup ListedRuns \cup EndedRuns

ShopTyped ==
    /\ shop \in ShopRows
    /\ shop.synced => shop.location # NoPlaceYet
    /\ shop.status = "active" => shop.synced

(* Archived records are linked as archived, only active ones are bookable, *)
(* and what is local is never linked.                                      *)
RecordIs(row, source) ==
    \/ row = NoRecord
    \/ /\ row \in CatalogRows /\ row.source = source
       /\ row.archived = (row.sync = "archived") /\ (row.ai => row.active)
       /\ source = "local" => row.sync # "synced"
SourceOf(s) == IF s \in ImportedServices THEN "imported" ELSE "local"

RecordsTyped ==
    /\ services \in [ImportedServices \cup LocalServices -> CatalogRows \cup {NoRecord}]
    /\ staff \in [ImportedStaff -> CatalogRows \cup {NoRecord}]
    /\ \A s \in ImportedServices \cup LocalServices : RecordIs(services[s], SourceOf(s))
    /\ \A m \in ImportedStaff : RecordIs(staff[m], "imported")
EditIsLocal ==
    edit # NoPlaceYet => edit \in LocalServices /\ services[edit] # NoRecord

(* What could be offered is of one generation and one location, whether or *)
(* not the AI may book it.                                                 *)
ListedAs(row, g, l) ==
    row # NoRecord /\ row.active /\ row.sync = "synced" => row.generation = g /\ row.location = l
AllListed(g, l) ==
    /\ \A s \in ImportedServices \cup LocalServices : ListedAs(services[s], g, l)
    /\ \A m \in ImportedStaff : ListedAs(staff[m], g, l)

(* A snapshot of the newest generation has a location, and when it has     *)
(* been applied it is what is listed.                                      *)
RunFits(run) ==
    run \in ListingRuns \cup ListedRuns \cup EndedRuns =>
        /\ run.generation <= shop.generation
        /\ run.generation = shop.generation => shop.location # NoPlaceYet
        /\ run.phase = "applied" /\ run.generation = shop.generation =>
              AllListed(shop.generation, shop.location)
SnapshotsTyped == snapshot \in [SyncRequests -> SnapshotRows]
SnapshotsFit == \A r \in SyncRequests : RunFits(snapshot[r])
ActiveIsListed == shop.status = "active" => AllListed(shop.generation, shop.location)

CatalogInv ==
    /\ ShopTyped /\ RecordsTyped /\ EditIsLocal /\ SnapshotsTyped /\ SnapshotsFit /\ ActiveIsListed

-----------------------------------------------------------------------------
(* The connection.                                                         *)

(* The connection moves to another generation, or keeps its location.      *)
LEMMA ShopMoves ==
    ASSUME CatalogInv, ShopTyped', UNCHANGED <<services, staff, edit>>,
           \/ shop'.generation = shop.generation + 1
           \/ shop'.generation = shop.generation /\ shop'.location = shop.location
    PROVE  /\ RecordsTyped' /\ EditIsLocal'
           /\ \A run : RunFits(run) => RunFits(run)'
           /\ shop'.generation = shop.generation /\ shop'.location = shop.location =>
                 (AllListed(shop.generation, shop.location) =>
                     AllListed(shop.generation, shop.location)')
<1>1. shop.generation \in Nat /\ shop'.generation \in Nat
  BY DEF CatalogInv, ShopTyped, ShopRows
<1>2. RecordsTyped' /\ EditIsLocal'
  BY DEF CatalogInv, RecordsTyped, EditIsLocal
<1>3. shop'.generation = shop.generation /\ shop'.location = shop.location =>
         (AllListed(shop.generation, shop.location) => AllListed(shop.generation, shop.location)')
  BY DEF AllListed
<1>4. ASSUME NEW run, RunFits(run) PROVE RunFits(run)'
  <2> SUFFICES ASSUME run \in ListingRuns \cup ListedRuns \cup EndedRuns
               PROVE  /\ run.generation <= shop'.generation
                      /\ run.generation = shop'.generation => shop'.location # NoPlaceYet
                      /\ run.phase = "applied" /\ run.generation = shop'.generation =>
                            AllListed(shop.generation, shop.location)'
    BY DEF RunFits
  <2>1. run.generation \in Nat
    BY DEF ListingRuns, ListedRuns, EndedRuns
  <2>2. /\ run.generation <= shop.generation
        /\ run.generation = shop.generation => shop.location # NoPlaceYet
        /\ run.phase = "applied" /\ run.generation = shop.generation =>
              AllListed(shop.generation, shop.location)
    BY <1>4 DEF RunFits
  <2>3. CASE shop'.generation = shop.generation + 1
    BY <1>1, <2>1, <2>2, <2>3
  <2>4. CASE shop'.generation = shop.generation /\ shop'.location = shop.location
    BY <1>3, <2>1, <2>2, <2>4
  <2> QED BY <2>3, <2>4
<1> QED BY <1>2, <1>3, <1>4

LEMMA ConnectionMoves ==
    ASSUME CatalogInv, ShopTyped', UNCHANGED <<services, staff, edit, snapshot>>,
           \/ shop' = shop
           \/ shop'.generation = shop.generation + 1 /\ shop'.status # "active"
           \/ /\ shop'.generation = shop.generation /\ shop'.location = shop.location
              /\ shop'.status # "active"
    PROVE  CatalogInv'
<1>1. RecordsTyped' /\ EditIsLocal' /\ \A run : RunFits(run) => RunFits(run)'
  BY ShopMoves
<1>2. SnapshotsTyped' /\ SnapshotsFit'
  BY <1>1 DEF CatalogInv, SnapshotsTyped, SnapshotsFit
<1>3. ActiveIsListed'
  BY DEF CatalogInv, ActiveIsListed, AllListed
<1> QED BY <1>1, <1>2, <1>3 DEF CatalogInv

LEMMA AuthorizationKeeps ==
    ASSUME CatalogInv, NEW s, connectURL(s) \/ OAuthStateExpires(s) \/ ConsumeOAuthState(s)
    PROVE  CatalogInv'
<1>1. UNCHANGED <<shop, services, staff, edit, snapshot>>
  BY DEF connectURL, OAuthStateExpires, ConsumeOAuthState
<1>2. ShopTyped'
  BY <1>1 DEF CatalogInv, ShopTyped
<1> QED BY <1>1, <1>2, ConnectionMoves

LEMMA ConnectKeeps ==
    ASSUME CatalogInv, NEW s, NEW m \in Merchants, Connect(s, m)
    PROVE  CatalogInv'
<1>1. UNCHANGED <<services, staff, edit, snapshot>>
  BY DEF Connect
<1>2. PICK old \in ShopRows : old = shop
  BY DEF CatalogInv, ShopTyped
<1>3. (old.synced => old.location # NoPlaceYet) /\ (old.status = "active" => old.synced)
  BY <1>2 DEF CatalogInv, ShopTyped
<1>4. CASE shop' = shop
  BY <1>1, <1>4, ConnectionMoves DEF CatalogInv, ShopTyped
<1>5. CASE old.generation < MaxSnapshots /\ shop' = UpsertedConnection(m)
  <2>1. old.generation \in Nat /\ old.generation + 1 \in 0 .. MaxSnapshots
    BY <1>5, CatalogConstants DEF ShopRows
  <2>2. PICK next \in 0 .. MaxSnapshots : next = old.generation + 1
    BY <2>1
  <2>3. \/ shop' = [old EXCEPT !.status = "connected"]
        \/ shop' = [old EXCEPT !.status = "connected", !.merchant = m]
        \/ shop' = [status |-> "connected", merchant |-> m, location |-> NoPlaceYet,
                    generation |-> next, synced |-> FALSE]
    BY <1>2, <1>5, <2>2 DEF UpsertedConnection
  <2>4. CASE \/ shop' = [old EXCEPT !.status = "connected"]
             \/ shop' = [old EXCEPT !.status = "connected", !.merchant = m]
    BY <1>1, <1>2, <1>3, <2>4, ConnectionMoves DEF ShopRows, ShopTyped
  <2>5. CASE shop' = [status |-> "connected", merchant |-> m, location |-> NoPlaceYet,
                      generation |-> next, synced |-> FALSE]
    BY <1>1, <1>2, <2>2, <2>5, ConnectionMoves DEF ShopRows, Places, ShopTyped
  <2> QED BY <2>3, <2>4, <2>5
<1> QED BY <1>2, <1>4, <1>5 DEF Connect

LEMMA LocationKeeps ==
    ASSUME CatalogInv, NEW l \in ShopLocations, UpdateLocation(l)
    PROVE  CatalogInv'
<1>1. UNCHANGED <<services, staff, edit, snapshot>>
  BY DEF UpdateLocation
<1>2. PICK old \in ShopRows : old = shop
  BY DEF CatalogInv, ShopTyped
<1>3. CASE shop' = shop
  BY <1>1, <1>3, ConnectionMoves DEF CatalogInv, ShopTyped
<1>4. CASE shop' # shop
  <2>1. old.generation \in Nat /\ old.generation + 1 \in 0 .. MaxSnapshots
    BY <1>2, CatalogConstants DEF ShopRows, UpdateLocation
  <2>2. PICK next \in 0 .. MaxSnapshots : next = old.generation + 1
    BY <2>1
  <2>3. shop' = [old EXCEPT !.location = l, !.generation = next, !.synced = FALSE,
                            !.status = "connected"]
    BY <1>2, <1>4, <2>2 DEF UpdateLocation, UpdatedLocation
  <2>4. /\ shop' \in ShopRows /\ shop'.status = "connected" /\ shop'.synced = FALSE
        /\ shop'.generation = next
    BY <2>3 DEF ShopRows, Places
  <2>5. ShopTyped'
    BY <2>4 DEF ShopTyped
  <2> QED BY <1>1, <1>2, <2>2, <2>4, <2>5, ConnectionMoves
<1> QED BY <1>3, <1>4

-----------------------------------------------------------------------------
(* The import.                                                             *)

(* A request goes on, and the connection and the records stay.             *)
LEMMA SnapshotGoesOn ==
    ASSUME CatalogInv, NEW r \in SyncRequests, NEW new \in SnapshotRows, RunFits(new),
           snapshot' = [snapshot EXCEPT ![r] = new], UNCHANGED <<shop, services, staff, edit>>
    PROVE  CatalogInv'
<1>1. ShopTyped' /\ RecordsTyped' /\ EditIsLocal' /\ ActiveIsListed'
  BY DEF CatalogInv, ShopTyped, RecordsTyped, EditIsLocal, ActiveIsListed, AllListed
<1>2. \A run : RunFits(run) => RunFits(run)'
  BY DEF RunFits, AllListed
<1>3. /\ snapshot' \in [SyncRequests -> SnapshotRows] /\ snapshot'[r] = new
      /\ \A q \in SyncRequests \ {r} : snapshot'[q] = snapshot[q]
  BY DEF CatalogInv, SnapshotsTyped
<1>4. \A q \in SyncRequests : RunFits(snapshot'[q])
  BY <1>3 DEF CatalogInv, SnapshotsFit
<1>5. SnapshotsTyped' /\ SnapshotsFit'
  BY <1>2, <1>3, <1>4 DEF SnapshotsTyped, SnapshotsFit
<1> QED BY <1>1, <1>5 DEF CatalogInv

(* The rows of a snapshot tell their phase.                                *)
LEMMA SnapshotPhases ==
    ASSUME CatalogInv, NEW r \in SyncRequests
    PROVE  /\ snapshot[r] \in SnapshotRows /\ RunFits(snapshot[r])
           /\ snapshot[r].phase = "authorized" => snapshot[r] \in AuthorizedRuns
           /\ snapshot[r].phase \in {"listing", "staffing"} => snapshot[r] \in ListingRuns
           /\ snapshot[r].phase = "listed" => snapshot[r] \in ListedRuns
           /\ snapshot[r].phase \in {"applied", "failed"} => snapshot[r] \in EndedRuns
<1>1. snapshot[r] \in SnapshotRows /\ RunFits(snapshot[r])
  BY DEF CatalogInv, SnapshotsTyped, SnapshotsFit
<1>2. PICK run : run = snapshot[r]
  OBVIOUS
<1>3. /\ run = IdleSnapshot => run.phase = "idle"
      /\ run \in AuthorizedRuns => run.phase = "authorized"
      /\ run \in ListingRuns => run.phase \in {"listing", "staffing"}
      /\ run \in ListedRuns => run.phase = "listed"
      /\ run \in EndedRuns => run.phase \in {"applied", "failed"}
  BY DEF IdleSnapshot, AuthorizedRuns, ListingRuns, ListedRuns, EndedRuns
<1>4. run \in SnapshotRows
  BY <1>1, <1>2
<1> QED BY <1>1, <1>2, <1>3, <1>4 DEF SnapshotRows

LEMMA IdleFits == IdleSnapshot \in SnapshotRows /\ RunFits(IdleSnapshot)
BY DEF SnapshotRows, RunFits, IdleSnapshot, ListingRuns, ListedRuns, EndedRuns

LEMMA AccessTokenKeeps ==
    ASSUME CatalogInv, NEW r \in SyncRequests, accessTokenAndLocation(r)
    PROVE  CatalogInv'
<1>1. PICK new : new = [phase |-> "authorized", location |-> shop.location]
  OBVIOUS
<1>2. /\ snapshot' = [snapshot EXCEPT ![r] = new] /\ UNCHANGED <<shop, services, staff, edit>>
      /\ shop.location # NoPlaceYet
  BY <1>1 DEF accessTokenAndLocation
<1>3. shop.location \in ShopLocations
  BY <1>2 DEF CatalogInv, ShopTyped, ShopRows, Places
<1>4. new \in SnapshotRows /\ new.phase = "authorized"
  BY <1>1, <1>3 DEF SnapshotRows, AuthorizedRuns
<1>5. RunFits(new)
  BY <1>4 DEF RunFits, ListingRuns, ListedRuns, EndedRuns
<1> QED BY <1>2, <1>4, <1>5, SnapshotGoesOn

LEMMA StopKeeps ==
    ASSUME CatalogInv, NEW r \in SyncRequests, SyncRequestStops(r)
    PROVE  CatalogInv'
BY IdleFits, SnapshotGoesOn DEF SyncRequestStops

(* A snapshot fails with the generation it has.                            *)
LEMMA FailedFits ==
    ASSUME CatalogInv, NEW run \in ListingRuns \cup ListedRuns, RunFits(run), NEW new,
           new = [phase |-> "failed", generation |-> run.generation]
    PROVE  new \in SnapshotRows /\ RunFits(new)
<1>1. run.generation \in Nat
  BY DEF ListingRuns, ListedRuns
<1>2. new \in EndedRuns /\ new.phase = "failed" /\ new.generation = run.generation
  BY <1>1 DEF EndedRuns
<1>3. RunFits(new)
  BY <1>2 DEF RunFits
<1> QED BY <1>2, <1>3 DEF SnapshotRows

LEMMA BeginKeeps ==
    ASSUME CatalogInv, NEW r \in SyncRequests, BeginProviderSnapshot(r)
    PROVE  CatalogInv'
<1>1. PICK old \in ShopRows : old = shop
  BY DEF CatalogInv, ShopTyped
<1>2. CASE shop' = shop /\ snapshot' = [snapshot EXCEPT ![r] = IdleSnapshot]
  BY <1>2, IdleFits, SnapshotGoesOn DEF BeginProviderSnapshot
<1>3. CASE /\ shop.location = snapshot[r].location
           /\ shop' = [shop EXCEPT !.generation = @ + 1, !.status = "syncing", !.synced = FALSE]
           /\ snapshot' = [snapshot EXCEPT ![r] =
                 [phase |-> "listing", location |-> shop.location,
                  generation |-> shop.generation + 1, services |-> {}, bookable |-> {}]]
  <2>1. old.generation \in Nat /\ old.generation + 1 \in 0 .. MaxSnapshots
    BY <1>1, CatalogConstants DEF ShopRows, BeginProviderSnapshot
  <2>2. PICK next \in 0 .. MaxSnapshots : next = old.generation + 1
    BY <2>1
  <2>3. shop' = [old EXCEPT !.generation = next, !.status = "syncing", !.synced = FALSE]
    BY <1>1, <1>3, <2>2
  <2>4. /\ shop' \in ShopRows /\ shop'.generation = next /\ shop'.status = "syncing"
        /\ shop'.synced = FALSE /\ shop'.location = old.location
    BY <2>3 DEF ShopRows
  <2>5. ShopTyped'
    BY <2>4 DEF ShopTyped
  <2>6. old.location \in ShopLocations
    BY <1>1, <1>3, SnapshotPhases DEF BeginProviderSnapshot, AuthorizedRuns
  <2>7. UNCHANGED <<services, staff, edit>>
    BY DEF BeginProviderSnapshot
  <2>8. RecordsTyped' /\ EditIsLocal' /\ \A run : RunFits(run) => RunFits(run)'
    BY <1>1, <2>2, <2>4, <2>5, <2>7, ShopMoves
  <2>9. PICK new : new = [phase |-> "listing", location |-> old.location, generation |-> next,
                          services |-> {}, bookable |-> {}]
    OBVIOUS
  <2>10. new \in ListingRuns /\ new.phase = "listing" /\ new.generation = next
    BY <2>1, <2>2, <2>6, <2>9 DEF ListingRuns
  <2>11. RunFits(new)'
    BY <2>1, <2>2, <2>4, <2>6, <2>10, CatalogConstants DEF NoPlaceYet, RunFits
  <2>12. snapshot' = [snapshot EXCEPT ![r] = new]
    BY <1>1, <1>3, <2>2, <2>9
  <2>13. /\ snapshot' \in [SyncRequests -> SnapshotRows] /\ snapshot'[r] = new
         /\ \A q \in SyncRequests \ {r} : snapshot'[q] = snapshot[q]
    BY <2>10, <2>12 DEF CatalogInv, SnapshotsTyped, SnapshotRows
  <2>14. ASSUME NEW q \in SyncRequests PROVE RunFits(snapshot[q])'
    <3>1. PICK run : run = snapshot'[q] /\ RunFits(run)'
      BY <2>8, <2>11, <2>13 DEF CatalogInv, SnapshotsFit
    <3> QED BY <3>1 DEF RunFits
  <2>15. SnapshotsTyped' /\ SnapshotsFit' /\ ActiveIsListed'
    BY <2>4, <2>13, <2>14 DEF SnapshotsTyped, SnapshotsFit, ActiveIsListed
  <2> QED BY <2>5, <2>8, <2>15 DEF CatalogInv
<1> QED BY <1>2, <1>3 DEF BeginProviderSnapshot

LEMMA ListServicesKeeps ==
    ASSUME CatalogInv, NEW r \in SyncRequests, ListServices(r)
    PROVE  CatalogInv'
<1>1. PICK run \in ListingRuns : run = snapshot[r] /\ RunFits(run)
  BY SnapshotPhases DEF ListServices
<1>2. UNCHANGED <<shop, services, staff, edit>>
  BY DEF ListServices
<1>3. ASSUME NEW present \in SUBSET ImportedServices, NEW bookable \in SUBSET present,
             snapshot' = [snapshot EXCEPT ![r] = mapCatalogServicesForLocation(r, present, bookable)]
      PROVE  CatalogInv'
  <2>1. PICK new : new = [run EXCEPT !.phase = "staffing", !.services = present, !.bookable = bookable]
    OBVIOUS
  <2>2. snapshot' = [snapshot EXCEPT ![r] = new]
    BY <1>1, <1>3, <2>1 DEF mapCatalogServicesForLocation
  <2>3. bookable \in SUBSET (ImportedServices \cup ImportedStaff)
    OBVIOUS
  <2>4. new \in ListingRuns /\ new.phase = "staffing" /\ new.generation = run.generation
    BY <2>1, <2>3 DEF ListingRuns
  <2>5. RunFits(new)
    BY <1>1, <2>4 DEF RunFits
  <2> QED BY <1>2, <2>2, <2>4, <2>5, SnapshotGoesOn DEF SnapshotRows
<1>4. ASSUME snapshot' = [snapshot EXCEPT ![r] = [phase |-> "failed", generation |-> @.generation]]
      PROVE  CatalogInv'
  <2>1. PICK new : new = [phase |-> "failed", generation |-> run.generation]
    OBVIOUS
  <2>2. snapshot' = [snapshot EXCEPT ![r] = new]
    BY <1>1, <1>4, <2>1
  <2> QED BY <1>1, <1>2, <2>1, <2>2, FailedFits, SnapshotGoesOn
<1> QED BY <1>3, <1>4 DEF ListServices

LEMMA ListStaffKeeps ==
    ASSUME CatalogInv, NEW r \in SyncRequests, ListStaff(r)
    PROVE  CatalogInv'
<1>1. PICK run \in ListingRuns : run = snapshot[r] /\ RunFits(run)
  BY SnapshotPhases DEF ListStaff
<1>2. UNCHANGED <<shop, services, staff, edit>>
  BY DEF ListStaff
<1>3. ASSUME NEW present \in SUBSET ImportedStaff, NEW bookable \in SUBSET present,
             snapshot' = [snapshot EXCEPT ![r] =
              [phase |-> "listed", location |-> @.location, generation |-> @.generation,
               services |-> @.services, bookable |-> @.bookable \cup bookable,
               staff |-> present]]
      PROVE  CatalogInv'
  <2>1. PICK new : new = [phase |-> "listed", location |-> run.location, generation |-> run.generation,
                          services |-> run.services, bookable |-> run.bookable \cup bookable,
                          staff |-> present]
    OBVIOUS
  <2>2. snapshot' = [snapshot EXCEPT ![r] = new]
    BY <1>1, <1>3, <2>1
  <2>3. run.bookable \cup bookable \in SUBSET (ImportedServices \cup ImportedStaff)
    BY DEF ListingRuns
  <2>4. new \in ListedRuns /\ new.phase = "listed" /\ new.generation = run.generation
    BY <2>1, <2>3 DEF ListingRuns, ListedRuns
  <2>5. RunFits(new)
    BY <1>1, <2>4 DEF RunFits
  <2> QED BY <1>2, <2>2, <2>4, <2>5, SnapshotGoesOn DEF SnapshotRows
<1>4. ASSUME snapshot' = [snapshot EXCEPT ![r] = [phase |-> "failed", generation |-> @.generation]]
      PROVE  CatalogInv'
  <2>1. PICK new : new = [phase |-> "failed", generation |-> run.generation]
    OBVIOUS
  <2>2. snapshot' = [snapshot EXCEPT ![r] = new]
    BY <1>1, <1>4, <2>1
  <2> QED BY <1>1, <1>2, <2>1, <2>2, FailedFits, SnapshotGoesOn
<1> QED BY <1>3, <1>4 DEF ListStaff

(* What an import makes of a record.                                       *)
LEMMA RowsAreRecords == NoRecord \notin CatalogRows
BY DEF NoRecord, CatalogRows

LEMMA ImportedIsListed ==
    ASSUME NEW row, RecordIs(row, "imported"), NEW bookable \in BOOLEAN, NEW g \in Nat,
           NEW l \in Places, NEW new, new = ImportedRecord(row, bookable, g, l)
    PROVE  RecordIs(new, "imported") /\ new \in CatalogRows /\ ListedAs(new, g, l)
<1>1. CASE row = NoRecord
  BY <1>1 DEF ImportedRecord, CatalogRows, RecordIs, ListedAs
<1>2. CASE row # NoRecord /\ row.archived
  BY <1>2 DEF ImportedRecord, RecordIs, CatalogRows, ListedAs
<1>3. CASE row # NoRecord /\ ~ row.archived
  <2>1. row \in CatalogRows /\ row.source = "imported"
    BY <1>3 DEF RecordIs
  <2>2. PICK on \in BOOLEAN : on = (row.ai /\ bookable)
    OBVIOUS
  <2>3. new = [row EXCEPT !.active = TRUE, !.ai = on, !.sync = "synced", !.generation = g,
                          !.location = l]
    BY <1>3, <2>2 DEF ImportedRecord
  <2>4. /\ new \in CatalogRows /\ new.source = "imported" /\ new.archived = FALSE
        /\ new.sync = "synced" /\ new.active = TRUE /\ new.generation = g /\ new.location = l
    BY <1>3, <2>1, <2>3 DEF CatalogRows
  <2> QED BY <2>4 DEF RecordIs, ListedAs
<1> QED BY <1>1, <1>2, <1>3

LEMMA MissingIsUnlisted ==
    ASSUME NEW row, NEW source \in {"imported", "local"}, RecordIs(row, source), NEW g, NEW l,
           NEW new, new = MissingRecord(row)
    PROVE  /\ RecordIs(new, source) /\ ListedAs(new, g, l)
           /\ new = NoRecord <=> row = NoRecord
<1>1. CASE row = NoRecord
  BY <1>1 DEF MissingRecord, RecordIs, ListedAs
<1>2. CASE row # NoRecord /\ (row.source # "imported" \/ row.archived)
  BY <1>2 DEF MissingRecord, RecordIs, ListedAs
<1>3. CASE row # NoRecord /\ row.source = "imported" /\ ~ row.archived
  BY <1>3, RowsAreRecords DEF MissingRecord, RecordIs, CatalogRows, ListedAs
<1> QED BY <1>1, <1>2, <1>3

LEMMA ApplyImportKeeps ==
    ASSUME CatalogInv, NEW r \in SyncRequests, ApplyProviderSnapshot(r)
    PROVE  CatalogInv'
<1>1. PICK run \in ListedRuns : run = snapshot[r] /\ RunFits(run)
  BY SnapshotPhases DEF ApplyProviderSnapshot
<1>2. UNCHANGED <<shop, edit>>
  BY DEF ApplyProviderSnapshot
<1>3. ASSUME UNCHANGED <<services, staff>>,
             snapshot' = [snapshot EXCEPT ![r] = [phase |-> "failed", generation |-> run.generation]]
      PROVE  CatalogInv'
  BY <1>1, <1>2, <1>3, FailedFits, SnapshotGoesOn
<1>4. ASSUME SnapshotCurrent(run),
             services' = [s \in DOMAIN services |->
                 IF s \in run.services THEN upsertServicesTx(s, run)
                 ELSE markMissingImportedServicesTx(s)],
             staff' = [m \in ImportedStaff |->
                 IF m \in run.staff THEN upsertStaffTx(m, run) ELSE markMissingImportedStaffTx(m)],
             snapshot' = [snapshot EXCEPT ![r] = [phase |-> "applied", generation |-> run.generation]]
      PROVE  CatalogInv'
  <2> DEFINE g == run.generation
             l == run.location
  <2>1. /\ g \in Nat /\ l \in Places /\ l = shop.location /\ g = shop.generation
        /\ run.services \subseteq ImportedServices
        /\ l # NoPlaceYet
    BY <1>1, <1>4, CatalogConstants DEF ListedRuns, Places, SnapshotCurrent, NoPlaceYet
  <2>2. /\ DOMAIN services = ImportedServices \cup LocalServices
        /\ \A s \in ImportedServices \cup LocalServices : RecordIs(services[s], SourceOf(s))
        /\ \A m \in ImportedStaff : RecordIs(staff[m], "imported")
    BY DEF CatalogInv, RecordsTyped
  <2>3. ASSUME NEW s \in ImportedServices \cup LocalServices
        PROVE  /\ RecordIs(services'[s], SourceOf(s)) /\ ListedAs(services'[s], g, l)
               /\ services[s] # NoRecord => services'[s] # NoRecord
    <3>1. CASE s \in run.services
      <4>1. SourceOf(s) = "imported"
        BY <2>1, <3>1 DEF SourceOf
      <4>2. services'[s] = ImportedRecord(services[s], s \in run.bookable, g, l)
        BY <1>4, <2>2, <3>1 DEF upsertServicesTx
      <4>3. (s \in run.bookable) \in BOOLEAN
        OBVIOUS
      <4> QED BY <2>1, <2>2, <4>1, <4>2, <4>3, ImportedIsListed, RowsAreRecords
    <3>2. CASE s \notin run.services
      BY <1>4, <2>2, <3>2, MissingIsUnlisted DEF SourceOf, markMissingImportedServicesTx
    <3> QED BY <3>1, <3>2
  <2>4. ASSUME NEW m \in ImportedStaff
        PROVE  RecordIs(staff'[m], "imported") /\ ListedAs(staff'[m], g, l)
    <3>1. CASE m \in run.staff
      <4>1. staff'[m] = ImportedRecord(staff[m], m \in run.bookable, g, l)
        BY <1>4, <3>1 DEF upsertStaffTx
      <4>2. (m \in run.bookable) \in BOOLEAN
        OBVIOUS
      <4> QED BY <2>1, <2>2, <4>1, <4>2, ImportedIsListed
    <3>2. CASE m \notin run.staff
      BY <1>4, <2>2, <3>2, MissingIsUnlisted DEF markMissingImportedStaffTx
    <3> QED BY <3>1, <3>2
  <2>5. RecordsTyped'
    BY <1>4, <2>2, <2>3, <2>4 DEF RecordIs, RecordsTyped
  <2>6. AllListed(shop.generation, shop.location)'
    BY <1>2, <2>1, <2>3, <2>4 DEF AllListed
  <2>7. ShopTyped' /\ EditIsLocal' /\ ActiveIsListed'
    BY <1>2, <2>3, <2>6 DEF CatalogInv, ShopTyped, EditIsLocal, ActiveIsListed
  <2>8. PICK new : new = [phase |-> "applied", generation |-> g]
    OBVIOUS
  <2>9. new \in EndedRuns /\ new.generation = g
    BY <2>1, <2>8 DEF EndedRuns
  <2>10. /\ snapshot' \in [SyncRequests -> SnapshotRows] /\ snapshot'[r] = new
         /\ \A q \in SyncRequests \ {r} : snapshot'[q] = snapshot[q]
    BY <1>4, <2>8, <2>9 DEF CatalogInv, SnapshotsTyped, SnapshotRows
  <2>11. RunFits(new)'
    BY <1>2, <2>1, <2>6, <2>9 DEF RunFits
  <2>12. ASSUME NEW q \in SyncRequests PROVE RunFits(snapshot[q])'
    BY <1>2, <2>6, <2>10, <2>11, <2>12 DEF RunFits, CatalogInv, SnapshotsFit
  <2>13. SnapshotsTyped' /\ SnapshotsFit'
    BY <2>10, <2>12 DEF SnapshotsTyped, SnapshotsFit
  <2> QED BY <2>5, <2>7, <2>13 DEF CatalogInv
<1> QED BY <1>1, <1>3, <1>4 DEF ApplyProviderSnapshot

LEMMA CompleteKeeps ==
    ASSUME CatalogInv, NEW r \in SyncRequests, MarkSyncCompleteForGeneration(r)
    PROVE  CatalogInv'
<1>1. PICK run \in EndedRuns : run = snapshot[r] /\ RunFits(run)
  BY SnapshotPhases DEF MarkSyncCompleteForGeneration
<1>2. /\ UNCHANGED <<services, staff, edit>>
      /\ snapshot' = [snapshot EXCEPT ![r] = IdleSnapshot]
  BY DEF MarkSyncCompleteForGeneration
<1>3. PICK old \in ShopRows : old = shop
  BY DEF CatalogInv, ShopTyped
<1>4. CASE shop' = shop
  BY <1>2, <1>4, IdleFits, SnapshotGoesOn
<1>5. CASE shop.generation = run.generation /\ shop' # shop
  <2>1. PICK status \in {"active", "error"}, synced \in BOOLEAN :
          /\ status = IF run.phase = "applied" THEN "active" ELSE "error"
          /\ synced = (run.phase = "applied")
    OBVIOUS
  <2>2. shop' = [old EXCEPT !.status = status, !.synced = synced]
    BY <1>1, <1>3, <1>5, <2>1 DEF MarkSyncCompleteForGeneration
  <2>3. /\ shop' \in ShopRows /\ shop'.status = status /\ shop'.synced = synced
        /\ shop'.generation = old.generation /\ shop'.location = old.location
    BY <2>2 DEF ShopRows
  <2>4. shop.location # NoPlaceYet /\ (run.phase = "applied" => AllListed(shop.generation, shop.location))
    BY <1>1, <1>5 DEF RunFits
  <2>5. ShopTyped'
    BY <1>3, <2>1, <2>3, <2>4 DEF ShopTyped
  <2>6. /\ RecordsTyped' /\ EditIsLocal' /\ \A other : RunFits(other) => RunFits(other)'
        /\ AllListed(shop.generation, shop.location) => AllListed(shop.generation, shop.location)'
    BY <1>2, <1>3, <2>3, <2>5, ShopMoves
  <2>7. ActiveIsListed'
    BY <2>1, <2>3, <2>4, <2>6 DEF ActiveIsListed
  <2>8. /\ snapshot' \in [SyncRequests -> SnapshotRows] /\ snapshot'[r] = IdleSnapshot
        /\ \A q \in SyncRequests \ {r} : snapshot'[q] = snapshot[q]
    BY <1>2, IdleFits DEF CatalogInv, SnapshotsTyped
  <2>9. ASSUME NEW q \in SyncRequests PROVE RunFits(snapshot[q])'
    <3>1. PICK other : other = snapshot'[q] /\ RunFits(other)'
      BY <2>6, <2>8, IdleFits DEF CatalogInv, SnapshotsFit
    <3> QED BY <3>1 DEF RunFits
  <2> QED BY <2>5, <2>6, <2>7, <2>8, <2>9 DEF CatalogInv, SnapshotsTyped, SnapshotsFit
<1> QED BY <1>1, <1>4, <1>5 DEF MarkSyncCompleteForGeneration

-----------------------------------------------------------------------------
(* The owner's records.                                                    *)

(* A service is written; what could not be offered stays so.               *)
LEMMA ServiceWritten ==
    ASSUME CatalogInv, OwnerOnly, NEW s \in ImportedServices \cup LocalServices, NEW new,
           RecordIs(new, SourceOf(s)), new # NoRecord,
           \A g, l : ListedAs(services[s], g, l) => ListedAs(new, g, l),
           services' = [services EXCEPT ![s] = new], UNCHANGED staff,
           edit' = edit \/ edit' = NoPlaceYet \/ (edit' \in LocalServices /\ services[edit'] # NoRecord)
    PROVE  CatalogInv'
<1>1. /\ services' \in [ImportedServices \cup LocalServices -> CatalogRows \cup {NoRecord}]
      /\ services'[s] = new
      /\ \A t \in (ImportedServices \cup LocalServices) \ {s} : services'[t] = services[t]
  BY DEF CatalogInv, RecordsTyped, RecordIs
<1>2. RecordsTyped'
  BY <1>1 DEF CatalogInv, RecordsTyped
<1>3. EditIsLocal'
  BY <1>1 DEF CatalogInv, EditIsLocal
<1>4. \A g, l : AllListed(g, l) => AllListed(g, l)'
  BY <1>1 DEF AllListed
<1>5. \A run : RunFits(run) => RunFits(run)'
  BY <1>4 DEF OwnerOnly, RunFits, AllListed
<1>6. SnapshotsTyped' /\ SnapshotsFit' /\ ShopTyped'
  BY <1>5 DEF OwnerOnly, CatalogInv, SnapshotsTyped, SnapshotsFit, ShopTyped
<1>7. ActiveIsListed'
  BY <1>4 DEF OwnerOnly, CatalogInv, ActiveIsListed, AllListed
<1> QED BY <1>2, <1>3, <1>6, <1>7 DEF CatalogInv

LEMMA StaffWritten ==
    ASSUME CatalogInv, OwnerOnly, NEW m \in ImportedStaff, NEW new,
           RecordIs(new, "imported"),
           \A g, l : ListedAs(staff[m], g, l) => ListedAs(new, g, l),
           staff' = [staff EXCEPT ![m] = new], UNCHANGED <<services, edit>>
    PROVE  CatalogInv'
<1>1. /\ staff' \in [ImportedStaff -> CatalogRows \cup {NoRecord}] /\ staff'[m] = new
      /\ \A t \in ImportedStaff \ {m} : staff'[t] = staff[t]
  BY DEF CatalogInv, RecordsTyped, RecordIs
<1>2. RecordsTyped' /\ EditIsLocal'
  BY <1>1 DEF CatalogInv, RecordsTyped, EditIsLocal
<1>3. \A g, l : AllListed(g, l) => AllListed(g, l)'
  BY <1>1 DEF AllListed
<1>4. \A run : RunFits(run) => RunFits(run)'
  BY <1>3 DEF OwnerOnly, RunFits, AllListed
<1>5. SnapshotsTyped' /\ SnapshotsFit' /\ ShopTyped'
  BY <1>4 DEF OwnerOnly, CatalogInv, SnapshotsTyped, SnapshotsFit, ShopTyped
<1>6. ActiveIsListed'
  BY <1>3 DEF OwnerOnly, CatalogInv, ActiveIsListed, AllListed
<1> QED BY <1>2, <1>5, <1>6 DEF CatalogInv

LEMMA ArchivedIs ==
    ASSUME NEW row \in CatalogRows, NEW source, RecordIs(row, source), NEW new,
           new = ArchivedRecord(row)
    PROVE  RecordIs(new, source) /\ new # NoRecord /\ \A g, l : ListedAs(new, g, l)
<1>1. new = [row EXCEPT !.active = FALSE, !.ai = FALSE, !.sync = "archived", !.archived = TRUE]
  BY DEF ArchivedRecord
<1>2. row.source = source
  BY RowsAreRecords DEF RecordIs
<1>3. /\ new \in CatalogRows /\ new.source = source /\ new.sync = "archived"
      /\ new.archived = TRUE /\ new.ai = FALSE
  BY <1>1, <1>2 DEF CatalogRows
<1> QED BY <1>3, RowsAreRecords DEF RecordIs, ListedAs

LEMMA SwitchedIs ==
    ASSUME NEW row \in CatalogRows, NEW source, RecordIs(row, source), NEW on \in BOOLEAN, NEW new,
           on => CanEnableRecord(row), new = [row EXCEPT !.ai = on]
    PROVE  /\ RecordIs(new, source) /\ new # NoRecord
           /\ \A g, l : ListedAs(row, g, l) => ListedAs(new, g, l)
<1>1. /\ row.source = source /\ row.archived = (row.sync = "archived")
      /\ source = "local" => row.sync # "synced"
  BY RowsAreRecords DEF RecordIs
<1>2. /\ new \in CatalogRows /\ new.source = row.source /\ new.sync = row.sync
      /\ new.archived = row.archived /\ new.ai = on /\ new.active = row.active
      /\ new.generation = row.generation /\ new.location = row.location
  BY DEF CatalogRows
<1>3. RecordIs(new, source)
  BY <1>1, <1>2 DEF RecordIs, CanEnableRecord
<1> QED BY <1>2, <1>3, RowsAreRecords DEF ListedAs

LEMMA StaffKeep ==
    ASSUME CatalogInv, NEW m \in ImportedStaff,
           ArchiveStaff(m) \/ \E on \in BOOLEAN : UpdateStaffAIBookable(m, on)
    PROVE  CatalogInv'
<1>1. PICK row : row = staff[m]
  OBVIOUS
<1>2. row \in CatalogRows /\ RecordIs(row, "imported") /\ OwnerOnly /\ UNCHANGED <<services, edit>>
  BY <1>1 DEF CatalogInv, RecordsTyped, RecordIs, ArchiveStaff, UpdateStaffAIBookable
<1>3. CASE ArchiveStaff(m)
  <2>1. PICK new : new = ArchivedRecord(row)
    OBVIOUS
  <2>2. staff' = [staff EXCEPT ![m] = new]
    BY <1>1, <1>3, <2>1 DEF ArchiveStaff
  <2> QED BY <1>2, <2>1, <2>2, ArchivedIs, StaffWritten
<1>4. ASSUME NEW on \in BOOLEAN, UpdateStaffAIBookable(m, on) PROVE CatalogInv'
  <2>1. PICK new : new = [row EXCEPT !.ai = on]
    OBVIOUS
  <2>2. staff' = [staff EXCEPT ![m] = new]
    BY <1>1, <1>2, <1>4, <2>1 DEF UpdateStaffAIBookable, CatalogInv, RecordsTyped
  <2>3. on => CanEnableRecord(row)
    BY <1>1, <1>4 DEF UpdateStaffAIBookable, staffCanEnableAIBookingTx
  <2> QED BY <1>1, <1>2, <2>1, <2>2, <2>3, SwitchedIs, StaffWritten
<1> QED BY <1>3, <1>4

LEMMA ServicesKeep ==
    ASSUME CatalogInv, NEW s \in ImportedServices \cup LocalServices,
           ArchiveService(s) \/ \E on \in BOOLEAN : UpdateServiceAIBookable(s, on)
    PROVE  CatalogInv'
<1>1. PICK row : row = services[s]
  OBVIOUS
<1>2. row \in CatalogRows /\ RecordIs(row, SourceOf(s)) /\ OwnerOnly /\ UNCHANGED <<staff, edit>>
  BY <1>1 DEF CatalogInv, RecordsTyped, RecordIs, ArchiveService, UpdateServiceAIBookable
<1>3. CASE ArchiveService(s)
  <2>1. PICK new : new = ArchivedRecord(row)
    OBVIOUS
  <2>2. services' = [services EXCEPT ![s] = new]
    BY <1>1, <1>3, <2>1 DEF ArchiveService
  <2> QED BY <1>2, <2>1, <2>2, ArchivedIs, ServiceWritten
<1>4. ASSUME NEW on \in BOOLEAN, UpdateServiceAIBookable(s, on) PROVE CatalogInv'
  <2>1. PICK new : new = [row EXCEPT !.ai = on]
    OBVIOUS
  <2>2. services' = [services EXCEPT ![s] = new]
    BY <1>1, <1>2, <1>4, <2>1 DEF UpdateServiceAIBookable, CatalogInv, RecordsTyped
  <2>3. on => CanEnableRecord(row)
    BY <1>1, <1>4 DEF UpdateServiceAIBookable, serviceCanEnableAIBookingTx
  <2> QED BY <1>1, <1>2, <2>1, <2>2, <2>3, SwitchedIs, ServiceWritten
<1> QED BY <1>3, <1>4

LEMMA LocalKeep ==
    ASSUME CatalogInv, NEW s \in LocalServices,
           \/ CreateService(s) \/ ReadServiceForUpdate(s)
           \/ \E on \in BOOLEAN : UpdateService(s, on)
    PROVE  CatalogInv'
<1>1. SourceOf(s) = "local" /\ s # NoPlaceYet
  BY CatalogConstants DEF SourceOf, NoPlaceYet
<1>2. CASE CreateService(s)
  <2>1. PICK new : new = [source |-> "local", ai |-> FALSE, active |-> TRUE, archived |-> FALSE,
                          sync |-> "local_only", generation |-> 0, location |-> NoPlaceYet]
    OBVIOUS
  <2>2. services' = [services EXCEPT ![s] = new] /\ OwnerOnly /\ UNCHANGED <<staff, edit>>
    BY <1>2, <2>1 DEF CreateService
  <2>3. new \in CatalogRows /\ RecordIs(new, "local") /\ \A g, l : ListedAs(new, g, l)
    BY <2>1 DEF CatalogRows, RecordIs, ListedAs, Places
  <2> QED BY <1>1, <2>2, <2>3, RowsAreRecords, ServiceWritten
<1>3. CASE ReadServiceForUpdate(s)
  BY <1>3 DEF ReadServiceForUpdate, OwnerOnly, CatalogInv, ShopTyped, RecordsTyped, EditIsLocal,
     SnapshotsTyped, SnapshotsFit, RunFits, ActiveIsListed, AllListed
<1>4. ASSUME NEW on \in BOOLEAN, UpdateService(s, on) PROVE CatalogInv'
  <2>1. PICK row : row = services[s]
    OBVIOUS
  <2>2. /\ row \in CatalogRows /\ RecordIs(row, "local") /\ OwnerOnly /\ UNCHANGED staff
        /\ edit' = NoPlaceYet
    <3>1. edit = s /\ OwnerOnly /\ UNCHANGED staff /\ edit' = NoPlaceYet
      BY <1>4 DEF UpdateService
    <3>2. row # NoRecord
      BY <1>1, <2>1, <3>1 DEF CatalogInv, EditIsLocal
    <3>3. row \in CatalogRows /\ RecordIs(row, "local")
      BY <1>1, <2>1, <3>2 DEF CatalogInv, RecordsTyped
    <3> QED BY <3>1, <3>3
  <2>3. PICK ai \in BOOLEAN : ai = (on /\ row.ai)
    OBVIOUS
  <2>4. PICK new : new = [row EXCEPT !.active = on, !.ai = ai]
    OBVIOUS
  <2>5. services' = [services EXCEPT ![s] = new]
    <3>1. services' = [services EXCEPT ![s].active = on, ![s].ai = on /\ @]
      BY <1>4 DEF UpdateService
    <3>2. services \in [ImportedServices \cup LocalServices -> CatalogRows \cup {NoRecord}]
      BY DEF CatalogInv, RecordsTyped
    <3>3. [row EXCEPT !.active = on].ai = row.ai
      BY <2>2 DEF CatalogRows
    <3> QED BY <2>1, <2>3, <2>4, <3>1, <3>2, <3>3
  <2>6. /\ new \in CatalogRows /\ new.source = row.source /\ new.sync = row.sync
        /\ new.archived = row.archived /\ new.ai = ai /\ new.active = on
    BY <2>2, <2>4 DEF CatalogRows
  <2>7. RecordIs(new, "local") /\ \A g, l : ListedAs(new, g, l)
    BY <2>2, <2>3, <2>6, RowsAreRecords DEF RecordIs, ListedAs
  <2> QED BY <1>1, <2>2, <2>5, <2>6, <2>7, RowsAreRecords, ServiceWritten
<1> QED BY <1>2, <1>3, <1>4

-----------------------------------------------------------------------------
(* Every step of the catalog, and the theorems.                            *)

LEMMA CatalogStep == CatalogInv /\ [CatalogNext]_catalogVars => CatalogInv'
<1> SUFFICES ASSUME CatalogInv, [CatalogNext]_catalogVars PROVE CatalogInv'
  OBVIOUS
<1>1. CASE \E s \in OAuthStates : connectURL(s) \/ OAuthStateExpires(s) \/ ConsumeOAuthState(s)
  BY <1>1, AuthorizationKeeps
<1>2. CASE \E s \in OAuthStates, m \in Merchants : Connect(s, m)
  BY <1>2, ConnectKeeps
<1>3. CASE \E l \in ShopLocations : UpdateLocation(l)
  BY <1>3, LocationKeeps
<1>4. CASE \E r \in SyncRequests :
             \/ accessTokenAndLocation(r) \/ BeginProviderSnapshot(r) \/ ListServices(r)
             \/ ListStaff(r) \/ ApplyProviderSnapshot(r) \/ MarkSyncCompleteForGeneration(r)
             \/ SyncRequestStops(r)
  BY <1>4, AccessTokenKeeps, BeginKeeps, ListServicesKeeps, ListStaffKeeps, ApplyImportKeeps, CompleteKeeps,
     StopKeeps
<1>5. CASE \E s \in LocalServices : \/ CreateService(s) \/ ReadServiceForUpdate(s)
                                    \/ \E on \in BOOLEAN : UpdateService(s, on)
  BY <1>5, LocalKeep
<1>6. CASE \E s \in DOMAIN services : \/ ArchiveService(s)
                                      \/ \E on \in BOOLEAN : UpdateServiceAIBookable(s, on)
  BY <1>6, ServicesKeep DEF CatalogInv, RecordsTyped
<1>7. CASE \E m \in ImportedStaff : \/ ArchiveStaff(m)
                                    \/ \E on \in BOOLEAN : UpdateStaffAIBookable(m, on)
  BY <1>7, StaffKeep
<1>8. CASE UNCHANGED catalogVars
  BY <1>8 DEF catalogVars, CatalogInv, ShopTyped, RecordsTyped, EditIsLocal, SnapshotsTyped,
     SnapshotsFit, RunFits, ActiveIsListed, AllListed
<1> QED BY <1>1, <1>2, <1>3, <1>4, <1>5, <1>6, <1>7, <1>8 DEF CatalogNext

LEMMA CatalogInitially == CatalogInit => CatalogInv
<1> SUFFICES ASSUME CatalogInit PROVE CatalogInv
  OBVIOUS
<1>1. shop = [status |-> "not_connected", merchant |-> NoPlaceYet, location |-> NoPlaceYet,
              generation |-> 0, synced |-> FALSE]
  BY DEF CatalogInit
<1>2. 0 \in 0 .. MaxSnapshots
  BY CatalogConstants
<1>3. shop \in ShopRows
  BY <1>1, <1>2 DEF ShopRows, Places
<1>4. ShopTyped /\ ActiveIsListed
  BY <1>1, <1>3 DEF ShopTyped, ActiveIsListed
<1>5. RecordsTyped /\ EditIsLocal
  BY DEF CatalogInit, RecordsTyped, RecordIs, EditIsLocal
<1>6. SnapshotsTyped /\ SnapshotsFit
  BY IdleFits DEF CatalogInit, SnapshotsTyped, SnapshotsFit
<1> QED BY <1>4, <1>5, <1>6 DEF CatalogInv

(* In every state a snapshot of the newest generation that was applied is  *)
(* all that could be offered.                                              *)
THEOREM CatalogInvariant == CatalogSpec => []CatalogInv
BY CatalogInitially, CatalogStep, PTL DEF CatalogSpec

LEMMA CatalogTypes == CatalogInv => CatalogTypeOK
<1> SUFFICES ASSUME CatalogInv PROVE CatalogTypeOK
  OBVIOUS
<1>1. /\ shop.status \in {"not_connected", "connected", "syncing", "active", "error"}
      /\ shop.merchant \in Merchants \cup {NoPlaceYet}
      /\ shop.location \in ShopLocations \cup {NoPlaceYet}
      /\ shop.generation \in 0 .. MaxSnapshots
  BY DEF CatalogInv, ShopTyped, ShopRows, Places
<1>2. ASSUME NEW s \in DOMAIN services, services[s] # NoRecord
      PROVE  /\ services[s].sync \in {"synced", "unmapped", "archived", "local_only"}
             /\ services[s].archived = (services[s].sync = "archived")
             /\ services[s].ai => services[s].active
  BY <1>2 DEF CatalogInv, RecordsTyped, RecordIs, CatalogRows
<1> QED BY <1>1, <1>2 DEF CatalogInv, ShopTyped, CatalogTypeOK

(* The types of the connection and of the imported records.                *)
THEOREM CatalogTypeCorrect == CatalogSpec => []CatalogTypeOK
BY CatalogInvariant, CatalogTypes, PTL

LEMMA ListedIsOffered == CatalogInv => OfferedIsListed
<1> SUFFICES ASSUME CatalogInv, shop.status = "active",
                    NEW row \in {services[s] : s \in DOMAIN services} \cup {staff[m] : m \in ImportedStaff},
                    OfferedRecord(row)
             PROVE  row.generation = shop.generation /\ row.location = shop.location
  BY DEF OfferedIsListed
<1>1. AllListed(shop.generation, shop.location)
  BY DEF CatalogInv, ActiveIsListed
<1>2. ListedAs(row, shop.generation, shop.location)
  BY <1>1 DEF AllListed, CatalogInv, RecordsTyped
<1> QED BY <1>2 DEF ListedAs, OfferedRecord

(* Whatever is offered while the connection is active is of its newest     *)
(* generation and its location: no snapshot that was overtaken leaves      *)
(* anything that can be booked.                                            *)
THEOREM OfferedStaysListed == CatalogSpec => []OfferedIsListed
BY CatalogInvariant, ListedIsOffered, PTL

(* The catalog in the platform is the catalog alone.                       *)
THEOREM CatalogIsKept == MCSpec => CatalogSpec
<1>1. MCInit => CatalogInit
  BY DEF MCInit
<1>2. [MCNext]_allVars => [CatalogNext]_catalogVars
  BY DEF MCNext, allVars
<1> QED BY <1>1, <1>2, PTL DEF MCSpec, CatalogSpec

-----------------------------------------------------------------------------
(* The platform.                                                           *)

(* The configuration in the platform is the configuration alone.           *)
THEOREM ConfigIsKept == MCSpec => ConfigSpec
<1>1. MCInit => ConfigInit
  BY DEF MCInit
<1>2. [MCNext]_allVars => [ConfigNext]_configVars
  BY DEF MCNext, allVars, ConfigNext, TransferNext
<1> QED BY <1>1, <1>2, PTL DEF MCSpec, ConfigSpec

(* Through everything operators and owners do on the platform, delegations *)
(* stay backed, tenants whole and configurations sound.                    *)
THEOREM PlatformInOrder == MCSpec => []SalonsAreInOrder
BY AccessIsKept, TenancyIsKept, ConfigIsKept, DelegationStaysBacked, TenantsStayWhole,
   ConfigurationStaysSound, PTL DEF SalonsAreInOrder

(* No step on the platform takes the last administrator away, overwrites   *)
(* what its author has not seen or publishes a salon that is not ready.    *)
THEOREM PlatformChangesSafe == MCSpec => ChangesAreSafe
BY AccessIsKept, ConfigIsKept, AdministratorRemains, WritesStayInformed, PublishedStaysReady,
   PTL DEF ChangesAreSafe

(* Through everything that is authorized, imported and configured, a salon *)
(* offers what its provider lists, and what is taken for proof of a safe   *)
(* connection is about the connection as it is.                            *)
THEOREM ProviderStaysTrusted == MCSpec => []ProviderIsTrusted
BY CatalogIsKept, GateIsKept, OfferedStaysListed, AutomaticCreateStaysSafe, PTL DEF ProviderIsTrusted

(* The types of everything the platform keeps.                             *)
THEOREM PlatformTypeCorrect == MCSpec => []PlatformTypeOK
BY CatalogIsKept, GateIsKept, AccessIsKept, TenancyIsKept, ConfigIsKept, CatalogTypeCorrect,
   GateTypeCorrect, AccessTypeCorrect, TenancyTypeCorrect, ConfigTypeCorrect, PTL DEF PlatformTypeOK
=============================================================================
