----------------------------- MODULE SquareCatalog -----------------------------
(***************************************************************************)
(* The connection of one salon to its Square account and the catalog that  *)
(* is imported through it (modules/pos_square service and adapter,         *)
(* modules/pos repository): the authorization, the choice of a location,   *)
(* the import of services and staff, and what the owner does with the      *)
(* imported and the local records.  The salon books through Square         *)
(* (scheduling authority external_provider).                               *)
(*                                                                         *)
(* A snapshot takes several steps, and nothing stops a second one, a new   *)
(* authorization or another location while one is on its way: the          *)
(* generation of the connection tells a snapshot that was overtaken.       *)
(* What Square lists is chosen when it is listed.                          *)
(***************************************************************************)
EXTENDS Integers, FiniteSets

CONSTANTS
    Merchants,           \* Square accounts the owner may authorize
    ShopLocations,       \* Square locations
    ImportedServices,    \* services of a Square catalog
    ImportedStaff,       \* team members at Square
    LocalServices,       \* services the owner creates here
    OAuthStates,         \* authorizations that may be started
    SyncRequests,        \* requests that synchronize
    MaxSnapshots         \* bound on the snapshot generation

ASSUME CatalogConstants ==
    /\ Merchants # {} /\ ShopLocations # {} /\ MaxSnapshots \in Nat \ {0}
    /\ ImportedServices \cap LocalServices = {}
    /\ "none" \notin Merchants \cup ShopLocations \cup LocalServices

VARIABLES
    shop,        \* pos_connections: status, merchant, location, generation, synced
    oauth,       \* pos_oauth_states and the callback that uses each
    services,    \* services with their pos_entity_links
    staff,       \* staff with their links
    snapshot,    \* what each synchronization is doing
    edit         \* the local service an edit has found not archived

catalogVars == <<shop, oauth, services, staff, snapshot, edit>>

NoPlaceYet == "none"
NoRecord == [source |-> "none"]
IdleSnapshot == [phase |-> "idle"]

-----------------------------------------------------------------------------
(* Authorization. *)

connectURL(s) ==
    /\ oauth[s] = "none"
    /\ oauth' = [oauth EXCEPT ![s] = "issued"]
    /\ UNCHANGED <<shop, services, staff, snapshot, edit>>

\* A state is good for one callback, for ten minutes.
OAuthStateExpires(s) ==
    /\ oauth[s] = "issued"
    /\ oauth' = [oauth EXCEPT ![s] = "spent"]
    /\ UNCHANGED <<shop, services, staff, snapshot, edit>>

ConsumeOAuthState(s) ==
    /\ oauth[s] = "issued"
    /\ oauth' = [oauth EXCEPT ![s] = "exchanging"]
    /\ UNCHANGED <<shop, services, staff, snapshot, edit>>

\* Another account starts again: no location, no snapshot.
UpsertedConnection(m) ==
    CASE shop.merchant = m -> [shop EXCEPT !.status = "connected"]
      [] shop.merchant = NoPlaceYet -> [shop EXCEPT !.status = "connected", !.merchant = m]
      [] OTHER -> [status |-> "connected", merchant |-> m, location |-> NoPlaceYet,
                   generation |-> shop.generation + 1, synced |-> FALSE]

\* The exchange of the code fails, or gives the tokens of an account.
Connect(s, m) ==
    /\ oauth[s] = "exchanging"
    /\ oauth' = [oauth EXCEPT ![s] = "spent"]
    /\ shop' = shop \/ (shop.generation < MaxSnapshots /\ shop' = UpsertedConnection(m))
    /\ UNCHANGED <<services, staff, snapshot, edit>>

\* The location is not compared with the account it is chosen for.
UpdatedLocation(l) ==
    IF shop.location = l THEN shop
    ELSE [shop EXCEPT !.location = l, !.generation = @ + 1, !.synced = FALSE,
                      !.status = "connected"]

UpdateLocation(l) ==
    /\ shop.status # "not_connected" /\ shop.generation < MaxSnapshots
    /\ shop' = UpdatedLocation(l)
    /\ UNCHANGED <<oauth, services, staff, snapshot, edit>>

-----------------------------------------------------------------------------
(* The import. *)

\* The token and the location are read first.
accessTokenAndLocation(r) ==
    /\ snapshot[r] = IdleSnapshot
    /\ shop.status # "not_connected" /\ shop.location # NoPlaceYet
    /\ snapshot' = [snapshot EXCEPT ![r] = [phase |-> "authorized", location |-> shop.location]]
    /\ UNCHANGED <<shop, oauth, services, staff, edit>>

BeginProviderSnapshot(r) ==
    /\ snapshot[r].phase = "authorized" /\ shop.generation < MaxSnapshots
    /\ IF shop.location = snapshot[r].location
       THEN /\ shop' = [shop EXCEPT !.generation = @ + 1, !.status = "syncing", !.synced = FALSE]
            /\ snapshot' = [snapshot EXCEPT ![r] =
                 [phase |-> "listing", location |-> shop.location,
                  generation |-> shop.generation + 1, services |-> {}, bookable |-> {}]]
       ELSE shop' = shop /\ snapshot' = [snapshot EXCEPT ![r] = IdleSnapshot]
    /\ UNCHANGED <<oauth, services, staff, edit>>

\* Variations that are present at the location; those that can be booked have a
\* duration and are offered for booking.
mapCatalogServicesForLocation(r, present, bookable) ==
    [snapshot[r] EXCEPT !.phase = "staffing", !.services = present, !.bookable = bookable]

ListServices(r) ==
    /\ snapshot[r].phase = "listing"
    /\ \/ \E present \in SUBSET ImportedServices : \E bookable \in SUBSET present :
            snapshot' = [snapshot EXCEPT ![r] = mapCatalogServicesForLocation(r, present, bookable)]
       \/ snapshot' = [snapshot EXCEPT ![r] = [phase |-> "failed", generation |-> @.generation]]
    /\ UNCHANGED <<shop, oauth, services, staff, edit>>

\* An active member of the location's team; bookable when there is a booking profile.
\* The opening hours and the customers are listed after the staff.
ListStaff(r) ==
    /\ snapshot[r].phase = "staffing"
    /\ \/ \E present \in SUBSET ImportedStaff : \E bookable \in SUBSET present :
            snapshot' = [snapshot EXCEPT ![r] =
              [phase |-> "listed", location |-> @.location, generation |-> @.generation,
               services |-> @.services, bookable |-> @.bookable \cup bookable,
               staff |-> present]]
       \/ snapshot' = [snapshot EXCEPT ![r] = [phase |-> "failed", generation |-> @.generation]]
    /\ UNCHANGED <<shop, oauth, services, staff, edit>>

\* Square only takes away: a record that may not be booked is switched off, one that
\* the owner switched off stays off, and an archived record stays archived.
ImportedRecord(row, bookable, g, l) ==
    CASE row = NoRecord ->
           [source |-> "imported", ai |-> bookable, active |-> TRUE, archived |-> FALSE,
            sync |-> "synced", generation |-> g, location |-> l]
      [] row # NoRecord /\ row.archived -> [row EXCEPT !.active = FALSE, !.ai = FALSE, !.sync = "archived"]
      [] OTHER -> [row EXCEPT !.active = TRUE, !.ai = @ /\ bookable, !.sync = "synced",
                              !.generation = g, !.location = l]
upsertServicesTx(s, r) ==
    ImportedRecord(services[s], s \in r.bookable, r.generation, r.location)
upsertStaffTx(m, r) ==
    ImportedRecord(staff[m], m \in r.bookable, r.generation, r.location)

MissingRecord(row) ==
    IF row = NoRecord \/ row.source # "imported" \/ row.archived THEN row
    ELSE [row EXCEPT !.active = FALSE, !.ai = FALSE, !.sync = "unmapped"]
markMissingImportedServicesTx(s) == MissingRecord(services[s])
markMissingImportedStaffTx(m) == MissingRecord(staff[m])

SnapshotCurrent(r) == shop.location = r.location /\ shop.generation = r.generation

\* All of the snapshot in one transaction, or none of it.
ApplyProviderSnapshot(r) ==
    LET run == snapshot[r] IN
    /\ run.phase = "listed"
    /\ IF SnapshotCurrent(run)
       THEN /\ services' = [s \in DOMAIN services |->
                 IF s \in run.services THEN upsertServicesTx(s, run)
                 ELSE markMissingImportedServicesTx(s)]
            /\ staff' = [m \in ImportedStaff |->
                 IF m \in run.staff THEN upsertStaffTx(m, run) ELSE markMissingImportedStaffTx(m)]
            /\ snapshot' = [snapshot EXCEPT ![r] =
                              [phase |-> "applied", generation |-> run.generation]]
       ELSE /\ UNCHANGED <<services, staff>>
            /\ snapshot' = [snapshot EXCEPT ![r] =
                              [phase |-> "failed", generation |-> run.generation]]
    /\ UNCHANGED <<shop, oauth, edit>>

\* The end of the newest snapshot settles the connection.
MarkSyncCompleteForGeneration(r) ==
    LET run == snapshot[r] IN
    /\ run.phase \in {"applied", "failed"}
    /\ shop' = IF shop.generation # run.generation THEN shop
               ELSE [shop EXCEPT !.status = IF run.phase = "applied" THEN "active" ELSE "error",
                                 !.synced = run.phase = "applied"]
    /\ snapshot' = [snapshot EXCEPT ![r] = IdleSnapshot]
    /\ UNCHANGED <<oauth, services, staff, edit>>

\* The request dies with its process; the connection stays "syncing".
SyncRequestStops(r) ==
    /\ snapshot[r] # IdleSnapshot
    /\ snapshot' = [snapshot EXCEPT ![r] = IdleSnapshot]
    /\ UNCHANGED <<shop, oauth, services, staff, edit>>

-----------------------------------------------------------------------------
(* The owner's records. *)

OwnerOnly == UNCHANGED <<shop, oauth, snapshot>>

CreateService(s) ==
    /\ services[s] = NoRecord
    /\ services' = [services EXCEPT ![s] =
          [source |-> "local", ai |-> FALSE, active |-> TRUE, archived |-> FALSE,
           sync |-> "local_only", generation |-> 0, location |-> NoPlaceYet]]
    /\ OwnerOnly /\ UNCHANGED <<staff, edit>>

\* A record of Square is read-only here.
entityFieldAuthority(s) == IF services[s].source = "imported" THEN "provider_read_only" ELSE "local"

\* The edit looks whether the service is archived before its transaction begins.
ReadServiceForUpdate(s) ==
    /\ edit = NoPlaceYet /\ services[s] # NoRecord
    /\ entityFieldAuthority(s) = "local" /\ ~ services[s].archived
    /\ edit' = s
    /\ OwnerOnly /\ UNCHANGED <<services, staff>>

UpdateService(s, on) ==
    /\ edit = s
    /\ services' = [services EXCEPT ![s].active = on, ![s].ai = on /\ @]
    /\ edit' = NoPlaceYet
    /\ OwnerOnly /\ UNCHANGED staff

ArchivedRecord(row) ==
    [row EXCEPT !.active = FALSE, !.ai = FALSE, !.sync = "archived", !.archived = TRUE]
ArchiveService(s) ==
    /\ services[s] # NoRecord /\ ~ services[s].archived
    /\ services' = [services EXCEPT ![s] = ArchivedRecord(@)]
    /\ OwnerOnly /\ UNCHANGED <<staff, edit>>
ArchiveStaff(m) ==
    /\ staff[m] # NoRecord /\ ~ staff[m].archived
    /\ staff' = [staff EXCEPT ![m] = ArchivedRecord(@)]
    /\ OwnerOnly /\ UNCHANGED <<services, edit>>

\* lockSyncedProviderLinkTx: the link has the status of the record.
CanEnableRecord(row) == row.active /\ ~ row.archived /\ row.sync = "synced"
\* Mutant: any service that is not archived.
serviceCanEnableLoosely(row) == ~ row.archived
serviceCanEnableAIBookingTx(row) == CanEnableRecord(row)
staffCanEnableAIBookingTx(row) == CanEnableRecord(row)

UpdateServiceAIBookable(s, on) ==
    /\ services[s] # NoRecord
    /\ on => serviceCanEnableAIBookingTx(services[s])
    /\ services' = [services EXCEPT ![s].ai = on]
    /\ OwnerOnly /\ UNCHANGED <<staff, edit>>
UpdateStaffAIBookable(m, on) ==
    /\ staff[m] # NoRecord
    /\ on => staffCanEnableAIBookingTx(staff[m])
    /\ staff' = [staff EXCEPT ![m].ai = on]
    /\ OwnerOnly /\ UNCHANGED <<services, edit>>

-----------------------------------------------------------------------------
CatalogInit ==
    /\ shop = [status |-> "not_connected", merchant |-> NoPlaceYet, location |-> NoPlaceYet,
               generation |-> 0, synced |-> FALSE]
    /\ oauth = [s \in OAuthStates |-> "none"]
    /\ services = [s \in ImportedServices \cup LocalServices |-> NoRecord]
    /\ staff = [m \in ImportedStaff |-> NoRecord]
    /\ snapshot = [r \in SyncRequests |-> IdleSnapshot]
    /\ edit = NoPlaceYet

CatalogNext ==
    \/ \E s \in OAuthStates : \/ connectURL(s) \/ OAuthStateExpires(s) \/ ConsumeOAuthState(s)
                              \/ \E m \in Merchants : Connect(s, m)
    \/ \E l \in ShopLocations : UpdateLocation(l)
    \/ \E r \in SyncRequests :
         \/ accessTokenAndLocation(r) \/ BeginProviderSnapshot(r) \/ ListServices(r)
         \/ ListStaff(r) \/ ApplyProviderSnapshot(r) \/ MarkSyncCompleteForGeneration(r)
         \/ SyncRequestStops(r)
    \/ \E s \in LocalServices : \/ CreateService(s) \/ ReadServiceForUpdate(s)
                                \/ \E on \in BOOLEAN : UpdateService(s, on)
    \/ \E s \in DOMAIN services : \/ ArchiveService(s)
                                  \/ \E on \in BOOLEAN : UpdateServiceAIBookable(s, on)
    \/ \E m \in ImportedStaff : \/ ArchiveStaff(m)
                                \/ \E on \in BOOLEAN : UpdateStaffAIBookable(m, on)

CatalogSpec == CatalogInit /\ [][CatalogNext]_catalogVars

-----------------------------------------------------------------------------
\* The records a caller may be offered (ProviderMappingSummary, the catalog of the
\* conversation): active, switched on and linked.
OfferedRecord(row) == row # NoRecord /\ row.active /\ row.ai /\ row.sync = "synced"

CatalogTypeOK ==
    /\ shop.status \in {"not_connected", "connected", "syncing", "active", "error"}
    /\ shop.merchant \in Merchants \cup {NoPlaceYet}
    /\ shop.location \in ShopLocations \cup {NoPlaceYet}
    /\ shop.generation \in 0 .. MaxSnapshots
    /\ shop.synced => shop.location # NoPlaceYet
    /\ shop.status = "active" => shop.synced
    /\ \A s \in DOMAIN services : services[s] # NoRecord =>
         /\ services[s].sync \in {"synced", "unmapped", "archived", "local_only"}
         /\ services[s].archived = (services[s].sync = "archived")
         /\ services[s].ai => services[s].active

\* Whatever a caller is offered while the connection is usable was listed by the
\* newest snapshot, and for the location that is selected now: no snapshot that
\* was overtaken by another one, by a new authorization or by a change of location
\* leaves anything that can be booked.
OfferedIsListed ==
    shop.status = "active" =>
        \A row \in {services[s] : s \in DOMAIN services} \cup {staff[m] : m \in ImportedStaff} :
            OfferedRecord(row) =>
                row.generation = shop.generation /\ row.location = shop.location
=============================================================================
