------------------------- MODULE SalonConfiguration -------------------------
(***************************************************************************)
(* What a salon is configured to be, and who may change it: the business   *)
(* API with expected versions and action keys (modules/business), the      *)
(* owner's older routes that write without a version (modules/salon,       *)
(* modules/training), the technical API for integrations                   *)
(* (modules/integration_config), and the operator's transfer of one        *)
(* salon's configuration to another (modules/config_transfer): preview,    *)
(* then apply what was previewed.                                          *)
(*                                                                         *)
(* A section of the configuration is one value.  A version row counts the  *)
(* changes of its section: writers with a version set it to one more than  *)
(* they read, and for every other writer the database's triggers add one.  *)
(* Preparing a transfer takes several reads without a transaction: each is *)
(* a step of its own here.                                                 *)
(***************************************************************************)
EXTENDS Integers, Sequences, FiniteSets

CONSTANTS
    Admins,          \* users of the business and technical APIs
    ActionKeys,      \* action keys they send
    TransferRequests,\* previews and applications an operator has in flight
    Texts,           \* contents of a profile, of hours, of a knowledge base
    Selections,      \* sections an operator may select together
    Uploads,         \* bundles an operator may upload
    MaxConfigEdits,  \* bound on the edits
    MaxPreviews,     \* bound on the previews
    MaxRecords       \* bound on the services, staff and customers

Salons == {"source", "target"}
NoHours == "none"
Authorities == {"owner_manual", "manleai_calendar", "external_provider"}

\* One definition of the sections, with the values each takes.
SectionValues ==
    [profile |-> Texts, public |-> BOOLEAN, hours |-> Texts \cup {NoHours},
     aliases |-> BOOLEAN, categories |-> BOOLEAN, consultation |-> BOOLEAN,
     ai |-> {"plain", "consulting", "confirming"}, aiEnabled |-> BOOLEAN,
     integrations |-> Texts, knowledge |-> Texts]
Sections == DOMAIN SectionValues
AnyText == CHOOSE t \in Texts : TRUE

ASSUME ConfigurationConstants ==
    /\ ActionKeys \subseteq Nat /\ Texts # {}
    /\ MaxConfigEdits \in Nat /\ MaxPreviews \in Nat /\ MaxRecords \in Nat
    /\ \A sel \in Selections : sel \subseteq Sections \ {"aiEnabled"} /\ sel # {}
    /\ \A u \in Uploads : DOMAIN u \subseteq Sections
                          /\ \A x \in DOMAIN u : u[x] \in SectionValues[x]

VARIABLES
    conf,       \* salons, salon_settings and the tables of their content
    vers,       \* business_resource_versions and technical_resource_versions
    authorityOf,\* salon_settings.scheduling_authority and its version
    facts,      \* what readiness depends on, outside of the configuration
    loaded,     \* what an admin's client last read: section, value, version
    actions,    \* business_actions and technical_actions, by admin and key
    transfer,   \* configuration_transfer_runs
    prepared,   \* transfer requests being handled
    records,    \* services, staff and customers of the target salon
    eligible,   \* manleai_calendar_service_staff
    editsLeft

configVars == <<conf, vers, authorityOf, facts, loaded, actions, transfer, prepared,
                records, eligible, editsLeft>>

NoAction == [section |-> "none"]
NotLoaded == [section |-> "none"]
IdleTransfer == [step |-> "idle"]

-----------------------------------------------------------------------------
(* Readiness of the public page. *)

\* applyPublicCatalogReadinessWithFacts, without the slug.
CanPublish(s, c) ==
    /\ facts[s].bookable
    /\ CASE authorityOf[s].name = "owner_manual" -> TRUE
         [] authorityOf[s].name = "manleai_calendar" -> c.hours # NoHours /\ facts[s].activated
         [] OTHER -> facts[s].provider

\* What a change of the configuration does to an activation of the internal
\* calendar, which is bound to hours, time zone and services; and what a change
\* of the integrations does to the provider's connection.
Unsettled(f, changed) ==
    [f EXCEPT !.activated = @ /\ changed \cap {"profile", "hours", "consultation"} = {},
              !.provider = @ /\ "integrations" \notin changed]

\* The triggers of V77: a section that changed gets the next version.
Written(s, new) ==
    LET changed == {x \in Sections : new[x] # conf[s][x]}
    IN  /\ conf' = [conf EXCEPT ![s] = new]
        /\ vers' = [vers EXCEPT ![s] = [x \in Sections |-> @[x] + (IF x \in changed THEN 1 ELSE 0)]]
        /\ facts' = [facts EXCEPT ![s] = Unsettled(@, changed)]

Edited == editsLeft > 0 /\ editsLeft' = editsLeft - 1
RecordsKept == UNCHANGED <<records, eligible>>
ClientsKept == UNCHANGED <<loaded, actions, transfer, prepared>>

-----------------------------------------------------------------------------
(* The owner's routes without a version. *)

\* PUT /salons/:id.
Update(s, text, enabled) ==
    /\ Edited /\ <<text, enabled>> # <<conf[s].profile, conf[s].aiEnabled>>
    /\ Written(s, [conf[s] EXCEPT !.profile = text, !.aiEnabled = enabled])
    /\ ClientsKept /\ RecordsKept /\ UNCHANGED authorityOf

\* PUT /salons/:id/settings.  Whether a service is ready for consultation is
\* read before the transaction; the authority is read under the fence.
UpdateSettings(s, policy) ==
    /\ Edited /\ policy # conf[s].ai
    /\ policy = "confirming" => authorityOf[s].name # "owner_manual"
    /\ Written(s, [conf[s] EXCEPT !.ai = policy])
    /\ ClientsKept /\ RecordsKept /\ UNCHANGED authorityOf

\* PUT /salons/:id/public-catalog, under the salon's fence.
UpdatePublicCatalogSettings(s, enabled) ==
    /\ Edited /\ enabled # conf[s].public
    /\ enabled => CanPublish(s, conf[s])
    /\ Written(s, [conf[s] EXCEPT !.public = enabled])
    /\ ClientsKept /\ RecordsKept /\ UNCHANGED authorityOf

\* Knowledge of the training pages.
UpdateKnowledge(s, text) ==
    /\ Edited /\ text # conf[s].knowledge
    /\ Written(s, [conf[s] EXCEPT !.knowledge = text])
    /\ ClientsKept /\ RecordsKept /\ UNCHANGED authorityOf

\* A phrase may name a service or a category, never both: each writer takes the
\* lock of the phrase and looks at the other table (and V58 enforces it).
FreeForService(s) == ~ conf[s].categories
FreeForCategory(s) == ~ conf[s].aliases

UpsertServiceAlias(s, active) ==
    /\ Edited /\ active # conf[s].aliases
    /\ active => FreeForService(s)
    /\ Written(s, [conf[s] EXCEPT !.aliases = active])
    /\ ClientsKept /\ RecordsKept /\ UNCHANGED authorityOf

UpsertCategoryAlias(s, active) ==
    /\ Edited /\ active # conf[s].categories
    /\ active => FreeForCategory(s)
    /\ Written(s, [conf[s] EXCEPT !.categories = active])
    /\ ClientsKept /\ RecordsKept /\ UNCHANGED authorityOf

-----------------------------------------------------------------------------
(* The world around it. *)

\* A switch of authority moves the salon to another target, at a later version;
\* owner_manual goes with a policy that does not confirm.
SwitchAuthority(s, name) ==
    /\ Edited /\ name # authorityOf[s].name
    /\ name = "owner_manual" => conf[s].ai # "confirming"
    /\ authorityOf' = [authorityOf EXCEPT ![s] = [name |-> name, version |-> @.version + 1]]
    /\ ClientsKept /\ RecordsKept /\ UNCHANGED <<conf, vers, facts>>

\* An activation of the calendar, a provider's sync, a first bookable service.
BecomesReady(s) ==
    /\ facts[s] # [bookable |-> TRUE, activated |-> TRUE, provider |-> TRUE]
    /\ facts' = [facts EXCEPT ![s] = [bookable |-> TRUE, activated |-> TRUE, provider |-> TRUE]]
    /\ ClientsKept /\ RecordsKept /\ UNCHANGED <<conf, vers, authorityOf, editsLeft>>

LosesServices(s) ==
    /\ Edited /\ facts[s].bookable
    /\ facts' = [facts EXCEPT ![s].bookable = FALSE]
    /\ ClientsKept /\ RecordsKept /\ UNCHANGED <<conf, vers, authorityOf>>

-----------------------------------------------------------------------------
(* The APIs with expected versions. *)

BusinessSections == {"profile", "public", "hours", "consultation", "categories"}
TechnicalSections == {"integrations"}

\* A page of the business or technical console is loaded; so is the stored
\* configuration that an update of an integration is merged with.
Load(a, x) ==
    /\ x \in BusinessSections \cup TechnicalSections /\ editsLeft > 0
    /\ loaded' = [loaded EXCEPT ![a] =
                    [section |-> x, value |-> conf["target"][x], version |-> vers["target"][x]]]
    /\ loaded' # loaded
    /\ UNCHANGED <<conf, vers, authorityOf, facts, actions, transfer, prepared, editsLeft>>
    /\ RecordsKept

VersionMatches(a) == vers["target"][loaded[a].section] = loaded[a].version

\* The refusals of the mutations: hours that a provider manages, a public page
\* that is not ready, a category alias that a service owns.
Allowed(x, v) ==
    /\ x = "hours" => authorityOf["target"].name # "external_provider"
    /\ x = "public" /\ v => CanPublish("target", conf["target"])
    /\ x = "categories" /\ v => FreeForCategory("target")

\* applyMutation and UpsertControlled: a key that was used is a replay or a
\* conflict, and changes nothing.
applyMutation(a, k, v) ==
    LET x == loaded[a].section IN
    /\ x # "none" /\ v \in SectionValues[x]
    /\ Edited /\ v # conf["target"][x]
    /\ actions[a][k] = NoAction
    /\ VersionMatches(a)
    /\ Allowed(x, v)
    /\ Written("target", [conf["target"] EXCEPT ![x] = v])
    /\ actions' = [actions EXCEPT ![a][k] = [section |-> x]]
    /\ loaded' = [loaded EXCEPT ![a] = NotLoaded]
    /\ UNCHANGED <<authorityOf, transfer, prepared>> /\ RecordsKept

-----------------------------------------------------------------------------
(* Preparing a transfer. *)

\* snapshotTransferFences: the version rows a selection depends on.
FenceRows(sel) ==
    sel \cup (IF "ai" \in sel THEN {"aiEnabled", "consultation"} ELSE {})
Fences(s, sel) == [x \in FenceRows(sel) |-> vers[s][x]]

\* scopedBundle: the sections that were selected; "ai" takes its switch along.
Scoped(sel) == sel \cup (IF "ai" \in sel THEN {"aiEnabled"} ELSE {})
Bundle(c, sel) == [x \in Scoped(sel) |-> c[x]]

StartTransfer(r, kind, sel, upload) ==
    /\ prepared[r] = IdleTransfer
    /\ prepared' = [prepared EXCEPT ![r] =
         [step |-> "source", kind |-> kind, sel |-> sel, upload |-> upload, bundle |-> <<>>,
          sourceFences |-> <<>>, target |-> conf["target"], authority |-> authorityOf["target"],
          publishable |-> FALSE, targetFences |-> <<>>, unavailable |-> FALSE]]

\* POST .../preview and .../apply: from the other salon, or from an uploaded file
\* that holds at least the selected sections.
RequestPreview(r, sel, upload) ==
    /\ Len(transfer) < MaxPreviews
    /\ \A q \in TransferRequests : prepared[q].step # "idle" => prepared[q].kind.preview # 0
    /\ upload # <<>> => Scoped(sel) \subseteq DOMAIN upload
    /\ StartTransfer(r, [preview |-> 0], sel, upload)
    /\ UNCHANGED <<conf, vers, authorityOf, facts, loaded, actions, transfer, editsLeft>>
    /\ RecordsKept

RequestApply(r, i, upload) ==
    /\ i \in DOMAIN transfer /\ transfer[i].status = "previewed"
    /\ (upload = <<>>) = transfer[i].tenant
    /\ upload # <<>> => Scoped(transfer[i].sel) \subseteq DOMAIN upload
    /\ StartTransfer(r, [preview |-> i], transfer[i].sel, upload)
    /\ UNCHANGED <<conf, vers, authorityOf, facts, loaded, actions, transfer, editsLeft>>
    /\ RecordsKept

TransferStep(r, new) ==
    /\ prepared' = [prepared EXCEPT ![r] = new]
    /\ UNCHANGED <<conf, vers, authorityOf, facts, loaded, actions, transfer, editsLeft>>
    /\ RecordsKept

\* exportSalon, or the uploaded bundle after normalizeImportBundle; hours that a
\* provider manages are not portable.
exportSalon(r) ==
    LET p == prepared[r]
        external == p.upload = <<>> /\ "hours" \in p.sel
                    /\ authorityOf["source"].name = "external_provider"
        b == Bundle(IF p.upload = <<>> THEN conf["source"] ELSE p.upload, p.sel)
    IN  /\ p.step = "source"
        /\ TransferStep(r, [p EXCEPT !.step = "sourceFences", !.unavailable = external,
                      !.bundle = IF external THEN [b EXCEPT !.hours = NoHours] ELSE b])

SnapshotSource(r) ==
    LET p == prepared[r] IN
    /\ p.step = "sourceFences"
    /\ TransferStep(r, [p EXCEPT !.step = "target",
                  !.sourceFences = IF p.upload = <<>> THEN Fences("source", p.sel) ELSE <<>>])

\* getWithIntegrations and TargetImportState.
TargetImportState(r) ==
    LET p == prepared[r] IN
    /\ p.step = "target"
    /\ TransferStep(r, [p EXCEPT !.step = "targetFences", !.target = conf["target"],
                  !.authority = authorityOf["target"],
                  !.publishable = CanPublish("target", conf["target"])])

SnapshotTarget(r) ==
    LET p == prepared[r] IN
    /\ p.step = "targetFences"
    /\ TransferStep(r, [p EXCEPT !.step = "hours", !.targetFences = Fences("target", p.sel)])

\* LocalBusinessHours are read after the versions.
LocalBusinessHours(r) ==
    LET p == prepared[r] IN
    /\ p.step = "hours"
    /\ TransferStep(r, [p EXCEPT !.step = "planned", !.target.hours = conf["target"].hours])

-----------------------------------------------------------------------------
(* The plan. *)

\* planSalonProfile, planIntegrations, planKnowledge: the incoming value.
Incoming(p, x) == p.bundle[x]

\* planServiceAliases and planServiceCategories: a phrase of the other table,
\* at the target or in the bundle, is a conflict.
AliasConflict(p) ==
    \/ /\ "aliases" \in p.sel /\ p.bundle.aliases
       /\ p.target.categories \/ ("categories" \in p.sel /\ p.bundle.categories)
    \/ /\ "categories" \in p.sel /\ p.bundle.categories
       /\ p.target.aliases \/ ("aliases" \in p.sel /\ p.bundle.aliases)

\* planAIReceptionist: consultation needs ready profiles in the same bundle;
\* owner_manual takes a policy that confirms as one that does not.
ConsultationConflict(p) ==
    /\ "ai" \in p.sel /\ p.bundle.ai = "consulting"
    /\ ~ ("consultation" \in p.sel /\ p.bundle.consultation)
PlannedPolicy(p) ==
    IF p.bundle.ai = "confirming" /\ p.authority.name = "owner_manual" THEN "plain" ELSE p.bundle.ai

\* planPublicBookingPage: a page is not published at a target that is not ready.
PlannedPage(p) ==
    IF p.bundle.public /\ ~ p.publishable THEN p.target.public ELSE p.bundle.public

Planned(p, x) ==
    CASE x = "ai" -> PlannedPolicy(p) [] x = "public" -> PlannedPage(p) [] OTHER -> Incoming(p, x)
Changes(p) == {x \in Scoped(p.sel) : Planned(p, x) # p.target[x]}

\* preparePlan: what the selected changes do to the readiness that is published.
ReadinessInvalidated(p) ==
    /\ "public" \in p.sel /\ p.bundle.public
    /\ CASE p.authority.name = "manleai_calendar" ->
                Changes(p) \cap {"hours", "consultation", "profile"} # {}
         [] p.authority.name = "external_provider" -> "integrations" \in Changes(p)
         [] OTHER -> FALSE

HoursConflict(p) ==
    "hours" \in p.sel /\ (p.unavailable \/ p.authority.name = "external_provider")

CanApply(p) == ~ (AliasConflict(p) \/ ConsultationConflict(p) \/ HoursConflict(p)
                  \/ ReadinessInvalidated(p))

\* platformRequestFingerprint: sections, source and both sets of versions.
Fingerprint(p) == <<p.sel, p.bundle, p.sourceFences, p.targetFences>>

-----------------------------------------------------------------------------
(* Preview and apply. *)

CreatePreview(r) ==
    LET p == prepared[r] IN
    /\ p.step = "planned" /\ p.kind.preview = 0 /\ Len(transfer) < MaxPreviews
    /\ transfer' = Append(transfer,
         [status |-> "previewed", tenant |-> p.upload = <<>>, sel |-> p.sel, bundle |-> p.bundle,
          fingerprint |-> Fingerprint(p), authority |-> p.authority,
          sourceFences |-> p.sourceFences, targetFences |-> p.targetFences])
    /\ prepared' = [prepared EXCEPT ![r] = IdleTransfer]
    /\ UNCHANGED <<conf, vers, authorityOf, facts, loaded, actions, editsLeft>> /\ RecordsKept

\* PlatformRepository.Apply, under the fence and with the version rows locked.
StillCurrent(p, run) ==
    /\ run.status = "previewed" /\ run.fingerprint = Fingerprint(p)
    /\ authorityOf["target"] = run.authority
    /\ Fences("target", run.sel) = run.targetFences
    /\ run.tenant => Fences("source", run.sel) = run.sourceFences

\* applyPlanTx: an alias whose phrase has been taken meanwhile is left out, and
\* readiness is looked at again before the page is published.
Applied(p) ==
    [x \in Sections |->
        IF x \notin Changes(p) THEN conf["target"][x]
        ELSE IF x = "aliases" /\ p.bundle.aliases /\ ~ FreeForService("target") THEN conf["target"][x]
        ELSE IF x = "categories" /\ p.bundle.categories /\ ~ FreeForCategory("target")
             THEN conf["target"][x]
        ELSE Planned(p, x)]
applyPlanTx(p) ==
    LET profiled == [conf["target"] EXCEPT !.profile = IF "profile" \in Changes(p)
                                                       THEN p.bundle.profile ELSE @]
    IN  /\ "public" \in Changes(p) /\ PlannedPage(p) => CanPublish("target", profiled)
        /\ Written("target", Applied(p))

Apply(r) ==
    LET p == prepared[r]
        i == p.kind.preview
    IN  /\ p.step = "planned" /\ i # 0
        /\ CanApply(p)
        /\ StillCurrent(p, transfer[i])
        /\ applyPlanTx(p)
        /\ transfer' = [transfer EXCEPT ![i].status = "applied"]
        /\ prepared' = [prepared EXCEPT ![r] = IdleTransfer]
        /\ UNCHANGED <<authorityOf, loaded, actions, editsLeft>> /\ RecordsKept

\* ErrTransferStale, a conflict, or an operator who gives up.
TransferEnds(r) ==
    /\ prepared[r].step = "planned"
    /\ prepared' = [prepared EXCEPT ![r] = IdleTransfer]
    /\ UNCHANGED <<conf, vers, authorityOf, facts, loaded, actions, transfer, editsLeft>>
    /\ RecordsKept

-----------------------------------------------------------------------------
(* Services, staff and customers. *)

Kinds == {"service", "staff", "customer"}

KeyUnused(a, k) == actions[a][k] = NoAction

RecordsOnly == UNCHANGED <<conf, vers, authorityOf, facts, loaded, transfer, prepared, editsLeft>>

\* A creation names no version; its key is all that tells a retry.
CreateRecord(a, k, kind, ai) ==
    /\ Len(records) < MaxRecords
    /\ KeyUnused(a, k)
    /\ records' = Append(records, [kind |-> kind, by |-> <<a, k>>, active |-> TRUE,
                                   ai |-> ai /\ kind # "customer", archived |-> FALSE,
                                   linked |-> FALSE, version |-> 1, changes |-> 0])
    /\ actions' = [actions EXCEPT ![a][k] = [section |-> kind]]
    /\ RecordsOnly /\ UNCHANGED eligible

\* The provider's synchronization links a record, or lets it go.
LinkRecord(n) ==
    /\ records' = [records EXCEPT ![n].linked = ~ @]
    /\ records[n].changes < 2
    /\ RecordsOnly /\ UNCHANGED <<actions, eligible>>

\* validateServiceAIBookableTx and validateStaffAIBookableTx.
AIBookable(r, active) ==
    ~ r.archived /\ active /\ (authorityOf["target"].name = "external_provider" => r.linked)

Updatable(r) == ~ r.archived

\* MutateService, MutateStaff, MutateCustomer: fields a provider owns are
\* refused while the record is linked.
MutateRecord(a, k, n, active, ai) ==
    LET r == records[n] IN
    /\ KeyUnused(a, k) /\ r.changes < 2
    /\ active # r.active => ~ r.linked
    /\ ai /\ ai # r.ai => AIBookable(r, active) /\ r.kind # "customer"
    /\ Updatable(r)
    /\ records' = [records EXCEPT ![n] = [r EXCEPT !.active = active, !.ai = ai,
                                            !.version = @ + 1, !.changes = @ + 1]]
    /\ actions' = [actions EXCEPT ![a][k] = [section |-> r.kind]]
    /\ RecordsOnly /\ UNCHANGED eligible

\* ArchiveService, ArchiveStaff, ArchiveCustomer.
ArchiveRecord(a, k, n) ==
    LET r == records[n] IN
    /\ KeyUnused(a, k) /\ ~ r.linked /\ r.changes < 2
    /\ records' = [records EXCEPT ![n] = [r EXCEPT !.active = FALSE, !.ai = FALSE, !.archived = TRUE,
                                            !.version = @ + 1, !.changes = @ + 1]]
    /\ actions' = [actions EXCEPT ![a][k] = [section |-> r.kind]]
    /\ RecordsOnly /\ UNCHANGED eligible

Usable(n, kind) ==
    n \in DOMAIN records /\ records[n].kind = kind /\ records[n].active /\ ~ records[n].archived

ReplaceStaffServiceEligibility(a, k, n, services) ==
    /\ KeyUnused(a, k) /\ Usable(n, "staff") /\ \A m \in services : Usable(m, "service")
    /\ eligible' = {e \in eligible : e.staff # n} \cup {[staff |-> n, service |-> m] : m \in services}
    /\ actions' = [actions EXCEPT ![a][k] = [section |-> "eligibility"]]
    /\ RecordsOnly /\ UNCHANGED records

-----------------------------------------------------------------------------
ConfigInit ==
    /\ \E published, named \in BOOLEAN : conf = [s \in Salons |-> [x \in Sections |->
                 IF x = "public" /\ s = "source" THEN published
                 ELSE IF (x = "aliases" /\ s = "source") \/ (x = "categories" /\ s = "target") THEN named
                 ELSE IF x \in {"profile", "integrations", "knowledge"} THEN AnyText
                 ELSE IF x = "hours" THEN (IF s = "source" THEN AnyText ELSE NoHours)
                 ELSE IF x = "ai" THEN "plain"
                 ELSE IF x = "consultation" THEN s = "source" ELSE FALSE]]
    /\ vers = [s \in Salons |-> [x \in Sections |-> 1]]
    /\ \E name \in Authorities :
         authorityOf = [s \in Salons |-> [name |-> IF s = "target" THEN name ELSE "owner_manual",
                                          version |-> 1]]
    /\ facts = [s \in Salons |-> [bookable |-> TRUE, activated |-> TRUE, provider |-> TRUE]]
    /\ loaded = [a \in Admins |-> NotLoaded]
    /\ actions = [a \in Admins |-> [k \in ActionKeys |-> NoAction]]
    /\ transfer = <<>>
    /\ prepared = [r \in TransferRequests |-> IdleTransfer]
    /\ records = <<>> /\ eligible = {}
    /\ editsLeft \in 0 .. MaxConfigEdits

OwnerConfigEdits ==
    \E s \in Salons :
        \/ \E t \in Texts, e \in BOOLEAN : Update(s, t, e)
        \/ \E x \in SectionValues.ai : UpdateSettings(s, x)
        \/ \E b \in BOOLEAN : \/ UpdatePublicCatalogSettings(s, b)
                              \/ UpsertServiceAlias(s, b) \/ UpsertCategoryAlias(s, b)
        \/ \E t \in Texts : UpdateKnowledge(s, t)
        \/ \E n \in Authorities : SwitchAuthority(s, n)
        \/ BecomesReady(s) \/ LosesServices(s)

\* Keys are interchangeable: a client takes the next one.
KeysInOrder(a, k) == \A j \in ActionKeys : j < k => actions[a][j] # NoAction

AdminEdits ==
    \E a \in Admins :
        \/ \E x \in Sections : Load(a, x)
        \/ \E k \in ActionKeys, x \in BusinessSections \cup TechnicalSections :
             \E v \in SectionValues[x] :
                 loaded[a].section = x /\ KeysInOrder(a, k) /\ applyMutation(a, k, v)

Transfers ==
    \E r \in TransferRequests :
        \/ \E u \in Uploads \cup {<<>>} :
             \/ \E sel \in Selections : RequestPreview(r, sel, u)
             \/ \E i \in 1 .. MaxPreviews : RequestApply(r, i, u)
        \/ exportSalon(r) \/ SnapshotSource(r) \/ TargetImportState(r) \/ SnapshotTarget(r)
        \/ LocalBusinessHours(r) \/ CreatePreview(r) \/ Apply(r) \/ TransferEnds(r)

TransferNext == OwnerConfigEdits \/ AdminEdits \/ Transfers

RecordsNext ==
    \/ \E a \in Admins, k \in ActionKeys :
        \/ \E kind \in Kinds, ai \in BOOLEAN : CreateRecord(a, k, kind, ai)
        \/ \E n \in DOMAIN records :
             \/ \E active, ai \in BOOLEAN : MutateRecord(a, k, n, active, ai)
             \/ ArchiveRecord(a, k, n)
             \/ \E services \in SUBSET DOMAIN records :
                  ReplaceStaffServiceEligibility(a, k, n, services)
    \/ \E n \in DOMAIN records : LinkRecord(n)

ConfigNext == TransferNext \/ RecordsNext
ConfigSpec == ConfigInit /\ [][ConfigNext]_configVars

-----------------------------------------------------------------------------
ConfigTypeOK ==
    /\ \A s \in Salons : \A x \in Sections : conf[s][x] \in SectionValues[x] /\ vers[s][x] \in Nat
    /\ \A s \in Salons : authorityOf[s].name \in Authorities /\ authorityOf[s].version \in Nat
    /\ \A i \in DOMAIN transfer : transfer[i].status \in {"previewed", "applied"}
    /\ \A n \in DOMAIN records : records[n].kind \in Kinds
    /\ editsLeft \in 0 .. MaxConfigEdits

\* A phrase never names both a service and a category of a salon, whoever of the
\* owner, the administrators and a transfer wrote last: two would answer a
\* caller's words with different services.
OnePhraseOneOwner == \A s \in Salons : ~ (conf[s].aliases /\ conf[s].categories)

\* No retry of a creation makes a second service, staff member or customer, and
\* what was archived is neither active nor bookable again.
RecordsAreSound ==
    /\ \A m, n \in DOMAIN records : records[m].by = records[n].by => m = n
    /\ \A n \in DOMAIN records : records[n].archived => ~ records[n].active /\ ~ records[n].ai

\* The catalogue is unambiguous and its records are neither doubled nor revived, by
\* whichever API they are written.
ConfigurationIsSound == OnePhraseOneOwner /\ RecordsAreSound

\* The step applies the transfer that r has planned.
AppliesToStep(r) ==
    prepared[r].step = "planned" /\ prepared[r].kind.preview # 0
    /\ transfer # transfer' /\ Len(transfer) = Len(transfer') /\ prepared'[r] = IdleTransfer

\* A transfer that is applied was planned against the configuration it replaces,
\* and carries the configuration the source has: no edit that fell between the
\* reads of its preview, the reads of its application and the transaction is
\* lost or half taken.  An update with a version replaces what its author saw.
WritesAreInformed ==
    [][ /\ \A r \in TransferRequests : AppliesToStep(r) =>
             /\ \A x \in Scoped(prepared[r].sel) : prepared[r].target[x] = conf["target"][x]
             /\ prepared[r].upload = <<>> =>
                    prepared[r].bundle = Bundle(conf["source"], prepared[r].sel)
             /\ prepared[r].authority = authorityOf["target"]
        /\ \A a \in Admins : actions'[a] # actions[a] /\ loaded[a] # NotLoaded /\ conf' # conf =>
             conf["target"][loaded[a].section] = loaded[a].value ]_configVars

\* A public page goes live only in a state in which its salon can publish it,
\* for the authority in force, and whatever else the same transaction changed.
PublishedIsReady ==
    [][ \A s \in Salons : ~ conf[s].public /\ conf'[s].public =>
            /\ facts'[s].bookable
            /\ authorityOf'[s].name = "manleai_calendar" =>
                    conf'[s].hours # NoHours /\ facts'[s].activated
            /\ authorityOf'[s].name = "external_provider" => facts'[s].provider ]_configVars

=============================================================================
