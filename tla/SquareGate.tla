------------------------------ MODULE SquareGate ------------------------------
(***************************************************************************)
(* What has to be true of a salon's Square connection before anything      *)
(* books through it by itself (modules/pos_square/service.go, modules/pos  *)
(* repository.go and repository_scheduling_capability.go): the evidence    *)
(* that Square's write path is safe, the selection of Square as the        *)
(* salon's provider, the owner's test booking, the readiness report, and   *)
(* the switch that lets the AI book.                                       *)
(*                                                                         *)
(* The connection's versions move with every change that the trigger of    *)
(* V87 watches.  Evidence is written for exact versions and expires.       *)
(* Readiness is read in one step and acted on in another.                  *)
(***************************************************************************)
EXTENDS Integers, FiniteSets

CONSTANTS
    MaxGateKeys,       \* action keys of the platform's operators, taken in order
    GateRequests,      \* requests that read the readiness and then act on it
    MaxGateVersion,    \* bound on the connection's capability version
    MaxConfigVersion   \* bound on the configuration's version

ASSUME GateConstants ==
    MaxGateKeys \in Nat /\ MaxGateVersion \in Nat \ {0} /\ MaxConfigVersion \in Nat \ {0}

VARIABLES
    link,          \* pos_connections: status, location chosen, synced, scopes, version
    squareConfig,  \* salon_integration_configs: enabled, and its technical version
    catalogReady,  \* the last snapshot left services, staff and hours to book
    evidence,      \* external_provider_scheduling_capability_evidence
    provider,      \* salons.active_pos_provider and its technical version
    aiSwitch,      \* salons.ai_enabled and its technical version
    writeError,    \* the last error of a create_booking
    lastTest,      \* the latest test booking
    gateActions,   \* technical_actions, by key
    gateRun        \* what each request has found

gateVars == <<link, squareConfig, catalogReady, evidence, provider, aiSwitch, writeError,
              lastTest, gateActions, gateRun>>

GateKeys == 1 .. MaxGateKeys
GrantedScopes == {"buyer", "seller"}
NoTest == [outcome |-> "none"]
NoGateAction == [kind |-> "none"]

-----------------------------------------------------------------------------
(* The connection and its configuration. *)

\* fence_pos_connection_booking_write_capability.
\* Mutant: the trigger does not watch the status.
FencedScopesOnly(new) ==
    IF new.scopes # link.scopes \/ new.located # link.located
    THEN [new EXCEPT !.version = @ + 1] ELSE new
Fenced(new) == IF new # link THEN [new EXCEPT !.version = @ + 1] ELSE new

LinkMoves(new) ==
    /\ link.version < MaxGateVersion
    /\ link' = Fenced(new)
    /\ UNCHANGED <<squareConfig, evidence, provider, aiSwitch, writeError, lastTest,
                   gateActions, gateRun>>

\* A new authorization replaces the tokens, with the scopes it was given.
Reauthorize(scopes) ==
    /\ link.version < MaxGateVersion
    /\ link' = [link EXCEPT !.status = "connected", !.scopes = scopes, !.version = @ + 1]
    /\ UNCHANGED <<squareConfig, catalogReady, evidence, provider, aiSwitch, writeError,
                   lastTest, gateActions, gateRun>>
ChooseLocation ==
    /\ link.status # "not_connected" /\ ~ link.located
    /\ LinkMoves([link EXCEPT !.located = TRUE, !.status = "connected", !.synced = FALSE])
    /\ UNCHANGED catalogReady
SnapshotBegins ==
    /\ link.located /\ link.status # "syncing"
    /\ LinkMoves([link EXCEPT !.status = "syncing", !.synced = FALSE])
    /\ UNCHANGED catalogReady
SnapshotEnds ==
    /\ link.status = "syncing"
    /\ \/ LinkMoves([link EXCEPT !.status = "active", !.synced = TRUE])
          /\ catalogReady' \in BOOLEAN
       \/ LinkMoves([link EXCEPT !.status = "error"]) /\ UNCHANGED catalogReady

ConfigChanges ==
    /\ squareConfig.version < MaxConfigVersion
    /\ \E on \in BOOLEAN :
         squareConfig' = [enabled |-> on, version |-> squareConfig.version + 1]
    /\ UNCHANGED <<link, catalogReady, evidence, provider, aiSwitch, writeError, lastTest,
                   gateActions, gateRun>>

\* A key that was used answers as it did, and conflicts for another request.
FreshKey(k) == gateActions[k] = NoGateAction /\ \A j \in 1 .. k - 1 : gateActions[j] # NoGateAction

-----------------------------------------------------------------------------
(* The evidence. *)

\* Square rejects double bookings only of what a buyer could book.
squareWritePermissionMode(scopes) ==
    CASE scopes = "buyer" -> "buyer_write" [] scopes = "seller" -> "seller_write"
      [] OTHER -> "unsupported"
squareCapabilityBlocker ==
    CASE link.status # "active" -> "not_connected"
      [] ~ link.located -> "location"
      [] ~ link.synced -> "sync"
      [] ~ squareConfig.enabled \/ squareConfig.version = 0 -> "config"
      [] squareWritePermissionMode(link.scopes) # "buyer_write" -> "scopes"
      [] OTHER -> "none"

\* Evidence is immutable; the key's answer is replayed.
EvidenceFor(k) ==
    [key |-> k, connection |-> link.version, config |-> squareConfig.version,
     scopes |-> link.scopes, safe |-> squareCapabilityBlocker = "none", live |-> TRUE]

ReevaluateSquareSchedulingCapability(k, expectedLink, expectedConfig) ==
    /\ FreshKey(k)
    /\ link.status # "not_connected"
    /\ link.version = expectedLink /\ squareConfig.version = expectedConfig
    /\ evidence' = evidence \cup {EvidenceFor(k)}
    /\ gateActions' = [gateActions EXCEPT ![k] = [kind |-> "evaluate", version |-> link.version]]
    /\ UNCHANGED <<link, squareConfig, catalogReady, provider, aiSwitch, writeError, lastTest,
                   gateRun>>

EvidenceExpires(e) ==
    /\ e.live
    /\ evidence' = (evidence \ {e}) \cup {[e EXCEPT !.live = FALSE]}
    /\ UNCHANGED <<link, squareConfig, catalogReady, provider, aiSwitch, writeError, lastTest,
                   gateActions, gateRun>>

CurrentEvidence ==
    {e \in evidence : /\ e.connection = link.version /\ e.config = squareConfig.version
                      /\ e.scopes = link.scopes /\ e.live}
\* AutomaticSingleCreate of the current evaluation; evidence for the same versions agrees.
GetSquareSchedulingCapabilityEvaluation == \E e \in CurrentEvidence : e.safe

-----------------------------------------------------------------------------
(* Readiness. *)

LinkConnected == link.status \in {"connected", "syncing", "active"}
CatalogUsable == LinkConnected /\ link.located /\ link.synced /\ catalogReady

testBookingWriteBlocked == lastTest.outcome \in {"pending", "unknown"}
\* A test that was booked after the error clears it.
bookingWriteBlockerFromError(latest) ==
    /\ writeError # "none"
    /\ ~ (latest.outcome = "booked" /\ latest.afterError)

\* loadSquareSchedulingTargetEvidenceTx: the capability of the target also asks for an
\* active connection, which is synchronized, and for an enabled configuration.
TargetCapability ==
    /\ \E e \in CurrentEvidence : e.safe
    /\ link.status = "active" /\ link.synced /\ squareConfig.enabled

\* buildReadiness and applyActiveProviderReadiness.  The platform's report does not
\* look at the test booking.
buildReadiness(latest) ==
    [canTest |-> CatalogUsable /\ ~ testBookingWriteBlocked
                   /\ GetSquareSchedulingCapabilityEvaluation,
     canEnable |-> CatalogUsable /\ ~ bookingWriteBlockerFromError(latest)
                     /\ GetSquareSchedulingCapabilityEvaluation]
applyActiveProviderReadiness(r) ==
    IF provider.name = "square" THEN r ELSE [canTest |-> FALSE, canEnable |-> FALSE]
Readiness == applyActiveProviderReadiness(buildReadiness(lastTest))
ReadinessForPlatform == applyActiveProviderReadiness(buildReadiness(NoTest))

-----------------------------------------------------------------------------
(* Selecting Square for the first time. *)

initialProviderActivationStatus ==
    /\ provider.name = "" /\ squareConfig.enabled /\ squareConfig.version > 0
    /\ link.status = "active" /\ link.located /\ link.synced

ActivationExpected(expectedLink, expectedConfig) ==
    link.version = expectedLink /\ squareConfig.version = expectedConfig

ActivateInitialProviderForPlatform(k, expectedLink, expectedConfig) ==
    /\ FreshKey(k)
    /\ initialProviderActivationStatus
    /\ ActivationExpected(expectedLink, expectedConfig)
    /\ provider' = [name |-> "square", version |-> provider.version + 1]
    /\ gateActions' = [gateActions EXCEPT ![k] =
                         [kind |-> "activate", version |-> provider.version + 1]]
    /\ UNCHANGED <<link, squareConfig, catalogReady, evidence, aiSwitch, writeError, lastTest,
                   gateRun>>

-----------------------------------------------------------------------------
(* The test booking. *)

Decided(r, phase) == gateRun' = [gateRun EXCEPT ![r] = phase]

ReadTestReadiness(r) ==
    /\ gateRun[r] = "idle" /\ Readiness.canTest
    /\ Decided(r, "may_test")
    /\ UNCHANGED <<link, squareConfig, catalogReady, evidence, provider, aiSwitch, writeError,
                   lastTest, gateActions>>
CreateTestBooking(r) ==
    /\ gateRun[r] = "may_test"
    /\ Decided(r, "idle")
    /\ lastTest' = [outcome |-> "pending", afterError |-> TRUE, cancelled |-> FALSE]
    /\ UNCHANGED <<link, squareConfig, catalogReady, evidence, provider, aiSwitch, writeError,
                   gateActions>>
\* The booking service settles the test.
TestBookingEnds(outcome) ==
    /\ lastTest.outcome \in {"pending", "unknown"}
    /\ lastTest' = [lastTest EXCEPT !.outcome = outcome,
                                    !.afterError = @ /\ outcome \notin {"denied", "unsupported"}]
    /\ writeError' = IF outcome \in {"denied", "unsupported"} THEN outcome ELSE writeError
    /\ UNCHANGED <<link, squareConfig, catalogReady, evidence, provider, aiSwitch, gateActions,
                   gateRun>>
\* A booking of a customer is refused.
BookingRefused(code) ==
    /\ provider.name = "square" /\ link.status = "active"
    /\ writeError' = code
    /\ lastTest' = IF lastTest = NoTest THEN NoTest ELSE [lastTest EXCEPT !.afterError = FALSE]
    /\ UNCHANGED <<link, squareConfig, catalogReady, evidence, provider, aiSwitch, gateActions,
                   gateRun>>
CancelTestBooking ==
    /\ lastTest.outcome = "booked" /\ ~ lastTest.cancelled
    /\ lastTest' = [lastTest EXCEPT !.cancelled = TRUE]
    /\ UNCHANGED <<link, squareConfig, catalogReady, evidence, provider, aiSwitch, writeError,
                   gateActions, gateRun>>

-----------------------------------------------------------------------------
(* The switch. *)

\* The readiness is checked, and the switch is set by another transaction.
ReadEnableReadiness(r) ==
    /\ gateRun[r] = "idle"
    /\ \/ ReadinessForPlatform.canEnable /\ Decided(r, "platform")
       \/ Readiness.canEnable /\ Decided(r, "owner")
    /\ UNCHANGED <<link, squareConfig, catalogReady, evidence, provider, aiSwitch, writeError,
                   lastTest, gateActions>>
EnableAIBooking(r) ==
    /\ gateRun[r] = "owner"
    /\ Decided(r, "idle")
    /\ aiSwitch' = [aiSwitch EXCEPT !.enabled = TRUE]
    /\ UNCHANGED <<link, squareConfig, catalogReady, evidence, provider, writeError, lastTest,
                   gateActions>>
DisableAIBooking ==
    /\ aiSwitch.enabled
    /\ aiSwitch' = [aiSwitch EXCEPT !.enabled = FALSE]
    /\ UNCHANGED <<link, squareConfig, catalogReady, evidence, provider, writeError, lastTest,
                   gateActions, gateRun>>

\* SetSalonAIRuntimeForPlatform: the owner's switch leaves the version alone.
SetAIRuntime(k, on, expected) ==
    /\ FreshKey(k) /\ aiSwitch.version = expected
    /\ aiSwitch' = [enabled |-> on, version |-> aiSwitch.version + 1]
    /\ gateActions' = [gateActions EXCEPT ![k] = [kind |-> IF on THEN "enable" ELSE "disable",
                                                  version |-> aiSwitch.version + 1]]
    /\ UNCHANGED <<link, squareConfig, catalogReady, evidence, provider, writeError, lastTest>>
SetAIBookingForPlatform(r, k, on, expected) ==
    /\ IF on THEN gateRun[r] = "platform" /\ Decided(r, "idle")
       ELSE gateRun[r] = "idle" /\ UNCHANGED gateRun
    /\ SetAIRuntime(k, on, expected)

-----------------------------------------------------------------------------
GateInit ==
    /\ link = [status |-> "not_connected", located |-> FALSE, synced |-> FALSE,
               scopes |-> "read", version |-> 1]
    /\ squareConfig = [enabled |-> TRUE, version |-> 1]
    /\ catalogReady = FALSE /\ evidence = {}
    /\ provider = [name |-> "", version |-> 0]
    /\ aiSwitch = [enabled |-> FALSE, version |-> 0]
    /\ writeError = "none" /\ lastTest = NoTest
    /\ gateActions = [k \in GateKeys |-> NoGateAction]
    /\ gateRun = [r \in GateRequests |-> "idle"]

GateNext ==
    \/ \E sc \in GrantedScopes : Reauthorize(sc)
    \/ ChooseLocation \/ SnapshotBegins \/ SnapshotEnds \/ ConfigChanges
    \/ \E k \in GateKeys, v \in {link.version - 1, link.version},
          c \in {squareConfig.version - 1, squareConfig.version} :
         \/ ReevaluateSquareSchedulingCapability(k, v, c)
         \/ ActivateInitialProviderForPlatform(k, v, c)
    \/ \E e \in evidence : EvidenceExpires(e)
    \/ \E r \in GateRequests : \/ ReadTestReadiness(r) \/ CreateTestBooking(r)
                               \/ ReadEnableReadiness(r) \/ EnableAIBooking(r)
    \/ \E o \in {"booked", "unknown", "denied", "unsupported"} : TestBookingEnds(o)
    \/ \E code \in {"denied", "unsupported"} : BookingRefused(code)
    \/ CancelTestBooking \/ DisableAIBooking
    \/ \E r \in GateRequests, k \in GateKeys, on \in BOOLEAN, v \in {aiSwitch.version - 1, aiSwitch.version} :
         SetAIBookingForPlatform(r, k, on, v)

GateSpec == GateInit /\ [][GateNext]_gateVars

-----------------------------------------------------------------------------
GateTypeOK ==
    /\ link.status \in {"not_connected", "connected", "syncing", "active", "error"}
    /\ link.version \in 1 .. MaxGateVersion
    /\ link.synced => link.located
    /\ link.status = "active" => link.synced
    /\ squareConfig.version \in 0 .. MaxConfigVersion
    /\ provider.name \in {"", "square"} /\ provider.version = IF provider.name = "" THEN 0 ELSE 1
    /\ aiSwitch.version <= MaxGateKeys
    /\ \A r \in GateRequests : gateRun[r] \in {"idle", "may_test", "platform", "owner"}

\* Evidence that is taken for current speaks of the connection as it is now: Square
\* is active, synchronized, at a location and enabled, with the permissions of a
\* buyer, whatever was authorized, synchronized or configured since it was written.
\* The two evaluations of it, of the report and of an authority switch, agree.
AutomaticCreateIsSafe ==
    /\ GetSquareSchedulingCapabilityEvaluation =>
          /\ link.status = "active" /\ link.located /\ link.synced
          /\ link.scopes = "buyer" /\ squareConfig.enabled
    /\ GetSquareSchedulingCapabilityEvaluation = TargetCapability
=============================================================================
