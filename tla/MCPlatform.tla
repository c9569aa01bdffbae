------------------------------ MODULE MCPlatform ------------------------------
(* What operators do to a salon, on small instances: the imported catalog, the  *)
(* gate of automatic booking, access control, tenancy and the salon's           *)
(* configuration. The variable part says which of them a behaviour is of and    *)
(* the others stand at their first state, so the run has the sum of their       *)
(* states and not the product.                                                  *)
EXTENDS SquareCatalog, SquareGate, AccessControl, Tenancy, SalonConfiguration, TLC

VARIABLE part

allVars == <<part, catalogVars, gateVars, accessVars, tenancyVars, configVars>>

MCSelections == {{"public", "hours", "profile"}, {"aliases", "ai", "consultation"}}
MCUploads == {[public |-> TRUE, hours |-> "b", profile |-> "b", aliases |-> TRUE]}

\* Transfers are checked with one concurrent edit, the edits alone with two.
Edits == [transfers |-> 1, edits |-> 2]

\* The configuration starts from one state when it stands still.
MCInit ==
    /\ part \in {"catalog", "gate", "access", "tenants", "quota", "transfers", "edits", "records"}
    /\ CatalogInit /\ GateInit /\ AccessInit /\ TenancyInit /\ ConfigInit
    /\ editsLeft = IF part \in DOMAIN Edits THEN Edits[part] ELSE 0
    /\ part \notin {"transfers", "edits", "records"} =>
           /\ ~ conf["source"].public /\ ~ conf["source"].aliases
           /\ authorityOf["target"].name = "owner_manual"

MCNext ==
    \/ /\ part = "catalog" /\ CatalogNext
       /\ UNCHANGED <<part, gateVars, accessVars, tenancyVars, configVars>>
    \/ /\ part = "gate" /\ GateNext
       /\ UNCHANGED <<part, catalogVars, accessVars, tenancyVars, configVars>>
    \/ /\ part = "access" /\ AccessNext
       /\ UNCHANGED <<part, catalogVars, gateVars, tenancyVars, configVars>>
    \/ /\ \/ part = "tenants" /\ ReviewNext
          \/ part = "quota" /\ QuotaNext
       /\ UNCHANGED <<part, catalogVars, gateVars, accessVars, configVars>>
    \/ /\ \/ part = "transfers" /\ TransferNext
          \/ part = "edits" /\ (OwnerConfigEdits \/ AdminEdits)
          \/ part = "records" /\ RecordsNext
       /\ UNCHANGED <<part, catalogVars, gateVars, accessVars, tenancyVars>>

MCSpec == MCInit /\ [][MCNext]_allVars

\* The variables of every component hold what its tables and memory hold.
PlatformTypeOK ==
    /\ CatalogTypeOK /\ GateTypeOK /\ AccessTypeOK /\ TenancyTypeOK /\ ConfigTypeOK

MCSymmetry == Permutations(Operators)

\* A salon offers what its provider lists, and books by itself only what the provider was
\* shown to accept.
ProviderIsTrusted == OfferedIsListed /\ AutomaticCreateIsSafe

\* Every delegation rests on a role and an assignment in force, every tenant has its
\* owner and its limits, every salon's configuration is consistent.
SalonsAreInOrder == DelegationIsBacked /\ TenantsAreWhole /\ ConfigurationIsSound

\* No step takes the last administrator away, overwrites what its author has not seen, or
\* publishes a salon that is not ready.
ChangesAreSafe == AnAdministratorRemains /\ WritesAreInformed /\ PublishedIsReady
=============================================================================
