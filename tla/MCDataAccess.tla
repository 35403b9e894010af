---------------------------- MODULE MCDataAccess ----------------------------
(* The role table and purposes of the repository, a second release that
   narrows a role and binds uc11, one table in each of two gold schemas, and
   one user for each kind of role. *)
EXTENDS DataAccess, UwvRoleMappings

ClientMart == [catalog |-> "gold", schema |-> "uc05_client_360", table |-> "mart_uc05_client_360"]
Journey == [catalog |-> "gold", schema |-> "uc11_klantreis", table |-> "mart_uc11_klantreis_events"]

MCTables == {ClientMart, Journey}
MCGlobOf == [t \in MCTables |-> <<t.catalog, t.schema, "*">>]
MCTags == {"Doelbinding.Klantcontact", "PII.Sensitive"}
MCPurposeOf == [tag \in MCTags |-> IF tag = "PII.Sensitive" THEN "none" ELSE "klantcontact"]

Narrower ==
  [roles    |-> [r \in DOMAIN roles |->
                   IF r = <<"data_steward">> THEN [roles[r] EXCEPT !.catalogs = @ \ {"gold"}]
                   ELSE roles[r]],
   purposes |-> [k \in DOMAIN resource_purposes \union {MCGlobOf[Journey]} |->
                   IF k = MCGlobOf[Journey] THEN {"behandeling"} ELSE resource_purposes[k]]]
MCReleases == {uwv_role_mappings, Narrower}
OneRelease == {uwv_role_mappings}

MCUsers == {"nanitics-observer", "nao-agent", "researcher", "steward", "wia", "crm"}
MCPrimary ==
  [u \in MCUsers |-> CASE u = "researcher" -> {<<"researcher">>}
                       [] u = "steward" -> {<<"data_steward">>}
                       [] u = "wia" -> {<<"wia_beoordelaar">>}
                       [] u = "crm" -> {<<"crm_medewerker">>}
                       [] OTHER -> {}]
MCRequestedBy == [q \in Requests |-> IF q = "q1" THEN "researcher" ELSE "steward"]
MCAsset == [q \in Requests |-> IF q = "q1" THEN ClientMart ELSE Journey]
MCDeclared == {"", "klantcontact", "behandeling", "uitkering"}
=============================================================================
