-------------------------- MODULE UwvRoleMappings --------------------------
(* The document uwv_role_mappings of opa-policies-src/data. *)

Role(catalogs, allSchemas, schemas, purposes, caps) ==
  [catalogs |-> catalogs, allSchemas |-> allSchemas, schemas |-> schemas,
   purposes |-> purposes, caps |-> caps]

Zones == {"bronze", "silver", "gold"}

TechnicalRole(r) ==
  CASE r = "smoketest" ->
         Role(Zones \union {"system", "system_jdbc"}, TRUE, {}, {"*"}, {"can_see_pii"})
    [] r = "nanitics_observer" ->
         Role({"silver", "gold"}, TRUE, {}, {"sturingsinfo", "kwaliteitscontrole", "beleid"}, {})
    [] r = "nao_agent" -> Role({"silver", "gold"}, TRUE, {}, {"*"}, {})
    [] r = "data_steward" ->
         Role(Zones, TRUE, {}, {"sturingsinfo", "kwaliteitscontrole"}, {"can_see_pii"})
    [] r = "data_engineer" ->
         Role({"bronze"}, TRUE, {}, {"primair_proces"}, {"can_see_pii", "can_see_bankrekening"})

BusinessRole(r) ==
  CASE r = "wia_beoordelaar" ->
         Role({"silver", "gold"}, FALSE, {"wia", "uc01_wia_funnel"},
              {"uitkering", "behandeling", "reintegratie"}, {"can_see_pii", "can_see_medical"})
    [] r = "ww_handhaver" ->
         Role({"silver", "gold"}, FALSE, {"ww", "uc03_ww_risk"}, {"handhaving"},
              {"can_see_pii", "can_see_bankrekening"})
    [] r = "wajong_arbeidsdeskundige" ->
         Role({"sensitive", "silver", "gold"}, FALSE, {"wajong", "uc02_wajong"},
              {"reintegratie", "behandeling"}, {"can_see_pii", "can_see_medical"})
    [] r = "crm_medewerker" ->
         Role({"gold"}, FALSE, {"uc05_client_360"}, {"klantcontact", "behandeling"}, {})
    [] r = "fez_analist" ->
         Role({"gold"}, FALSE, {"uc06_lastprognose"}, {"actuarie", "beleid"}, {})
    [] r = "smz_planner" ->
         Role({"gold", "silver"}, FALSE, {"uc08_smz_capaciteit", "smz"}, {"planning"}, {})
    [] r = "proactief_dienstverlener" ->
         Role({"gold"}, FALSE, {"uc04_tw_eligibility"}, {"proactieve_dienstverlening"},
              {"can_see_pii"})
    [] r = "researcher" -> Role({"sandbox"}, TRUE, {}, {"statistisch_onderzoek"}, {})
    [] r = "platform_admin" ->
         Role(Zones \union {"sensitive", "sandbox"}, TRUE, {}, {"*"},
              {"can_see_pii", "can_see_medical", "can_see_bankrekening", "break_glass"})

TechnicalRoles == {"smoketest", "nanitics_observer", "nao_agent", "data_steward", "data_engineer"}
BusinessRoles ==
  {"wia_beoordelaar", "ww_handhaver", "wajong_arbeidsdeskundige", "crm_medewerker",
   "fez_analist", "smz_planner", "proactief_dienstverlener", "researcher", "platform_admin"}

roles == [r \in {<<n>> : n \in TechnicalRoles \union BusinessRoles} |->
            IF r[1] \in TechnicalRoles THEN TechnicalRole(r[1]) ELSE BusinessRole(r[1])]

SchemaPurposes ==
  { <<"gold", "uc01_wia_funnel", {"sturingsinfo"}>>,
    <<"gold", "uc04_tw_eligibility", {"proactieve_dienstverlening"}>>,
    <<"gold", "uc05_client_360", {"klantcontact", "behandeling"}>>,
    <<"gold", "uc06_lastprognose", {"actuarie", "beleid"}>>,
    <<"gold", "uc07_dq_polisadm", {"primair_proces", "kwaliteitscontrole"}>>,
    <<"gold", "uc08_smz_capaciteit", {"planning"}>>,
    <<"silver", "wia", {"uitkering", "behandeling", "reintegratie"}>>,
    <<"silver", "ww", {"uitkering", "handhaving"}>>,
    <<"silver", "wajong", {"reintegratie", "behandeling"}>>,
    <<"silver", "crm", {"klantcontact", "behandeling"}>>,
    <<"silver", "fez", {"actuarie", "beleid"}>>,
    <<"silver", "polisadm", {"primair_proces", "kwaliteitscontrole"}>>,
    <<"silver", "persoon", {"primair_proces", "kwaliteitscontrole"}>>,
    <<"silver", "zw", {"uitkering"}>>,
    <<"bronze", "uwv", {"primair_proces"}>>,
    <<"sensitive", "wajong", {"reintegratie", "behandeling"}>> }

resource_purposes ==
  [k \in {<<e[1], e[2], "*">> : e \in SchemaPurposes} |->
     UNION {e[3] : e \in {x \in SchemaPurposes : x[1] = k[1] /\ x[2] = k[2]}}]

\* Columns the document calls pii, medical or a bank account.
sensitive_columns ==
  [pii |-> {"bsn", "voornaam", "achternaam", "geboortedatum", "straat", "huisnummer",
            "iban", "bankrekening"},
   medical |-> {"diagnose", "icd10"},
   bankrekening |-> {"iban", "bankrekening"}]

uwv_role_mappings == [roles |-> roles, purposes |-> resource_purposes]
=============================================================================
