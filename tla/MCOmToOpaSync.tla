--------------------------- MODULE MCOmToOpaSync ---------------------------
(* Two tables of gold.uc05_client_360 and one of gold.uc11_klantreis.  The
   repository has two releases: the first binds uc05, the second also binds
   a schema OpenMetadata knows nothing of and changes a role. *)
EXTENDS OmToOpaSync

CONSTANTS mart, profile, events

UC05 == <<"gold", "uc05_client_360", "*">>
UC11 == <<"gold", "uc11_klantreis", "*">>
ZW == <<"silver", "zw", "*">>

MCTables == {mart, profile, events}
MCGlobOf == [t \in MCTables |-> IF t = events THEN UC11 ELSE UC05]
MCTags == {"Doelbinding.Klantcontact", "Doelbinding.Behandeling", "PII.Sensitive"}
MCPurposeOf ==
  [tag \in MCTags |-> CASE tag = "Doelbinding.Klantcontact" -> "klantcontact"
                        [] tag = "Doelbinding.Behandeling" -> "behandeling"
                        [] OTHER -> "none"]
First == [roles |-> "first", purposes |-> [k \in {UC05} |-> {"klantcontact"}]]
Second == [roles    |-> "second",
           purposes |-> [k \in {UC05, ZW} |-> IF k = ZW THEN {"uitkering"} ELSE {"klantcontact"}]]
MCReleases == {First, Second}
=============================================================================
