------------------------------ MODULE MCSessions ------------------------------
EXTENDS Sessions, TLC

CONSTANTS home, abroad, atHome, elsewhere   \* model values

MCOrganizations == {home, abroad}
MCMemberships   == {atHome, elsewhere}
MCOrgOf         == (atHome :> home) @@ (elsewhere :> abroad)
===============================================================================
