---------------------------- MODULE MCGatewayStream ----------------------------
EXTENDS GatewayStream, TLC

MCToolKind == (0 :> "function") @@ (1 :> "custom") @@ (2 :> "search")

\* Arguments that are whole after one, two and three fragments, and others of one
\* and two that are cut off.
MCParses == {<<2>>, <<1, 3>>, <<1, 2, 3>>}
===============================================================================
