----------------------------- MODULE MCWifiApp -----------------------------
(* Finite instances of WifiApp for TLC.                                    *)
EXTENDS WifiApp

\* The two bridges, the OPC UA server alone, and mqtt_esp_task alone.
MCVariants == {<<"opcua_pubsub", "mqtt_sub">>, <<"opcua_sub", "mqtt_pub">>,
               <<"server">>, <<"esp">>}

\* A task that gives only what it has taken.
MCServer == {<<"server">>}
=============================================================================
