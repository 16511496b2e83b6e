---------------------------- MODULE MC_WifiConfig ----------------------------
(* WiFi mappings for parse_wifi_access_points_config, each handed over    *)
(* once, in any order.                                                     *)
(*   Scenario E: key-management psk and a password; the same password     *)
(*   without key-management; a mapping with two access points, an EAP      *)
(*   method, an identity, a key no table has and an unknown name.          *)
EXTENDS WifiConfig

P(k, v) == <<k, v>>

MCWellFormedCalls ==
  {[net |-> "eth0", node |-> <<P("ssid-name", "s1"), P("key-management", "psk"),
                               P("password", "p1")>>],
   [net |-> "eth0", node |-> <<P("ssid-name", "s2"), P("password", "p2")>>],
   [net |-> "eth1", node |-> <<P("ssid-name", "s1"), P("method", "tls"), P("identity", "id1"),
                               P("foo", "x"), P("ssid-name", "s3"),
                               P("key-management", "none"), P("key-management", "eap"),
                               P("password", "p3")>>]}

(* Two mappings of one Network with the same SSID. *)
MCDuplicateCalls ==
  {[net |-> "eth0", node |-> <<P("ssid-name", "s1"), P("password", "p1")>>],
   [net |-> "eth0", node |-> <<P("ssid-name", "s1"), P("password", "p2")>>]}

(* A mapping of another Network whose first key is not ssid-name. *)
MCStaleCalls ==
  {[net |-> "eth0", node |-> <<P("ssid-name", "s1"), P("password", "p1")>>],
   [net |-> "eth1", node |-> <<P("password", "p2"), P("ssid-name", "s2")>>]}

(* The psk key, with a key-management name and with a passphrase. *)
MCPskCalls ==
  {[net |-> "eth0", node |-> <<P("ssid-name", "s1"), P("psk", "eap")>>],
   [net |-> "eth0", node |-> <<P("ssid-name", "s2"), P("psk", "secret")>>]}
=============================================================================
