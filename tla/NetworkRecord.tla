--------------------------- MODULE NetworkRecord ---------------------------
(***************************************************************************)
(* The normalized network record (struct Network, src/src/manager/        *)
(* network.h) as the YAML walker sees it: its initial value (network_new), *)
(* the parser tables that map a YAML key to a field and a converter        *)
(* (parser_*_vtable in src/src/yaml/yaml-network-parser.c) and the         *)
(* converters themselves (parse_boolean, parse_uint32 and the name tables  *)
(* of network.c).                                                          *)
(*                                                                         *)
(* Data is abstracted to tokens: a YAML scalar is a string drawn from a    *)
(* small set; an address is a token in ValidIPs.  A C string pointer that  *)
(* is NULL is the model value NULL; a C string read from a node that is    *)
(* not a scalar (the union member data.scalar.value of a mapping or a      *)
(* sequence) is the token GARBAGE, which no converter accepts.             *)
(***************************************************************************)
EXTENDS Integers, Sequences, FiniteSets, Bags
LOCAL INSTANCE BagsExt

CONSTANTS
  NULL,       \* a NULL char * / NULL pointer
  ValidIPs,   \* scalar tokens parse_ip_from_string accepts
  ValidMACs   \* scalar tokens parse_ether_address accepts

GARBAGE == "<non-scalar node read as a string>"

EINVAL == 22
ERANGE == 34
ENOMEM == 12

(* The enums of network.h the walker and the generators test by name.     *)
PARSER_TYPE_YAML == 0
AUTH_KEY_MANAGEMENT_NONE == 0
AUTH_KEY_MANAGEMENT_WPA_PSK == 1
AUTH_KEY_MANAGEMENT_8021X == 3
AUTH_EAP_METHOD_NONE == 0
AUTH_EAP_METHOD_TLS == 1
AUTH_EAP_METHOD_TTLS == 3

(***************************************************************************)
(* strtol(c, &p, 0) on the scalar tokens the model uses: the value when    *)
(* the whole token is an integer in C notation (a leading 0 is octal) that *)
(* fits an int, absent when p == c or *p != 0.  LongBeyondInt are the      *)
(* tokens whose long value lies outside [INT_MIN, INT_MAX].                *)
(*                                                                         *)
(* A uint32_t is represented by the int with the same 32 bits (two's       *)
(* complement), so (unsigned) -1 is -1, it is non-zero exactly when its    *)
(* bits are, and printing it with %d prints that int.                      *)
(***************************************************************************)
Strtol == [t \in {"0", "1", "1500", "9000", "-1", "010"} |->
             CASE t = "0" -> 0 [] t = "1" -> 1 [] t = "1500" -> 1500
               [] t = "9000" -> 9000 [] t = "-1" -> -1 [] t = "010" -> 8]
LongBeyondInt == {"3000000000"}

(* parse_boolean: 1, 0 or -EINVAL (the tokens of the model are lower-case, *)
(* so string_equal_fold is plain equality on them).                        *)
parse_boolean(v) ==
  CASE v \in {"1", "yes", "y", "true", "t", "on"}  -> 1
    [] v \in {"0", "no", "n", "false", "f", "off"} -> 0
    [] OTHER                                       -> -EINVAL

(* parse_uint32: the result code and the bits stored through the unsigned *)
(* pointer: any long in [INT_MIN, INT_MAX] is accepted, a negative one     *)
(* included.                                                               *)
parse_uint32(c) ==
  CASE c \in LongBeyondInt   -> [r |-> -ERANGE, val |-> 0]
    [] c \notin DOMAIN Strtol -> [r |-> -1, val |-> 0]
    [] OTHER                  -> [r |-> 0, val |-> Strtol[c]]

(* The name tables of network.c, index 0 first, and their *_to_mode       *)
(* lookups: the first index whose name matches, else -EINVAL.              *)
dhcp_modes == <<"no", "yes", "ipv4", "ipv6">>
dhcp_client_identifier == <<"mac", "duid", "duid-ony">>
link_local_address_type == <<"yes", "no", "ipv4", "ipv6", "fallback", "ipv4-fallback">>

NameToMode(names, name) ==
  IF \E i \in DOMAIN names : names[i] = name
  THEN (CHOOSE i \in DOMAIN names : names[i] = name) - 1
  ELSE -EINVAL

dhcp_name_to_mode(name) == NameToMode(dhcp_modes, name)
dhcp_client_identifier_to_mode(name) == NameToMode(dhcp_client_identifier, name)
link_local_address_type_to_mode(name) == NameToMode(link_local_address_type, name)

(***************************************************************************)
(* network_new: new0 zeroes the struct, the designated initializer sets    *)
(* the tri-states and enums it names to -1 / -EINVAL, and the three Sets   *)
(* are created empty.  routes, routing_policy_rules and access_points stay *)
(* NULL.                                                                   *)
(***************************************************************************)
NetworkFields ==
  {"ifname", "match_mac", "driver", "mac", "mtu", "unmanaged", "arp", "multicast",
   "all_multicast", "promiscuous", "req_for_online", "req_family_for_online",
   "activation_policy", "dhcp_type", "dhcp4", "dhcp6", "dhcp_client_identifier_type",
   "lldp", "emit_lldp", "ipv6_accept_ra", "link_local", "ipv6_address_generation",
   "ipv6_privacy", "ipv6_mtu", "dhcp4_use_dns", "dhcp4_use_domains", "dhcp4_use_ntp",
   "dhcp4_use_mtu", "dhcp4_use_routes", "dhcp4_use_hostname", "dhcp4_send_hostname",
   "dhcp4_route_metric", "dhcp4_hostname", "dhcp6_use_dns", "dhcp6_use_domains",
   "dhcp6_use_ntp", "dhcp6_use_address", "dhcp6_use_hostname",
   "use_dns", "use_domains", "use_mtu", "gateway", "gateway_onlink",
   "domains", "nameservers", "ntps", "addresses", "parser_type", "modified"}

StringFields == {"ifname", "match_mac", "driver", "mac", "req_family_for_online",
                 "activation_policy", "dhcp4_hostname", "gateway"}
SetFields == {"domains", "nameservers", "ntps"}
(* set_new(&n->addresses, NULL, NULL): no hash or compare function, so   *)
(* the set compares its keys by pointer and every set_add of a fresh      *)
(* allocation adds an element; the model keeps it as a bag of entries.    *)
IdentitySetFields == {"addresses"}
InvalidFields == {"dhcp_type", "dhcp_client_identifier_type", "link_local", "parser_type"}
MinusOneFields == {"use_mtu", "use_dns", "use_domains", "gateway_onlink", "lldp",
                   "ipv6_accept_ra"}

(* parse_address_from_string_and_add (network.c): set_contains(a, s)      *)
(* compares the pointer s, a node's scalar, with the set's keys, none of   *)
(* which is s, so -EEXIST is never returned; a text parse_ip_from_string   *)
(* accepts is strdup'ed and set_add'ed, anything else is left out.         *)
parse_address_from_string_and_add(s, a) ==
  IF s \in ValidIPs
  THEN BagAdd(a, [ip |-> s, kind |-> "str", label |-> NULL, lifetime |-> NULL])
  ELSE a

network_new ==
  [f \in NetworkFields |->
     CASE f \in StringFields   -> NULL
       [] f \in SetFields      -> {}
       [] f \in IdentitySetFields -> EmptyBag
       [] f \in InvalidFields  -> -EINVAL
       [] f \in MinusOneFields -> -1
       [] f = "modified"       -> FALSE
       [] OTHER                -> 0]

(***************************************************************************)
(* The parser tables, key -> [field, converter].  A converter name stands  *)
(* for the parse_yaml_* function of the table entry.                       *)
(***************************************************************************)
E(f, c) == [field |-> f, conv |-> c]

parser_match_vtable ==
  [k \in {"name", "driver", "macaddress"} |->
     CASE k = "name" -> E("ifname", "string") [] k = "driver" -> E("driver", "string")
       [] k = "macaddress" -> E("match_mac", "mac")]

parser_network_vtable ==
  [k \in {"unmanaged", "mtu", "arp", "multicast", "allmulticast", "promiscuous",
          "required-for-online", "required-family-for-online", "activation-mode",
          "macaddress", "dhcp", "dhcp4", "dhcp6", "dhcp-identifier", "lldp", "emit-lldp",
          "accept-ra", "link-local", "ipv6-address-generation", "ipv6-privacy",
          "ipv6-mtu", "ntp"} |->
     CASE k = "unmanaged" -> E("unmanaged", "bool") [] k = "mtu" -> E("mtu", "uint32")
       [] k = "arp" -> E("arp", "bool") [] k = "multicast" -> E("multicast", "bool")
       [] k = "allmulticast" -> E("all_multicast", "bool")
       [] k = "promiscuous" -> E("promiscuous", "bool")
       [] k = "required-for-online" -> E("req_for_online", "bool")
       [] k = "required-family-for-online" -> E("req_family_for_online", "string")
       [] k = "activation-mode" -> E("activation_policy", "string")
       [] k = "macaddress" -> E("mac", "mac") [] k = "dhcp" -> E("dhcp_type", "dhcp")
       [] k = "dhcp4" -> E("dhcp4", "dhcp") [] k = "dhcp6" -> E("dhcp6", "dhcp")
       [] k = "dhcp-identifier" -> E("dhcp_client_identifier_type", "client_id")
       [] k = "lldp" -> E("lldp", "bool") [] k = "emit-lldp" -> E("emit_lldp", "bool")
       [] k = "accept-ra" -> E("ipv6_accept_ra", "bool")
       [] k = "link-local" -> E("link_local", "link_local")
       [] k = "ipv6-address-generation" -> E("ipv6_address_generation", "opaque")
       [] k = "ipv6-privacy" -> E("ipv6_privacy", "opaque")
       [] k = "ipv6-mtu" -> E("ipv6_mtu", "uint32") [] k = "ntp" -> E("ntps", "addresses")]

parser_dhcp4_overrides_vtable ==
  [k \in {"use-dns", "use-domain", "use-ntp", "use-mtu", "use-routes", "use-hostname",
          "send-hostname", "route-metric", "hostname"} |->
     CASE k = "use-dns" -> E("dhcp4_use_dns", "bool")
       [] k = "use-domain" -> E("dhcp4_use_domains", "bool")
       [] k = "use-ntp" -> E("dhcp4_use_ntp", "bool")
       [] k = "use-mtu" -> E("dhcp4_use_mtu", "bool")
       [] k = "use-routes" -> E("dhcp4_use_routes", "bool")
       [] k = "use-hostname" -> E("dhcp4_use_hostname", "bool")
       [] k = "send-hostname" -> E("dhcp4_send_hostname", "bool")
       [] k = "route-metric" -> E("dhcp4_route_metric", "uint32")
       [] k = "hostname" -> E("dhcp4_hostname", "string")]

parser_dhcp6_overrides_vtable ==
  [k \in {"use-dns", "use-domain", "use-ntp", "use-address", "use-hostname"} |->
     CASE k = "use-dns" -> E("dhcp6_use_dns", "bool")
       [] k = "use-domain" -> E("dhcp6_use_domains", "bool")
       [] k = "use-ntp" -> E("dhcp6_use_ntp", "bool")
       [] k = "use-address" -> E("dhcp6_use_address", "bool")
       [] k = "use-hostname" -> E("dhcp6_use_hostname", "bool")]

parser_nameservers_vtable ==
  [k \in {"search", "addresses"} |->
     IF k = "search" THEN E("domains", "opaque_set") ELSE E("nameservers", "addresses")]

ConfigTables ==
  [t \in {"match", "dhcp4-overrides", "dhcp6-overrides", "nameservers"} |->
     CASE t = "match" -> parser_match_vtable
       [] t = "dhcp4-overrides" -> parser_dhcp4_overrides_vtable
       [] t = "dhcp6-overrides" -> parser_dhcp6_overrides_vtable
       [] t = "nameservers" -> parser_nameservers_vtable]

(***************************************************************************)
(* A converter applied to the key's value: old is the field's value, s the *)
(* scalar text of the value node and items the scalar texts of its         *)
(* sequence items (for the converters that walk a sequence).  A failed     *)
(* conversion leaves the field as it was.                                  *)
(***************************************************************************)
Convert(conv, old, s, items) ==
  CASE conv = "bool" ->
         IF parse_boolean(s) >= 0 THEN parse_boolean(s) ELSE old
    [] conv = "uint32" ->
         IF parse_uint32(s).r >= 0 THEN parse_uint32(s).val ELSE old
    [] conv = "mac" -> IF s \in ValidMACs THEN s ELSE old
    [] conv = "string" -> s
    [] conv = "opaque" -> s
    [] conv = "dhcp" ->
         IF dhcp_name_to_mode(s) >= 0 THEN dhcp_name_to_mode(s) ELSE old
    [] conv = "client_id" ->
         IF dhcp_client_identifier_to_mode(s) >= 0
         THEN dhcp_client_identifier_to_mode(s) ELSE old
    [] conv = "link_local" ->
         IF link_local_address_type_to_mode(s) >= 0
         THEN link_local_address_type_to_mode(s) ELSE old
    [] conv = "addresses" -> old \cup (({s} \cup items) \cap ValidIPs)
    [] conv = "opaque_set" -> old \cup (({s} \cup items) \ {GARBAGE})
=============================================================================
