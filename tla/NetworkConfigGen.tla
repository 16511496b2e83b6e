------------------------- MODULE NetworkConfigGen -------------------------
(***************************************************************************)
(* generate_network_config (src/src/manager/network.c): the text a Network *)
(* record is rendered to.  The text is abstracted to its sequence of       *)
(* lines: a section header is a line with an empty key, a "Key=value" line *)
(* is [sec, key, val].  Blank lines and the space joining DNS and NTP     *)
(* servers are layout and left out; a joined line carries the sequence of  *)
(* the set's members in set_foreach order (some fixed order).              *)
(***************************************************************************)
EXTENDS NetworkRecord
LOCAL INSTANCE SequencesExt

Line(s, k, v) == [sec |-> s, key |-> k, val |-> v]
Section(s) == Line(s, "", "")

(* What "%s" prints for an IPAddress * handed over as a char *: the bytes *)
(* of the binary struct up to its first zero byte, which is no address     *)
(* text.                                                                    *)
IPADDRESS_BYTES == "<bytes of a struct IPAddress>"

(* bool_to_string (shared string utilities, not in this tree). *)
bool_to_string(b) == IF b # 0 THEN "yes" ELSE "no"

(* The *_to_name lookups: "n/a" below 0, NULL past the table's end, else *)
(* the table's name.                                                       *)
ModeToName(names, id) ==
  CASE id < 0            -> "n/a"
    [] id >= Len(names)  -> NULL
    [] OTHER             -> names[id + 1]

dhcp_modes_to_name(id) == ModeToName(dhcp_modes, id)
dhcp_client_identifier_to_name(id) == ModeToName(dhcp_client_identifier, id)
link_local_address_type_to_name(id) == ModeToName(link_local_address_type, id)

(* append_addresses prints the set's key as a string: the strdup'ed text  *)
(* of parse_address_from_string_and_add, or the IPAddress of parse_address. *)
append_addresses(a) ==
  <<Section("Address"),
    Line("Address", "Address", IF a.kind = "str" THEN a.ip ELSE IPADDRESS_BYTES)>>

(* The lines of a condition that holds, none otherwise. *)
When(c, ls) == IF c THEN ls ELSE <<>>

match_section(n) ==
  <<Section("Match")>>
  \o When(n.ifname # NULL, <<Line("Match", "Name", n.ifname)>>)
  \o When(n.match_mac # NULL, <<Line("Match", "MACAddress", n.match_mac)>>)

(* n->mtu is a uint32_t: "> 0" is "not zero", and "%d" prints the int of   *)
(* its bits.                                                                *)
link_section(n) ==
  When(n.mtu # 0 \/ n.mac # NULL,
       <<Section("Link")>>
       \o When(n.mtu # 0, <<Line("Link", "MTUBytes", n.mtu)>>)
       \o When(n.mac # NULL, <<Line("Link", "MACAddress", n.mac)>>))


(* parser_type 0 is PARSER_TYPE_YAML; the names of the command-line path   *)
(* (dracut_to_networkd_dhcp_mode_to_name) are not modelled.                *)
network_section(n) ==
  <<Section("Network")>>
  \o When(n.dhcp_type # -EINVAL,
          <<Line("Network", "DHCP",
                 IF n.parser_type = PARSER_TYPE_YAML THEN dhcp_modes_to_name(n.dhcp_type) ELSE NULL)>>)
  \o When(n.lldp # -1, <<Line("Network", "LLDP", bool_to_string(n.lldp))>>)
  \o When(n.link_local # -EINVAL,
          <<Line("Network", "LinkLocalAddressing",
                 link_local_address_type_to_name(n.link_local))>>)
  \o When(n.ipv6_accept_ra # -1,
          <<Line("Network", "IPv6AcceptRA", bool_to_string(n.ipv6_accept_ra))>>)
  \o When(n.nameservers # {}, <<Line("Network", "DNS", SetToSeq(n.nameservers))>>)
  \o When(n.ntps # {}, <<Line("Network", "NTP", SetToSeq(n.ntps))>>)

dhcp_section(n) ==
  When(n.use_dns # -1 \/ n.use_domains # -1 \/ n.use_mtu # -1
         \/ n.dhcp_client_identifier_type # -EINVAL,
       <<Section("DHCP")>>
       \o When(n.dhcp_client_identifier_type # -EINVAL,
               <<Line("DHCP", "ClientIdentifier",
                      dhcp_client_identifier_to_name(n.dhcp_client_identifier_type))>>)
       \o When(n.use_dns # -1, <<Line("DHCP", "UseDNS", bool_to_string(n.use_dns))>>)
       \o When(n.use_domains # -1, <<Line("DHCP", "UseDomains", bool_to_string(n.use_domains))>>)
       \o When(n.use_mtu # -1, <<Line("DHCP", "UseMTU", bool_to_string(n.use_mtu))>>))

(* set_foreach visits every element of the pointer-keyed set once: one   *)
(* Address section per copy of an entry.                                   *)
address_sections(n) ==
  LET entries == SetToSeq(BagToSet(n.addresses))
  IN FlattenSeq([j \in DOMAIN entries |->
                   FlattenSeq([c \in 1..n.addresses[entries[j]] |-> append_addresses(entries[j])])])

(* The YAML path never sets gateway, and network_new never creates the    *)
(* routes table, so no append_routes section follows.                      *)
route_section(n) ==
  When(n.gateway # NULL,
       <<Section("Route"), Line("Route", "Gateway", n.gateway)>>
       \o When(n.gateway_onlink # -1,
               <<Line("Route", "GatewayOnlink", bool_to_string(n.gateway_onlink))>>))

(* Fault variant: the address sections are emitted before the DHCP one. *)
generate_network_config_addresses_first(n) ==
  match_section(n) \o link_section(n) \o network_section(n) \o address_sections(n)
  \o dhcp_section(n) \o route_section(n)

generate_network_config(n) ==
  match_section(n) \o link_section(n) \o network_section(n) \o dhcp_section(n)
  \o address_sections(n) \o route_section(n)

(* The values of the lines with a given key. *)
LineVals(out, k) == {out[j].val : j \in {j \in DOMAIN out : out[j].key = k}}

(* The sections of a rendered text, in order. *)
Sections(out) == SelectSeq(out, LAMBDA l : l.key = "")
=============================================================================
