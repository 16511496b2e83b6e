--------------------------- MODULE MC_YamlWalker ---------------------------
(***************************************************************************)
(* Documents for the walker: an ethernets mapping of one or two            *)
(* interfaces whose bodies are mappings of up to two pairs drawn from      *)
(* Pairs, which covers every branch of parse_network_config and the        *)
(* address, route and config sections in the shapes netplan documents use. *)
(* The second interface, named apart from or like eth0's match name, has  *)
(* an mtu or a one-address section, so that what the first interface     *)
(* leaves behind meets a fresh record.                                     *)
(***************************************************************************)
EXTENDS YamlWalker, YamlDocs

Pairs ==
  { <<S("mtu"), S("9000")>>, <<S("mtu"), S("abc")>>, <<S("lldp"), S("yes")>>,
    <<S("match"), Mp(<<<<S("name"), S("lan")>>>>)>>,
    <<S("dhcp4-overrides"), Mp(<<<<S("use-dns"), S("no")>>>>)>>,
    <<S("addresses"), Sq(<<S(A1), S(A2)>>)>>,
    <<S("addresses"), Sq(<<Mp(<<<<S(A1), Mp(<<<<S("label"), S("l1")>>>>)>>>>)>>)>>,
    <<S("addresses"), Sq(<<Mp(<<<<S("label"), S("l1")>>, <<S(A2), S("x")>>>>)>>)>>,
    <<S("routes"), Sq(<<Mp(<<<<S("to"), S(A1)>>>>)>>)>>,
    <<S("routes"), Mp(<<<<S("via"), S(A2)>>>>)>>,
    <<S("link"), Mp(<<<<S("mtu"), S("1500")>>>>)>>,
    <<S("link"), Sq(<<S("x")>>)>> }

Bodies == {Mp(<<>>)} \cup {Mp(<<p>>) : p \in Pairs} \cup {Mp(<<p, q>>) : p, q \in Pairs}

MCDocs ==
  {Mp(<<<<S("eth0"), b>>>>) : b \in Bodies}
  \cup {Mp(<<<<S("eth0"), b>>, <<S(n), c>>>>) :
          b \in Bodies, n \in {"eth1", "lan"},
          c \in {Mp(<<<<S("mtu"), S("1500")>>>>), Mp(<<<<S("addresses"), Sq(<<S(A1)>>)>>>>)}}
=============================================================================
