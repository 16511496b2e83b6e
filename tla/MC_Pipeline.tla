---------------------------- MODULE MC_Pipeline ----------------------------
(***************************************************************************)
(* Documents for the whole YAML path: the walker's documents of           *)
(* MC_YamlWalker, and one or two interfaces, eth0 with up to two pairs     *)
(* that set each kind of rendered line (link, tri-states, DHCP mode and    *)
(* client identifier, overrides, nameservers, addresses), or a routing-    *)
(* policy rule with a key of its table and one that is not.                *)
(***************************************************************************)
EXTENDS Pipeline, MC_YamlWalker, WalkRefinement

PipelinePairs ==
  { <<S("mtu"), S("9000")>>, <<S("mtu"), S("-1")>>,
    <<S("lldp"), S("yes")>>, <<S("lldp"), S("no")>>, <<S("accept-ra"), S("maybe")>>,
    <<S("dhcp"), S("yes")>>, <<S("dhcp-identifier"), S("mac")>>,
    <<S("dhcp4-overrides"), Mp(<<<<S("use-dns"), S("no")>>, <<S("use-mtu"), S("yes")>>>>)>>,
    <<S("nameservers"), Mp(<<<<S("addresses"), Sq(<<S(A2)>>)>>>>)>>,
    <<S("addresses"), Sq(<<S(A1), S(A2)>>)>>,
    <<S("addresses"), Sq(<<Mp(<<<<S(A1), Mp(<<<<S("label"), S("l1")>>>>)>>>>)>>)>>,
    <<S("routing-policy"), Mp(<<<<S("from"), S(A1)>>, <<S("x"), S("y")>>>>)>> }

PipelineBodies == {Mp(<<p>>) : p \in PipelinePairs} \cup {Mp(<<p, q>>) : p, q \in PipelinePairs}

PipelineDocs ==
  {Mp(<<<<S("eth0"), b>>>>) : b \in PipelineBodies}
  \cup {Mp(<<<<S("eth0"), b>>, <<S("eth1"), Mp(<<<<S("lldp"), S("no")>>>>)>>>>) : b \in PipelineBodies}

MCAllDocs == MCDocs \cup PipelineDocs
=============================================================================
