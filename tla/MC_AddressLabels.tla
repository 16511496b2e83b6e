-------------------------- MODULE MC_AddressLabels --------------------------
(***************************************************************************)
(* Address sections for parse_address: one interface whose addresses are  *)
(* a sequence of one or two items, each a plain address, an address with  *)
(* its options as its value (the netplan form), or a mapping that gives a *)
(* label next to an address key.                                           *)
(***************************************************************************)
EXTENDS YamlWalker, YamlDocs

Items ==
  { S(A1),
    Mp(<<<<S(A1), Mp(<<<<S("label"), S("l1")>>, <<S("lifetime"), S("0")>>>>)>>>>),
    Mp(<<<<S(A2), Mp(<<<<S("label"), S("l2")>>>>)>>>>),
    Mp(<<<<S("label"), S("l1")>>, <<S(A2), S("x")>>>>),
    Mp(<<<<S("label"), S("l1")>>, <<S(A1), Mp(<<<<S("lifetime"), S("0")>>>>)>>>>) }

MCDocs ==
  {Mp(<<<<S("eth0"), Mp(<<<<S("addresses"), Sq(items)>>>>)>>>>) :
     items \in {<<i>> : i \in Items} \cup {<<i, j>> : i, j \in Items}}
=============================================================================
