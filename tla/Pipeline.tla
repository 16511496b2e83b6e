----------------------------- MODULE Pipeline -----------------------------
(***************************************************************************)
(* The data flow of the YAML path: parse_ethernet_config fills             *)
(* nets->networks, then every Network of the table is rendered by          *)
(* generate_network_config.  The driver between the two                    *)
(* (manager_generate_network_config_from_yaml) is not in this tree; the    *)
(* composition follows the data flow the specification describes: a      *)
(* document that was walked to its end is rendered record by record.       *)
(***************************************************************************)
EXTENDS YamlWalker, NetworkConfigGen

Rendered(name) == generate_network_config(nets[name].rec)

(* The body the document gives the interface of that name. *)
BodyOf(name) ==
  doc.kids[2 * (CHOOSE j \in 1..NPairs(doc) : scalar(PairKey(doc, j)) = name)]

(* The texts a key takes inside the sections named sec of a body. *)
SectionTexts(body, sec, key) ==
  UNION {ValueTexts(body.kids[j + 1], key) :
           j \in {j \in 1..Len(body.kids) - 1 : j % 2 = 1 /\ scalar(body.kids[j]) = sec}}

SectionOrder == <<"Match", "Link", "Network", "DHCP", "Address", "Route">>
Rank(s) == CHOOSE i \in DOMAIN SectionOrder : SectionOrder[i] = s

WalkDone == status = "done"

(* Spec 4.5: the text of every recorded interface has its sections in the *)
(* fixed order Match, Link, Network, DHCP, Address, Route; Match and       *)
(* Network always, every other section at most once except Address, which  *)
(* comes once per member of the address set.                               *)
SectionsInSpecOrder ==
  WalkDone =>
    \A name \in DOMAIN nets :
      LET secs == Sections(Rendered(name)) IN
        /\ secs[1].sec = "Match"
        /\ \E j \in DOMAIN secs : secs[j].sec = "Network"
        /\ \A i, j \in DOMAIN secs :
             i < j => \/ Rank(secs[i].sec) < Rank(secs[j].sec)
                      \/ secs[i].sec = "Address" /\ secs[j].sec = "Address"
        /\ Cardinality({j \in DOMAIN secs : secs[j].sec = "Address"})
             = BagCardinality(nets[name].rec.addresses)


(* Spec 8, round trip: the Address= lines of a rendered interface parse   *)
(* back to exactly the addresses of its record.                            *)
AddressesRoundTrip ==
  WalkDone =>
    \A name \in DOMAIN nets :
      LineVals(Rendered(name), "Address") \cap ValidIPs
        = {a.ip : a \in BagToSet(nets[name].rec.addresses)}

(* Spec 8, scenario C: a use-dns or use-mtu override with a boolean value *)
(* appears in the DHCP section as UseDNS= / UseMTU=.                       *)
DhcpOverridesRendered ==
  WalkDone =>
    \A name \in DOMAIN nets, k \in {<<"use-dns", "UseDNS">>, <<"use-mtu", "UseMTU">>} :
      \A t \in SectionTexts(BodyOf(name), "dhcp4-overrides", k[1]) :
        parse_boolean(t) >= 0 => bool_to_string(parse_boolean(t)) \in LineVals(Rendered(name), k[2])

(* Spec 4.1 and 4.5: the MTU is an unsigned value, and the Link section's *)
(* MTUBytes= is a positive number.                                         *)
MtuRenderedPositive ==
  WalkDone => \A name \in DOMAIN nets : \A v \in LineVals(Rendered(name), "MTUBytes") : v > 0
=============================================================================
