----------------------------- MODULE YamlWalker -----------------------------
(***************************************************************************)
(* The YAML tree walker of src/src/yaml/yaml-network-parser.c:            *)
(* parse_ethernet_config and the recursive parse_network_config,          *)
(* parse_config, parse_address, parse_route and                            *)
(* parse_routing_policy_rule_config, as a machine with an explicit call    *)
(* stack.  One step is one iteration of one of their loops, a call or a    *)
(* return.                                                                 *)
(*                                                                         *)
(* A libyaml node is a record [kind, val, kids].  kids lists the item ids  *)
(* of a sequence, and the key and value ids of a mapping in the order      *)
(* key1, value1, key2, value2, ...: this is the memory the walker really   *)
(* reads, because the loops read node->data.sequence.items and             *)
(* node->data.mapping.pairs of the same node whatever its type, and the    *)
(* two members of the union have the same layout (start, end, top).  A     *)
(* mapping seen as a sequence yields all its keys and values; a sequence   *)
(* seen as a mapping yields its items two by two, and an odd last item is  *)
(* paired with the int that follows the items stack's top: uninitialized   *)
(* heap memory, which yaml_document_get_node turns into NULL or into some  *)
(* node of the document (OverReadAny says whether the model lets it be any *)
(* node).  A scalar seen as either yields nothing.                         *)
(***************************************************************************)
EXTENDS NetworkRecord
LOCAL INSTANCE BagsExt
LOCAL INSTANCE SequencesExt

CONSTANTS
  Docs,         \* the "ethernets" mapping nodes parse_ethernet_config may be given
  OverReadAny,  \* may the word read past a sequence's top name a node (else NULL)
  MaxDepth,     \* C stack depth at which unbounded recursion overflows
  AllocMayFail  \* may an allocation (new0, strdup, network_new, route_new) fail

VARIABLES
  doc,      \* the mapping node handed to parse_ethernet_config
  eth,      \* index of the next pair of that mapping
  net,      \* the Network being populated, NULL between pairs
  stack,    \* call frames above parse_ethernet_config, innermost last
  pending,  \* *addr: the IPAddress descriptor shared by one parse_address call tree
  nets,     \* nets->networks: ifname -> [rec, live] (live FALSE once freed)
  status,   \* "walking", "done", or how the walk ended: "crash", "enomem", "overflow"
  failed    \* history: the current interface's parse_network_config returned an error

vars == <<doc, eth, net, stack, pending, nets, status, failed>>

NullNode == [kind |-> "null", val |-> NULL, kids |-> <<>>]

RECURSIVE Subnodes(_)
Subnodes(n) == {n} \cup UNION {Subnodes(n.kids[i]) : i \in DOMAIN n.kids}

(* scalar(n): the string the walker reads from a node. *)
scalar(n) == IF n.kind = "scalar" THEN n.val ELSE GARBAGE

(* node->data.sequence.items, whatever the node's type. *)
SeqItems(n) == IF n.kind = "scalar" THEN <<>> ELSE n.kids

(* The number of iterations of the loop over node->data.mapping.pairs. *)
NPairs(n) == IF n.kind = "scalar" THEN 0 ELSE (Len(n.kids) + 1) \div 2

PairKey(n, i) == n.kids[2 * i - 1]

(* The nodes the value of pair i may be. *)
PairVals(n, i) ==
  IF 2 * i <= Len(n.kids) THEN {n.kids[2 * i]}
  ELSE {NullNode} \cup (IF OverReadAny THEN Subnodes(doc) ELSE {})

(* The scalar texts of a value's sequence items, for the converters that  *)
(* take a scalar or a sequence of scalars.                                 *)
ItemTexts(v) == IF v.kind = "seq" THEN {scalar(v.kids[j]) : j \in DOMAIN v.kids} ELSE {}

Frame(fn, n, acc) == [fn |-> fn, node |-> n, phase |-> IF fn \in {"network", "config"} THEN "map" ELSE "seq",
                      i |-> 1, acc |-> acc]

Top == stack[Len(stack)]

(* Leave the current frame's loop position at i + 1. *)
Advance == [stack EXCEPT ![Len(stack)].i = @ + 1]

(* Call fn on node n from the top frame, which advances past the current  *)
(* pair or item.  Every callee starts with assert(node).                   *)
Call(fn, n, acc) ==
  CASE n = NullNode             -> /\ status' = "crash"  /\ UNCHANGED stack
    [] Len(stack) >= MaxDepth   -> /\ status' = "overflow" /\ UNCHANGED stack
    [] OTHER                    -> /\ stack' = Append(Advance, Frame(fn, n, acc))
                                   /\ UNCHANGED status

(* Fault variant: a caller that is parse_network_config goes on with its *)
(* next pair after an error instead of returning it.                      *)
ReturnNoUnwind(r) ==
  LET unwind == Len(stack) >= 2 /\ stack[Len(stack) - 1].fn = "network" /\ r < 0
  IN /\ stack' = SubSeq(stack, 1, Len(stack) - 1)
     /\ failed' = (failed \/ unwind)

(* The top frame returns r.  A caller that is parse_network_config returns *)
(* a negative r at once, and so do all its callers, which are              *)
(* parse_network_config too, up to parse_ethernet_config, which ignores    *)
(* it; parse_address, parse_route and parse_routing_policy_rule_config     *)
(* ignore the result of their recursive calls.                             *)
Return(r) ==
  LET unwind == Len(stack) >= 2 /\ stack[Len(stack) - 1].fn = "network" /\ r < 0
  IN /\ stack' = IF unwind THEN <<>> ELSE SubSeq(stack, 1, Len(stack) - 1)
     /\ failed' = (failed \/ unwind)

Write(rec, entry, v) ==
  [rec EXCEPT ![entry.field] = Convert(entry.conv, @, scalar(v), ItemTexts(v)),
              !.modified = TRUE]

-----------------------------------------------------------------------------
(* parse_ethernet_config *)

Init ==
  /\ doc \in Docs
  /\ eth = 1
  /\ net = NULL
  /\ stack = <<>>
  /\ pending = NULL
  /\ nets = <<>>
  /\ status = "walking"
  /\ failed = FALSE

(* One pair of the ethernets mapping: network_new, ifname from the key,   *)
(* then parse_network_config on the value.                                 *)
ParseEthernetStart ==
  /\ status = "walking" /\ net = NULL /\ stack = <<>>
  /\ eth <= NPairs(doc)
  /\ net' = [network_new EXCEPT !.parser_type = PARSER_TYPE_YAML, !.ifname = scalar(PairKey(doc, eth))]
  /\ stack' = <<Frame("network", doc.kids[2 * eth], NULL)>>
  /\ eth' = eth + 1
  /\ UNCHANGED <<doc, pending, nets, status>>
  /\ failed' = FALSE

(* network_new or strdup(scalar(n)) for the ifname fails: the walk       *)
(* returns the error (log_oom) and the cleanup frees the new record.      *)
ParseEthernetOom ==
  /\ status = "walking" /\ net = NULL /\ stack = <<>>
  /\ eth <= NPairs(doc) /\ AllocMayFail
  /\ status' = "enomem"
  /\ UNCHANGED <<failed, doc, eth, net, stack, pending, nets>>

(* network_unrefp, run by the walk's _cleanup_: the record is freed while *)
(* whatever still points at it keeps a dangling pointer.                   *)
network_unrefp(r) == [rec |-> r, live |-> FALSE]

(* Fault variant: the insert's result is not checked. *)
ParseEthernetInsertUnchecked ==
  /\ status = "walking" /\ net # NULL /\ stack = <<>>
  /\ nets' = [n \in DOMAIN nets \cup {net.ifname} |->
                IF n = net.ifname THEN [rec |-> net, live |-> TRUE] ELSE nets[n]]
  /\ net' = NULL
  /\ UNCHANGED <<failed, doc, eth, stack, pending, status>>

(* g_hash_table_insert(nets->networks, ifname, net).  An ifname already   *)
(* present makes the insert return FALSE: the table's value is replaced by *)
(* net, the walk returns log_oom() and the cleanup frees net, which the    *)
(* table still holds.                                                      *)
ParseEthernetInsert ==
  /\ status = "walking" /\ net # NULL /\ stack = <<>>
  /\ IF net.ifname \in DOMAIN nets
     THEN /\ nets' = [nets EXCEPT ![net.ifname] = network_unrefp(net)]
          /\ status' = "enomem"
     ELSE /\ nets' = [n \in DOMAIN nets \cup {net.ifname} |->
                        IF n = net.ifname THEN [rec |-> net, live |-> TRUE] ELSE nets[n]]
          /\ UNCHANGED status
  /\ net' = NULL
  /\ UNCHANGED <<failed, doc, eth, stack, pending>>

ParseEthernetDone ==
  /\ status = "walking" /\ net = NULL /\ stack = <<>>
  /\ eth > NPairs(doc)
  /\ status' = "done"
  /\ UNCHANGED <<failed, doc, eth, net, stack, pending, nets>>

-----------------------------------------------------------------------------
(* parse_network_config: one pair of the interface's mapping. *)

(* The loop of parse_network_config is at a pair: k and v are read. *)
NetworkPair ==
  /\ status = "walking" /\ stack # <<>>
  /\ Top.fn = "network" /\ Top.i <= NPairs(Top.node)

(* scalar(k) of the current pair. *)
PairKeyText == scalar(PairKey(Top.node, Top.i))


(* A key of parser_network_vtable: its converter writes the field. *)
NetworkTableKey ==
  /\ NetworkPair
  /\ UNCHANGED <<failed, doc, eth, nets>>
  /\ \E v \in PairVals(Top.node, Top.i) : LET k == PairKeyText IN
      /\ k \in DOMAIN parser_network_vtable
      /\ IF v = NullNode
         THEN status' = "crash" /\ UNCHANGED <<net, stack>>
         ELSE /\ net' = Write(net, parser_network_vtable[k], v)
              /\ stack' = Advance /\ UNCHANGED status
      /\ UNCHANGED pending

(* match, dhcp4-overrides, dhcp6-overrides, nameservers: parse_config. *)
NetworkConfigSection ==
  /\ NetworkPair
  /\ UNCHANGED <<failed, doc, eth, nets>>
  /\ \E v \in PairVals(Top.node, Top.i) : LET k == PairKeyText IN
      /\ k \notin DOMAIN parser_network_vtable /\ k \in DOMAIN ConfigTables
      /\ Call("config", v, k)
      /\ UNCHANGED <<net, pending>>


(* addresses: parse_address with a fresh IPAddress *a = NULL. *)
NetworkAddresses ==
  /\ NetworkPair
  /\ UNCHANGED <<failed, doc, eth, nets>>
  /\ \E v \in PairVals(Top.node, Top.i) : LET k == PairKeyText IN
      /\ k = "addresses"
      /\ Call("address", v, NULL)
      /\ pending' = NULL
      /\ UNCHANGED net

(* routes and routing-policy: parse_route, parse_routing_policy_rule_config. *)
NetworkRoutes ==
  /\ NetworkPair
  /\ UNCHANGED <<failed, doc, eth, nets>>
  /\ \E v \in PairVals(Top.node, Top.i) : LET k == PairKeyText IN
      /\ k \in {"routes", "routing-policy"}
      /\ Call(IF k = "routes" THEN "route" ELSE "rule", v, NULL)
      /\ UNCHANGED <<net, pending>>

(* Any other key: parse_network_config recurses into its value. *)
NetworkNested ==
  /\ NetworkPair
  /\ UNCHANGED <<failed, doc, eth, nets>>
  /\ \E v \in PairVals(Top.node, Top.i) : LET k == PairKeyText IN
      /\ k \notin DOMAIN parser_network_vtable \cup DOMAIN ConfigTables
                  \cup {"addresses", "routes", "routing-policy"}
      /\ Call("network", v, NULL)
      /\ UNCHANGED <<net, pending>>

NetworkReturn ==
  /\ status = "walking" /\ stack # <<>>
  /\ Top.fn = "network" /\ Top.i > NPairs(Top.node)
  /\ Return(0)
  /\ UNCHANGED <<doc, eth, net, pending, nets, status>>

-----------------------------------------------------------------------------
(* parse_config: the keys of one table; other keys are skipped. *)

ConfigKey ==
  /\ status = "walking" /\ stack # <<>>
  /\ Top.fn = "config" /\ Top.i <= NPairs(Top.node)
  /\ LET k == scalar(PairKey(Top.node, Top.i))
         table == ConfigTables[Top.acc]
     IN \E v \in PairVals(Top.node, Top.i) :
          IF k \notin DOMAIN table
          THEN stack' = Advance /\ UNCHANGED <<net, status>>
          ELSE IF v = NullNode
          THEN status' = "crash" /\ UNCHANGED <<net, stack>>
          ELSE /\ net' = Write(net, table[k], v)
               /\ stack' = Advance /\ UNCHANGED status
  /\ UNCHANGED <<failed, doc, eth, pending, nets>>

ConfigReturn ==
  /\ status = "walking" /\ stack # <<>>
  /\ Top.fn = "config" /\ Top.i > NPairs(Top.node)
  /\ Return(0)
  /\ UNCHANGED <<doc, eth, net, pending, nets, status>>

-----------------------------------------------------------------------------
(* parse_address, parse_route, parse_routing_policy_rule_config: first    *)
(* the loop over the node's items, each walked by a recursive call.        *)

CollectionItem ==
  /\ status = "walking" /\ stack # <<>>
  /\ Top.fn \in {"address", "route", "rule"} /\ Top.phase = "seq"
  /\ Top.i <= Len(SeqItems(Top.node))
  /\ Call(Top.fn, SeqItems(Top.node)[Top.i], NULL)
  /\ UNCHANGED <<failed, doc, eth, net, pending, nets>>

CollectionItemsDone ==
  /\ status = "walking" /\ stack # <<>>
  /\ Top.fn \in {"address", "route", "rule"} /\ Top.phase = "seq"
  /\ Top.i > Len(SeqItems(Top.node))
  /\ stack' = [stack EXCEPT ![Len(stack)].phase = "map", ![Len(stack)].i = 1]
  /\ UNCHANGED <<failed, doc, eth, net, pending, nets, status>>
-----------------------------------------------------------------------------
(* parse_address, then the loop over the node's pairs. *)

AddressPair ==
  /\ status = "walking" /\ stack # <<>>
  /\ Top.fn = "address" /\ Top.phase = "map" /\ Top.i <= NPairs(Top.node)

(* if (!a && !*addr) a = new0(IPAddress, 1); *)
CurrentA ==
  IF Top.acc = NULL /\ pending = NULL THEN [label |-> NULL, lifetime |-> NULL] ELSE Top.acc

(* lifetime and label: strdup(scalar(v)) into a->lifetime / a->label.  a  *)
(* is NULL when *addr was set by an earlier call of the same tree.         *)
AddressLabel ==
  /\ AddressPair
  /\ UNCHANGED <<doc, eth, nets>>
  /\ \E v \in PairVals(Top.node, Top.i) : LET k == PairKeyText  a == CurrentA IN
      /\ k \in {"lifetime", "label"}
      /\ IF a = NULL \/ v = NullNode
         THEN status' = "crash" /\ UNCHANGED stack
         ELSE /\ stack' = [Advance EXCEPT ![Len(stack)].acc = [a EXCEPT ![k] = scalar(v)]]
              /\ UNCHANGED status
      /\ UNCHANGED <<net, pending, failed>>

(* Fault variant: the key is added without checking parse_ip_from_string. *)
AddressLiteralUnchecked ==
  /\ AddressPair
  /\ UNCHANGED <<doc, eth, nets>>
  /\ \E v \in PairVals(Top.node, Top.i) : LET k == PairKeyText  a == CurrentA IN
      /\ k \notin {"lifetime", "label"}
      /\ net' = [net EXCEPT !.addresses = BagAdd(@, [ip |-> k, kind |-> "ipaddr",
                   label |-> IF pending = NULL THEN NULL ELSE pending.label,
                   lifetime |-> IF pending = NULL THEN NULL ELSE pending.lifetime]),
                            !.modified = TRUE]
      /\ pending' = NULL
      /\ stack' = [Advance EXCEPT ![Len(stack)].acc = a]
      /\ UNCHANGED <<status, failed>>

(* Any other key must parse as an address: it is added to the set with    *)
(* the label and lifetime of *addr, which is consumed, and then the value, *)
(* when it parses, is added by parse_address_from_string_and_add.          *)
AddressLiteral ==
  /\ AddressPair
  /\ UNCHANGED <<doc, eth, nets>>
  /\ \E v \in PairVals(Top.node, Top.i) : LET k == PairKeyText  a == CurrentA IN
      /\ k \in ValidIPs
      /\ LET labelled == [ip |-> k, kind |-> "ipaddr",
                          label |-> IF pending = NULL THEN NULL ELSE pending.label,
                          lifetime |-> IF pending = NULL THEN NULL ELSE pending.lifetime]
             withKey == BagAdd(net.addresses, labelled)
         IN net' = [net EXCEPT !.addresses = IF v = NullNode THEN withKey
                                             ELSE parse_address_from_string_and_add(scalar(v), withKey),
                               !.modified = TRUE]
      /\ pending' = NULL
      /\ stack' = [Advance EXCEPT ![Len(stack)].acc = a]
      /\ UNCHANGED <<status, failed>>

(* new0(IPAddress, 1) for a fresh a, or the strdup of a label or a       *)
(* lifetime into it, fails: parse_address returns log_oom().  The key is  *)
(* read first, so a label with *addr set dereferences NULL before (see    *)
(* AddressLabel).                                                          *)
AddressOom ==
  /\ AddressPair /\ AllocMayFail
  /\ \E v \in PairVals(Top.node, Top.i) :
       \/ Top.acc = NULL /\ pending = NULL
       \/ PairKeyText \in {"lifetime", "label"} /\ CurrentA # NULL /\ v # NullNode
  /\ Return(-ENOMEM)
  /\ UNCHANGED <<doc, eth, net, pending, nets, status>>

(* A key that is neither: parse_ip_from_string fails and parse_address    *)
(* returns its error.                                                      *)
AddressBadKey ==
  /\ AddressPair
  /\ UNCHANGED <<doc, eth, nets>>
  /\ \E v \in PairVals(Top.node, Top.i) : LET k == PairKeyText  a == CurrentA IN
      /\ k \notin {"lifetime", "label"} \cup ValidIPs
      /\ Return(-EINVAL)
      /\ UNCHANGED <<net, pending, status>>

(* if (a) *addr = a; *)
AddressReturn ==
  /\ status = "walking" /\ stack # <<>>
  /\ Top.fn = "address" /\ Top.phase = "map" /\ Top.i > NPairs(Top.node)
  /\ pending' = IF Top.acc # NULL THEN Top.acc ELSE pending
  /\ Return(0)
  /\ UNCHANGED <<doc, eth, net, nets, status>>

-----------------------------------------------------------------------------
(* parse_route and parse_routing_policy_rule_config: the pairs. *)

parser_route_keys == {"via", "to", "from", "table", "type", "scope", "metric", "on-link",
                      "congestion-window", "advertised-receive-window"}
parser_routing_policy_rule_keys == {"from", "to", "table", "priority", "type-of-service", "mark"}

CollectionKeys(fn) == IF fn = "route" THEN parser_route_keys ELSE parser_routing_policy_rule_keys

(* A key of the table: route_new / routing_policy_rule_new on the first,  *)
(* which may fail (log_oom), then the converter writes the record and     *)
(* network->modified is set.  The record is abstracted to the set of keys *)
(* written into it.                                                        *)
CollectionKeyOf(fn) ==
  /\ status = "walking" /\ stack # <<>>
  /\ Top.fn = fn /\ Top.phase = "map" /\ Top.i <= NPairs(Top.node)
  /\ LET k == scalar(PairKey(Top.node, Top.i)) IN
     \E v \in PairVals(Top.node, Top.i) :
       IF k \notin CollectionKeys(fn)
       THEN stack' = Advance /\ UNCHANGED <<net, status, failed>>
       ELSE \/ AllocMayFail /\ Top.acc = NULL
               /\ Return(-ENOMEM) /\ UNCHANGED <<net, status>>
            \/ v = NullNode /\ status' = "crash" /\ UNCHANGED <<net, stack, failed>>
            \/ /\ v # NullNode
               /\ stack' = [Advance EXCEPT ![Len(stack)].acc =
                              (IF Top.acc = NULL THEN {} ELSE Top.acc) \cup {k}]
               /\ net' = [net EXCEPT !.modified = TRUE]
               /\ UNCHANGED <<status, failed>>
  /\ UNCHANGED <<doc, eth, pending, nets>>

RouteKey == CollectionKeyOf("route")
RoutingPolicyRuleKey == CollectionKeyOf("rule")

(* g_hash_table_insert(network->routes, rt, rt): network_new never creates *)
(* routes (nor routing_policy_rules), so the insert into NULL fails and    *)
(* the call returns -EINVAL whenever a record was built.                   *)
CollectionReturnOf(fn) ==
  /\ status = "walking" /\ stack # <<>>
  /\ Top.fn = fn /\ Top.phase = "map" /\ Top.i > NPairs(Top.node)
  /\ Return(IF Top.acc # NULL THEN -EINVAL ELSE 0)
  /\ UNCHANGED <<doc, eth, net, pending, nets, status>>

RouteReturn == CollectionReturnOf("route")
RoutingPolicyRuleReturn == CollectionReturnOf("rule")

-----------------------------------------------------------------------------

(***************************************************************************)
(* Properties                                                              *)
(***************************************************************************)

Statuses == {"walking", "done", "crash", "enomem", "overflow"}
Texts == {GARBAGE} \cup {scalar(n) : n \in UNION {Subnodes(d) : d \in Docs}}
Descriptor == [label : Texts \cup {NULL}, lifetime : Texts \cup {NULL}]
IPAddressEntry == [ip : ValidIPs, kind : {"ipaddr", "str"},
                   label : Texts \cup {NULL}, lifetime : Texts \cup {NULL}]
IsNetwork(r) == DOMAIN r = NetworkFields /\ IsABag(r.addresses)
                /\ BagToSet(r.addresses) \subseteq IPAddressEntry
                /\ r.modified \in BOOLEAN

TypeOK ==
  /\ status \in Statuses
  /\ eth \in 1..NPairs(doc) + 1
  /\ net = NULL \/ IsNetwork(net)
  /\ pending \in {NULL} \cup Descriptor
  /\ Len(stack) <= MaxDepth
  /\ \A j \in DOMAIN stack :
       /\ stack[j].fn \in {"network", "config", "address", "route", "rule"}
       /\ stack[j].phase \in {"seq", "map"}
       /\ stack[j].i \in Nat \ {0}
  /\ \A n \in DOMAIN nets : IsNetwork(nets[n].rec) /\ nets[n].live \in BOOLEAN

(* The body of the interface being walked. *)
CurrentBody == doc.kids[2 * (eth - 1)]

(* The texts that follow a scalar key in some mapping (or sequence read as *)
(* a mapping) of node n.                                                   *)
ValueTexts(n, key) ==
  UNION {{scalar(m.kids[j + 1]) : j \in {j \in 1..Len(m.kids) - 1 : scalar(m.kids[j]) = key}} :
           m \in {x \in Subnodes(n) : x.kind = "map"}}

(* <<address, label>> such that the label is given in the same mapping as  *)
(* the address key, or in the mapping that is the address key's value.    *)
SameMapLabels(m) ==
  {scalar(m.kids[i + 1]) : i \in {i \in 1..Len(m.kids) - 1 : i % 2 = 1 /\ scalar(m.kids[i]) = "label"}}

OwnLabels(n) ==
  UNION {UNION {{<<scalar(m.kids[j]), l>> :
                   l \in SameMapLabels(m) \cup
                         (IF j < Len(m.kids) THEN ValueTexts(m.kids[j + 1], "label") ELSE {})} :
                  j \in {j \in 1..Len(m.kids) : j % 2 = 1}} :
           m \in {x \in Subnodes(n) : x.kind = "map"}}

(* The spec's walk (section 4.3) as the log of what it does, in document *)
(* order: a key of the network table writes its field, a section name of  *)
(* ConfigTables writes the keys of its table found in the section's       *)
(* mapping, any other key is walked into, and an addresses, routes or     *)
(* routing-policy section, which writes no scalar field, is logged as the *)
(* point where it starts.  Applied in order, later writes overwrite       *)
(* earlier ones.                                                           *)
PairVal(n, i) == IF 2 * i <= Len(n.kids) THEN n.kids[2 * i] ELSE NullNode

WriteOf(entry, v) == [kind |-> "write", entry |-> entry, v |-> v]
SectionStart == [kind |-> "section", entry |-> NULL, v |-> NullNode]

RECURSIVE ConfigWrites(_, _, _)
ConfigWrites(table, n, i) ==
  IF i > NPairs(n) THEN <<>>
  ELSE LET k == scalar(PairKey(n, i))
       IN (IF k \in DOMAIN table THEN <<WriteOf(table[k], PairVal(n, i))>> ELSE <<>>)
          \o ConfigWrites(table, n, i + 1)

RECURSIVE WalkWrites(_, _)
WalkWrites(n, i) ==
  IF i > NPairs(n) THEN <<>>
  ELSE LET k == scalar(PairKey(n, i))
           v == PairVal(n, i)
       IN (CASE k \in DOMAIN parser_network_vtable -> <<WriteOf(parser_network_vtable[k], v)>>
             [] k \in DOMAIN ConfigTables -> ConfigWrites(ConfigTables[k], v, 1)
             [] k \in {"addresses", "routes", "routing-policy"} -> <<SectionStart>>
             [] OTHER -> WalkWrites(v, 1))
          \o WalkWrites(n, i + 1)

ScalarFields == NetworkFields \ {"addresses", "modified"}

InterfaceComplete == net # NULL /\ stack = <<>> /\ status = "walking"

CurrentWalk == WalkWrites(CurrentBody, 1)

(* The current interface's record after the first m entries of its walk. *)
AfterWrites(m) ==
  FoldLeft(LAMBDA r, w : IF w.kind = "write" THEN Write(r, w.entry, w.v) ELSE r,
           [network_new EXCEPT !.parser_type = PARSER_TYPE_YAML, !.ifname = scalar(PairKey(doc, eth - 1))],
           SubSeq(CurrentWalk, 1, m))

(* The points where the walk may be cut: just before a section starts. *)
SectionCuts == {j - 1 : j \in {j \in DOMAIN CurrentWalk : CurrentWalk[j].kind = "section"}}

FieldsAre(r) == \A f \in ScalarFields : net[f] = r[f]

FieldsMatchWalk == FieldsAre(AfterWrites(Len(CurrentWalk)))

(* The scalar fields of a completed interface are those of the whole      *)
(* document-order walk when parse_network_config returned 0, and when it  *)
(* failed, those of the walk cut just before one of its addresses, routes *)
(* or routing-policy sections, at any depth: the table dispatch, the      *)
(* section tables and the recursion into other keys lose and reorder no   *)
(* write, and the error of a section (route insert into a NULL table, bad *)
(* address key, allocation failure) unwinds every parse_network_config    *)
(* frame at once, so no key after the failing section is applied.         *)
FieldsFollowDocumentOrder ==
  InterfaceComplete =>
    IF failed THEN \E m \in SectionCuts : FieldsAre(AfterWrites(m))
    ELSE FieldsMatchWalk

(* Best-effort population (spec 4.3, failure policy): whatever a section  *)
(* of the interface does, the keys after it are still applied, so every   *)
(* completed interface has the fields the document order gives.  The code *)
(* returns from parse_network_config on the first section that fails.     *)
BestEffortPopulation == InterfaceComplete => FieldsMatchWalk


(* Spec 4.3: a label attaches to an address key of the same mapping (or   *)
(* given in the address's own value mapping), never to another address.   *)
LabelOnItsOwnAddress ==
  net # NULL =>
    \A a \in BagToSet(net.addresses) : a.label # NULL => <<a.ip, a.label>> \in OwnLabels(CurrentBody)

(* Spec 8, address-set semantics: an address literal given twice for one *)
(* interface leaves one entry.  parse_address and                          *)
(* parse_address_from_string_and_add set_add a fresh allocation each time  *)
(* into the set network_new creates without hash or compare functions.     *)
AddressLiteralOnce ==
  net # NULL =>
    \A a, b \in BagToSet(net.addresses) : a.ip = b.ip => a = b /\ net.addresses[a] = 1


(* nets->networks never holds a Network that the walk has freed. *)
NoFreedNetworkInTable == \A n \in DOMAIN nets : nets[n].live

(* The walk never dereferences NULL, fails an assert(node) or overflows   *)
(* the C stack: it ends with the walk done, or out of memory.             *)
NoCrash == status \notin {"crash", "overflow"}

(* Spec 3: a record's match identity (its name) does not change once the  *)
(* record is created.                                                      *)
MatchIdentityImmutable ==
  [][net # NULL /\ net' # NULL => net'.ifname = net.ifname]_vars


(* The walk has ended: the program returns to its caller. *)
Terminated == status # "walking" /\ UNCHANGED vars

Next ==
  \/ ParseEthernetStart \/ ParseEthernetOom \/ ParseEthernetInsert \/ ParseEthernetDone
  \/ NetworkTableKey \/ NetworkConfigSection \/ NetworkAddresses \/ NetworkRoutes
  \/ NetworkNested \/ NetworkReturn
  \/ ConfigKey \/ ConfigReturn
  \/ CollectionItem \/ CollectionItemsDone
  \/ AddressLabel \/ AddressOom \/ AddressLiteral \/ AddressBadKey \/ AddressReturn
  \/ RouteKey \/ RouteReturn \/ RoutingPolicyRuleKey \/ RoutingPolicyRuleReturn
  \/ Terminated

(* The walk is one sequential C call: while it runs it keeps running. *)
Spec == Init /\ [][Next]_vars /\ WF_vars(Next /\ ~Terminated)
=============================================================================
