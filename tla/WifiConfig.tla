----------------------------- MODULE WifiConfig -----------------------------
(***************************************************************************)
(* The WiFi access points of a Network: parse_wifi_access_points_config   *)
(* (src/src/yaml/yaml-network-parser.c), which fills                       *)
(* network->access_points through the file-scope pointer                   *)
(* wifi_access_point, and generate_wifi_config with append_access_points   *)
(* and append_wpa_auth_conf (src/src/manager/network.c), which render the  *)
(* supplicant credentials.                                                 *)
(*                                                                         *)
(* No function of this tree calls parse_wifi_access_points_config, so its *)
(* caller is a driver that hands it, in some order, each WiFi mapping of  *)
(* a document together with the Network it belongs to (Calls).  A mapping *)
(* is a sequence of <<key, value>> scalar texts.  The heap of access       *)
(* points is the sequence aps: a pointer is an index into it, and an       *)
(* access point whose new0 of auth failed has auth NULL.                   *)
(***************************************************************************)
EXTENDS NetworkRecord
LOCAL INSTANCE SequencesExt

CONSTANTS
  Nets,          \* the Networks the WiFi mappings belong to
  Calls,         \* set of [net, node]: the calls the driver makes, each once
  AllocMayFail   \* may new0 return NULL

VARIABLES
  wifi_access_point,  \* the static WiFiAccessPoint *, NULL or an index into aps
  aps,                \* the access points allocated so far: [ssid, auth]
  access_points,      \* Network -> NULL, or its table ssid -> access point
  call,               \* the running call: [net, node, i], or NULL
  todo,               \* calls the driver has still to make
  done,               \* history: the calls started, in order
  status              \* "ok", or "crash" after a NULL dereference

vars == <<wifi_access_point, aps, access_points, call, todo, done, status>>

(* The WIFIAuthentication fields that hold a strdup'ed string. *)
AuthStringFields == {"identity", "anonymous_identity", "password", "ca_certificate",
                     "client_certificate", "client_key", "client_key_password"}

(* new0(WIFIAuthentication, 1): key_management and eap_method are 0, that *)
(* is AUTH_KEY_MANAGEMENT_NONE and AUTH_EAP_METHOD_NONE.                   *)
NewAuth == [f \in AuthStringFields \cup {"key_management", "eap_method"} |->
              IF f \in AuthStringFields THEN NULL ELSE 0]

auth_key_management_type == <<"password", "psk", "eap", "8021x">>
auth_eap_method_type == <<"none", "tls", "peap", "ttls">>

(* What an int stored over a char * leaves in it: the low 32 bits are the *)
(* int, so a NULL pointer and 0 give NULL and anything else is a pointer   *)
(* to no string.                                                           *)
BOGUS == "<int stored in a char *>"

(* parser_wifi_vtable: key -> [converter, field at the offset].  ssid-name *)
(* is handled before the lookup.                                           *)
parser_wifi_vtable ==
  [k \in {"password", "key-management", "psk", "method", "ca-certificate",
          "client-certificate", "client-key", "client-key-password", "identity",
          "anonymous-identity"} |->
     CASE k = "password" -> E("password", "string")
       [] k = "key-management" -> E("key_management", "key_management")
       [] k = "psk" -> E("password", "key_management")
       [] k = "method" -> E("eap_method", "eap_method")
       [] k = "ca-certificate" -> E("ca_certificate", "string")
       [] k = "client-certificate" -> E("client_certificate", "string")
       [] k = "client-key" -> E("client_key", "string")
       [] k = "client-key-password" -> E("client_key_password", "string")
       [] k = "identity" -> E("identity", "string")
       [] k = "anonymous-identity" -> E("anonymous_identity", "string")]

(* parse_yaml_string and parse_yaml_auth_* (yaml-parser.h; their bodies   *)
(* are not in this tree): the string is strdup'ed into the field; a name   *)
(* is looked up (string_equal_fold, and the model's texts are lower case)  *)
(* and its mode stored as an int at the field's offset, while an unknown  *)
(* name leaves the field alone.  The psk entry stores that int over the    *)
(* password pointer.                                                       *)
WifiConvert(p, old, s) ==
  LET names == IF p.conv = "eap_method" THEN auth_eap_method_type ELSE auth_key_management_type
      mode == NameToMode(names, s)
  IN CASE p.conv = "string"  -> s
       [] mode < 0           -> old
       [] p.field \notin AuthStringFields -> mode
       [] mode = 0 /\ old = NULL -> NULL
       [] OTHER              -> BOGUS

PairKey(c) == c.node[c.i][1]
PairVal(c) == c.node[c.i][2]

(* The driver calls parse_wifi_access_points_config on a mapping it has   *)
(* not handed over yet.                                                    *)
StartCall ==
  /\ status = "ok" /\ call = NULL
  /\ \E c \in todo :
       /\ call' = [net |-> c.net, node |-> c.node, i |-> 1]
       /\ todo' = todo \ {c}
       /\ done' = Append(done, c)
  /\ UNCHANGED <<wifi_access_point, aps, access_points, status>>

WifiPair == status = "ok" /\ call # NULL /\ call.i <= Len(call.node)

(* Fault variant: the access point is named and inserted before its auth  *)
(* is allocated, so a failed second new0 leaves it in the table.          *)
SsidNameOomAfterInsert ==
  /\ WifiPair /\ AllocMayFail
  /\ PairKey(call) = "ssid-name"
  /\ \/ wifi_access_point' = NULL /\ UNCHANGED <<aps, access_points>>
     \/ LET ap == Len(aps) + 1
            s == PairVal(call)
            table == IF access_points[call.net] = NULL THEN <<>> ELSE access_points[call.net]
        IN /\ aps' = Append(aps, [ssid |-> s, auth |-> NULL])
           /\ wifi_access_point' = ap
           /\ access_points' = [access_points EXCEPT ![call.net] =
                                  [x \in DOMAIN table \cup {s} |-> IF x = s THEN ap ELSE table[x]]]
  /\ call' = NULL
  /\ UNCHANGED <<todo, done, status>>

(* ssid-name: wifi_access_point = new0(WiFiAccessPoint, 1) is assigned    *)
(* before its auth is allocated; either new0 may fail and return log_oom. *)
SsidNameOom ==
  /\ WifiPair /\ AllocMayFail
  /\ PairKey(call) = "ssid-name"
  /\ \/ wifi_access_point' = NULL /\ UNCHANGED aps
     \/ /\ aps' = Append(aps, [ssid |-> NULL, auth |-> NULL])
        /\ wifi_access_point' = Len(aps')
  /\ call' = NULL
  /\ UNCHANGED <<access_points, todo, done, status>>

(* ssid-name: a fresh access point with the value as ssid, inserted into  *)
(* the table, which is created on first use.  g_hash_table_insert of an    *)
(* ssid already there replaces the value and returns FALSE, and the        *)
(* function returns false (0): the rest of the mapping is not read.        *)
SsidName ==
  /\ WifiPair
  /\ PairKey(call) = "ssid-name"
  /\ LET ap == Len(aps) + 1
         s == PairVal(call)
         table == IF access_points[call.net] = NULL THEN <<>> ELSE access_points[call.net]
     IN /\ aps' = Append(aps, [ssid |-> s, auth |-> NewAuth])
        /\ wifi_access_point' = ap
        /\ access_points' = [access_points EXCEPT ![call.net] =
                               [x \in DOMAIN table \cup {s} |-> IF x = s THEN ap ELSE table[x]]]
        /\ call' = IF s \in DOMAIN table THEN NULL ELSE [call EXCEPT !.i = @ + 1]
  /\ UNCHANGED <<todo, done, status>>

(* Fault variant: a key the table does not know is written all the same. *)
WifiKeyUnlooked ==
  /\ WifiPair
  /\ PairKey(call) # "ssid-name"
  /\ IF wifi_access_point = NULL \/ aps[wifi_access_point].auth = NULL
     THEN status' = "crash" /\ UNCHANGED <<aps, call>>
     ELSE LET p == IF PairKey(call) \in DOMAIN parser_wifi_vtable
                   THEN parser_wifi_vtable[PairKey(call)] ELSE E(PairKey(call), "string")
              auth == aps[wifi_access_point].auth
              old == IF p.field \in DOMAIN auth THEN auth[p.field] ELSE NULL
          IN /\ aps' = [aps EXCEPT ![wifi_access_point].auth =
                          [x \in DOMAIN auth \cup {p.field} |->
                             IF x = p.field THEN WifiConvert(p, old, PairVal(call)) ELSE auth[x]]]
             /\ call' = [call EXCEPT !.i = @ + 1]
             /\ UNCHANGED status
  /\ UNCHANGED <<wifi_access_point, access_points, todo, done>>

(* Any other key of m->wifi_config: the converter writes into              *)
(* wifi_access_point->auth, whatever access point the pointer last got:    *)
(* one of an earlier mapping, of another Network, or NULL.                 *)
WifiKey ==
  /\ WifiPair
  /\ PairKey(call) \in DOMAIN parser_wifi_vtable
  /\ IF wifi_access_point = NULL \/ aps[wifi_access_point].auth = NULL
     THEN status' = "crash" /\ UNCHANGED <<aps, call>>
     ELSE LET p == parser_wifi_vtable[PairKey(call)]
          IN /\ aps' = [aps EXCEPT ![wifi_access_point].auth[p.field] =
                                     WifiConvert(p, @, PairVal(call))]
             /\ call' = [call EXCEPT !.i = @ + 1]
             /\ UNCHANGED status
  /\ UNCHANGED <<wifi_access_point, access_points, todo, done>>

(* A key of no table: if (!p) continue. *)
WifiKeySkip ==
  /\ WifiPair
  /\ PairKey(call) \notin DOMAIN parser_wifi_vtable \cup {"ssid-name"}
  /\ call' = [call EXCEPT !.i = @ + 1]
  /\ UNCHANGED <<wifi_access_point, aps, access_points, todo, done, status>>

WifiReturn ==
  /\ status = "ok" /\ call # NULL /\ call.i > Len(call.node)
  /\ call' = NULL
  /\ UNCHANGED <<wifi_access_point, aps, access_points, todo, done, status>>

Init ==
  /\ wifi_access_point = NULL
  /\ aps = <<>>
  /\ access_points = [n \in Nets |-> NULL]
  /\ call = NULL
  /\ todo = Calls
  /\ done = <<>>
  /\ status = "ok"

Terminated == status = "crash" \/ (call = NULL /\ todo = {})

Next ==
  \/ StartCall \/ SsidNameOom \/ SsidName \/ WifiKey \/ WifiKeySkip \/ WifiReturn
  \/ Terminated /\ UNCHANGED vars

Spec == Init /\ [][Next]_vars

-----------------------------------------------------------------------------
(***************************************************************************)
(* generate_wifi_config: the preamble, then one network block per entry   *)
(* of n->access_points in g_hash_table_foreach order (some fixed order).   *)
(* A line is [key, val]; comments and layout are left out.                 *)
(***************************************************************************)
WLine(k, v) == [key |-> k, val |-> v]

(* append_wpa_auth_conf: the key_mgmt and eap lines of the two switches,  *)
(* then the strings that are set, in this order; the password goes under  *)
(* psk only for AUTH_KEY_MANAGEMENT_WPA_PSK.                               *)
KeyMgmtNames == <<"WPA-PSK", "WPA-EAP", "IEEE8021X">>
EapNames == <<"TLS", "PEAP", "TTLS">>
AuthLineKeys(auth) ==
  <<<<"identity", "identity">>, <<"anonymous_identity", "anonymous_identity">>,
    <<"password", IF auth.key_management = AUTH_KEY_MANAGEMENT_WPA_PSK THEN "psk" ELSE "password">>,
    <<"ca_certificate", "ca_cert">>, <<"client_certificate", "client_cert">>,
    <<"client_key", "private_key">>, <<"client_key_password", "private_key_passwd">>>>

(* Fault variant: psk is chosen for any key management but none. *)
append_wpa_auth_conf_psk_unless_none(auth) ==
  LET keys == [j \in 1..7 |-> IF j = 3 /\ auth.key_management # AUTH_KEY_MANAGEMENT_NONE
                              THEN <<"password", "psk">> ELSE AuthLineKeys(auth)[j]]
  IN (IF auth.key_management \in AUTH_KEY_MANAGEMENT_WPA_PSK..AUTH_KEY_MANAGEMENT_8021X
      THEN <<WLine("key_mgmt", KeyMgmtNames[auth.key_management])>> ELSE <<>>)
     \o (IF auth.eap_method \in AUTH_EAP_METHOD_TLS..AUTH_EAP_METHOD_TTLS THEN <<WLine("eap", EapNames[auth.eap_method])>> ELSE <<>>)
     \o SelectSeq([j \in 1..7 |-> WLine(keys[j][2], auth[keys[j][1]])],
                  LAMBDA l : l.val # NULL)

append_wpa_auth_conf(auth) ==
  (IF auth.key_management \in AUTH_KEY_MANAGEMENT_WPA_PSK..AUTH_KEY_MANAGEMENT_8021X
   THEN <<WLine("key_mgmt", KeyMgmtNames[auth.key_management])>> ELSE <<>>)
  \o (IF auth.eap_method \in AUTH_EAP_METHOD_TLS..AUTH_EAP_METHOD_TTLS THEN <<WLine("eap", EapNames[auth.eap_method])>> ELSE <<>>)
  \o SelectSeq([j \in 1..7 |-> WLine(AuthLineKeys(auth)[j][2], auth[AuthLineKeys(auth)[j][1]])],
               LAMBDA l : l.val # NULL)

append_access_points(ap) ==
  <<WLine("network", ""), WLine("ssid", ap.ssid)>> \o append_wpa_auth_conf(ap.auth)
  \o <<WLine("}", "")>>

(* g_hash_table_foreach on a NULL table only logs a critical warning.     *)
generate_wifi_config(table) ==
  <<WLine("ctrl_interface", "DIR=/run/wpa_supplicant GROUP=wheel"), WLine("update_config", "1")>>
  \o (IF table = NULL THEN <<>>
      ELSE LET ssids == SetToSeq(DOMAIN table)
           IN FlattenSeq([j \in DOMAIN ssids |-> append_access_points(aps[table[ssids[j]]])]))

-----------------------------------------------------------------------------
(***************************************************************************)
(* Properties                                                              *)
(***************************************************************************)

DocTexts == UNION {{c.node[j][2] : j \in DOMAIN c.node} : c \in Calls}
TypeOK ==
  /\ status \in {"ok", "crash"}
  /\ wifi_access_point \in {NULL} \cup DOMAIN aps
  /\ \A ap \in DOMAIN aps :
       /\ aps[ap].ssid \in DocTexts \cup {NULL}
       /\ aps[ap].auth = NULL
          \/ /\ DOMAIN aps[ap].auth = AuthStringFields \cup {"key_management", "eap_method"}
             /\ \A f \in AuthStringFields : aps[ap].auth[f] \in DocTexts \cup {NULL, BOGUS}
             /\ \A f \in {"key_management", "eap_method"} : aps[ap].auth[f] \in 0..3
  /\ \A n \in Nets : access_points[n] = NULL
                      \/ \A x \in DOMAIN access_points[n] : access_points[n][x] \in DOMAIN aps
  /\ call = NULL \/ call.i \in 1..Len(call.node) + 1

(* The reference of spec 4.3: an access point's fields are the keys that   *)
(* follow its ssid-name in the same mapping, up to the next ssid-name,     *)
(* last write winning; a name that is not in the table leaves the field    *)
(* unset, and keys the spec does not define are ignored.                    *)
SpecStringKeys == [k \in {"password", "ca-certificate", "client-certificate", "client-key",
                          "client-key-password", "identity", "anonymous-identity"} |->
                     parser_wifi_vtable[k].field]
SpecApply(a, k, v) ==
  CASE k \in DOMAIN SpecStringKeys -> [a EXCEPT ![SpecStringKeys[k]] = v]
    [] k = "key-management" /\ NameToMode(auth_key_management_type, v) >= 0 ->
         [a EXCEPT !.key_management = NameToMode(auth_key_management_type, v)]
    [] k = "method" /\ NameToMode(auth_eap_method_type, v) >= 0 ->
         [a EXCEPT !.eap_method = NameToMode(auth_eap_method_type, v)]
    [] OTHER -> a

RECURSIVE SegmentAuth(_, _, _)
SegmentAuth(node, i, a) ==
  IF i > Len(node) \/ node[i][1] = "ssid-name" THEN a
  ELSE SegmentAuth(node, i + 1, SpecApply(a, node[i][1], node[i][2]))

(* The first mapping handed over for Network n that names ssid s, and the *)
(* position of that ssid-name in it.                                       *)
Defines(n, s, k) == done[k].net = n /\ \E j \in DOMAIN done[k].node : done[k].node[j] = <<"ssid-name", s>>
FirstDefinition(n, s) ==
  LET k == CHOOSE k \in DOMAIN done : Defines(n, s, k) /\ \A k2 \in 1..k - 1 : ~Defines(n, s, k2)
      node == done[k].node
  IN [node |-> node,
      at |-> CHOOSE j \in DOMAIN node : node[j] = <<"ssid-name", s>>
                                     /\ \A j2 \in 1..j - 1 : node[j2] # <<"ssid-name", s>>]

(* Spec 4.5: the block of an access point: the SSID, the key-management   *)
(* and EAP method unless none, then identity, anonymous identity, the      *)
(* password (under psk for pre-shared-key), CA certificate, client         *)
(* certificate, client key and its password, each only when set.           *)
SpecBlock(s, a) ==
  <<WLine("network", ""), WLine("ssid", s)>>
  \o SelectSeq(<<WLine("key_mgmt", IF a.key_management = AUTH_KEY_MANAGEMENT_NONE THEN NULL ELSE KeyMgmtNames[a.key_management]),
                 WLine("eap", IF a.eap_method = AUTH_EAP_METHOD_NONE THEN NULL ELSE EapNames[a.eap_method]),
                 WLine("identity", a.identity),
                 WLine("anonymous_identity", a.anonymous_identity),
                 WLine(IF a.key_management = AUTH_KEY_MANAGEMENT_WPA_PSK THEN "psk" ELSE "password", a.password),
                 WLine("ca_cert", a.ca_certificate), WLine("client_cert", a.client_certificate),
                 WLine("private_key", a.client_key),
                 WLine("private_key_passwd", a.client_key_password)>>,
               LAMBDA l : l.val # NULL)
  \o <<WLine("}", "")>>

(* Spec 4.3 and 4.5, scenario E: between calls, generate_wifi_config      *)
(* renders for each access point of a Network's table the block the       *)
(* reference gives for the keys of its own ssid-name segment.  The     *)
(* code routes every key through the static wifi_access_point, which       *)
(* still names the access point of an earlier call when a mapping does not *)
(* start with ssid-name.                                                   *)
RenderedMatchesMapping ==
  status = "ok" /\ call = NULL =>
    \A n \in Nets : access_points[n] # NULL =>
      LET ssids == SetToSeq(DOMAIN access_points[n])
          Ref(s) == LET d == FirstDefinition(n, s)
                    IN SpecBlock(s, SegmentAuth(d.node, d.at + 1, NewAuth))
      IN generate_wifi_config(access_points[n])
           = generate_wifi_config(NULL) \o FlattenSeq([j \in DOMAIN ssids |-> Ref(ssids[j])])

(* parse_wifi_access_points_config allocates the auth record before it   *)
(* names the access point and inserts it, so whatever allocation fails,   *)
(* every access point a Network's table holds has its auth record and    *)
(* its SSID is the key it is stored under: append_wpa_auth_conf, and      *)
(* wifi_access_point_unref, dereference ap->auth unchecked.                *)
TableAccessPointsComplete ==
  \A n \in Nets : access_points[n] # NULL =>
    \A s \in DOMAIN access_points[n] :
      aps[access_points[n][s]].auth # NULL /\ aps[access_points[n][s]].ssid = s

(* Spec 8, WiFi semantics: once an SSID is in a Network's table, a second *)
(* access point with that SSID is rejected and the first one stays.  The  *)
(* code's g_hash_table_insert replaces the value.                          *)
FirstAccessPointRetained ==
  [][\A n \in Nets : access_points[n] # NULL =>
       \A s \in DOMAIN access_points[n] : access_points'[n][s] = access_points[n][s]]_vars

(* Spec 3, field locators are type-checked: every string field of an       *)
(* authentication record holds NULL or a text of the document.  The psk    *)
(* entry of parser_wifi_vtable stores a key-management int at the offset   *)
(* of the password pointer.                                                *)
CredentialsAreDocumentTexts ==
  \A ap \in DOMAIN aps : aps[ap].auth # NULL =>
    \A f \in AuthStringFields : aps[ap].auth[f] \in DocTexts \cup {NULL}
=============================================================================
