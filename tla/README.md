# TLA+ models of network-config-manager's YAML path

This directory models how the C sources under `src/` turn a netplan-style YAML document into systemd-networkd configuration text, and the command-line driver that runs it. It has two parts:

- The TLA+ modules model the command-line driver, the tree walker that fills `struct Network` records, and the serializer that renders them.
- TLC runs check the walker and the serializer against each other, and every module against `spec.md`.

## The system and its parts

| Part | Source | Module |
|---|---|---|
| Network record, parser tables, name tables, converters | `network.h` (struct Network), `network.c` (`network_new`, `*_to_name`, `*_to_mode`, `parse_address_from_string_and_add`), `yaml-network-parser.c` (the `parser_*_vtable` tables), `parse-util.c` (`parse_boolean`, `parse_uint32`) | `NetworkRecord` |
| YAML tree walker | `yaml-network-parser.c`: `parse_ethernet_config`, `parse_network_config`, `parse_config`, `parse_address`, `parse_route`, `parse_routing_policy_rule_config` | `YamlWalker` |
| What the ethernets walk promises, and the walker shown to implement it | spec sections 2 and 4.3; `parse_ethernet_config` | `EthernetsWalk`, `WalkRefinement` |
| Interface configuration serializer | `network.c`: `generate_network_config`, `append_addresses` | `NetworkConfigGen` |
| Walk, then render every record | the data flow of spec section 2; the driver is not in this tree | `Pipeline` |
| WiFi access point parser and credentials serializer | `yaml-network-parser.c`: `parse_wifi_access_points_config`, `parser_wifi_vtable`; `network.c`: `generate_wifi_config`, `append_access_points`, `append_wpa_auth_conf` | `WifiConfig` |
| Command-line driver | `network-config-manager.c`: `main`, `cli_run`, `parse_argv`, `help`, the command table, `generate_networkd_config_from_yaml`, `generate_networkd_config_from_command_line` | `Cli` |
| Primitive parsers | `parse-util.c`: `parse_integer`, `parse_uint32`, `parse_uint16`, `is_uint32_or_max`, `parse_link_queue`, `parse_boolean`, with glibc's `strtol` | `ParseUtil` |
| Document constructors and instances for TLC | none | `YamlDocs`, `MC_*` |

Parts that are not modelled are listed at the end.

### How they interact

`parse_ethernet_config` handles each `ethernets` pair in order:

1. It creates a `Network` with `network_new` and sets `ifname` from the pair's key.
2. It runs `parse_network_config` on the pair's value.
3. It inserts the record into `nets->networks`.

`parse_network_config` loops over the pairs of its node, and picks one branch per key:

- A key of the network table is converted into its field.
- `match`, `dhcp4-overrides`, `dhcp6-overrides` and `nameservers` call `parse_config` with the section's table.
- `addresses` calls `parse_address`, with a fresh descriptor pointer `a = NULL`.
- `routes` and `routing-policy` call their record builders.
- Any other key makes it recurse into its value.

`parse_address` and the route builders first recurse into every sequence item of their node, then loop over its pairs. `parse_address` also passes a partial descriptor through `*addr` from one call to the next.

Every loop reads both `data.sequence.items` and `data.mapping.pairs` of the same libyaml node. The two union members have the same layout:

- A mapping read as a sequence yields its keys and values as items.
- A sequence read as a mapping yields its items two by two. An odd last item is paired with the word past the stack top.

The model reproduces both.

`main` hands the command line to `cli_run`. `cli_run` parses the options, probes the daemon, builds the command table and dispatches the first word. `apply-yaml-config` and `generate-config-from-yaml` hand one YAML file after the other to the manager. The manager walks the file with `parse_ethernet_config` and renders it. It is not in this tree.

`generate_network_config` renders one record as these sections: Match, Link, Network, DHCP, one Address section per address, then Route.

## How the modules correspond to the code

**NetworkRecord** holds the data that the walker writes:

- `network_new` is the record of defaults that the designated initializer of `network_new` sets.
- The vtables map each key to a field and a converter.
- `Convert` gives the effect of each `parse_yaml_*` converter on the field. Those functions are not in this tree, so this part is modelled from the spec.
- `parse_uint32` keeps the C behaviour: any long in [INT_MIN, INT_MAX] is accepted, and a `uint32_t` is represented by the int with the same bits.
- The scalar texts are tokens from a small set.
- A non-scalar node read as a string is `GARBAGE`, which no converter accepts.
- The enum values that the walker and the generators test by name (`PARSER_TYPE_YAML`, `AUTH_KEY_MANAGEMENT_*`, `AUTH_EAP_METHOD_*`) are constants with the values of network.h, so those tests read as in the code.

**YamlWalker** turns the recursion into a call stack. A frame is `[fn, node, phase, i, acc]`, and each action is one loop iteration, one call or one return:

| Action | Code |
|---|---|
| `ParseEthernetStart`, `ParseEthernetOom`, `ParseEthernetInsert`, `ParseEthernetDone` | The loop of `parse_ethernet_config`. `network_new` or the `strdup` of the ifname may fail, and the walk then returns the error. A failed insert returns `log_oom()` and frees the record that the table still holds (`network_unrefp`). |
| `NetworkTableKey`, `NetworkConfigSection`, `NetworkAddresses`, `NetworkRoutes`, `NetworkNested`, `NetworkReturn` | The branches of `parse_network_config`. |
| `ConfigKey`, `ConfigReturn` | `parse_config`. |
| `CollectionItem`, `CollectionItemsDone` | The item loops of `parse_address`, `parse_route` and `parse_routing_policy_rule_config`. |
| `AddressLabel`, `AddressOom`, `AddressLiteral`, `AddressBadKey`, `AddressReturn` | The pair loop of `parse_address`. The variable `pending` is `*addr`. The frame's `acc` is the local `a`. `AddressOom` is a failed `new0` of `a` or `strdup` of a label or lifetime. |
| `RouteKey`, `RouteReturn`, `RoutingPolicyRuleKey`, `RoutingPolicyRuleReturn` | The pair loops of `parse_route` and `parse_routing_policy_rule_config`. The two functions have the same body, written once as `CollectionKeyOf(fn)` and `CollectionReturnOf(fn)`. The record is abstracted to the set of keys written. Its allocation may fail. The insert into the never-created table fails. |

`Return(r)` applies the code's rules for errors:

- A negative result returned into a `parse_network_config` frame returns from every frame up to `parse_ethernet_config`, which ignores it.
- Item recursion ignores child results.

`AllocMayFail` says whether an allocation may fail. A failure returns `-ENOMEM` like any other error. `parse_ethernet_config` discards what `parse_network_config` returns, so a failure inside a section does not stop the walk.

Crashes are recorded in `status` as "crash", "enomem" or "overflow", and the walk stops there. A crash is a `NULL` value node handed to a callee that asserts it, or a `NULL` descriptor that is written through. `failed` is a history variable: whether the current interface's walk returned an error.

**NetworkConfigGen** is a pure operator from a record to a sequence of lines:

- A line is `[sec, key, val]`, and a header has an empty key. Blank lines are layout.
- One operator models each block of `generate_network_config`: `match_section`, `link_section`, `network_section`, `dhcp_section`, `address_sections` and `route_section`.
- `append_addresses` prints the set's key with `%s`. For an address that `parse_address` added, the key is an `IPAddress *`, so the model prints `IPADDRESS_BYTES` and not address text.

**Pipeline** renders every record of `nets->networks` once the walk has ended normally. This is the spec's data flow; the driver (`manager_generate_network_config_from_yaml`) is not in this tree.

**The address set.** `network_new` creates `addresses` with `set_new(.., NULL, NULL)`, a hash table keyed by pointer. `parse_address` and `parse_address_from_string_and_add` add a fresh allocation each time, so the model keeps the set as a bag of descriptors (`BagAdd`): one entry per insert, with the count as multiplicity. `set_contains` at network.c:290 compares the YAML node's string pointer, which is never a stored key, so it never prevents an insert. `address_sections` renders one Address section per copy.

**EthernetsWalk** is the abstract specification of the walk of an `ethernets` mapping, with the document reduced to its interface names. `Record` adds the next interface under a name new to the table. `Finish` ends the walk once every interface is handled. `Abort` stops it on a fatal error. **WalkRefinement** maps the walker's state onto it:

- `input` is the document's pair keys.
- `handled` counts the pairs whose insert has been tried (`eth`, and whether `net` is still held).
- `records` is the key set of `nets->networks`.
- `outcome` is the walker's status, with every crash kind taken as "aborted".

Every step inside `parse_network_config` and its callees is a stutter of the abstract spec.

**WifiConfig** models `parse_wifi_access_points_config` step by step, and the credentials serializer as pure operators:

| Action | Code |
|---|---|
| `StartCall` | The function has no caller in this tree. A driver hands it each mapping of `Calls` once, in any order, with the Network it belongs to. |
| `SsidName` | `ssid-name`: a new access point becomes the static `wifi_access_point` and goes into `network->access_points`, which is created on first use. A duplicate SSID replaces the stored value, `g_hash_table_insert` returns FALSE, and the function returns 0 without reading the rest of the mapping. |
| `SsidNameOom` | Either `new0` fails. Both failures return `log_oom()`: the global is then NULL, or it names an access point whose `auth` is NULL. |
| `WifiKey` | Any other key of the WiFi table: the converter writes into `wifi_access_point->auth`, whichever access point that is. A NULL global or a NULL `auth` is a crash. |
| `WifiKeySkip`, `WifiReturn` | `if (!p) continue;` and the end of the pair loop. |

The heap of access points is the sequence `aps`: a pointer is an index into it. The vtable entry of `psk` pairs the key-management converter with the password field's offset, so the stored value is an int in a `char *` slot (`BOGUS`). `generate_wifi_config` renders the preamble, then one block per access point, with the lines of `append_wpa_auth_conf`.

**Cli** models `main` and `cli_run` as one sequential run, with `pc` as the program counter:

| Action | Code |
|---|---|
| `ParseArgv` | `parse_argv` with `getopt_long`, then the daemon probe. `getopt_long` permutes the options to the front, so the first option anywhere on the line decides. `-h` and `-v` return 0, and an unknown option returns -EINVAL. |
| `CliManagerNew` | `cli_manager_new`, which may fail to allocate. |
| `cli_run_command` | The dispatcher, which is in `cli.c`, outside this tree. It is modelled from the table: an unknown word, or fewer words than the row's minimum, gives -EINVAL. The daemon commands are one row that may succeed or fail. |
| `GenerateFromYamlStart`, `YamlFile`, `YamlDone` | `generate_networkd_config_from_yaml`. `apply-yaml-config` lists the directory in any readdir order, and fails with -ENOENT when the directory is absent. `generate-config-from-yaml` takes its file arguments. The loop returns at the first file the manager fails on. `g_build_path` may fail for a directory entry. |
| `GenerateFromCommandLine` | `generate_networkd_config_from_command_line`: `/proc/cmdline` when there are no words, else the words joined by `strv_join`, which may fail. |

A YAML file is abstracted to the outcome of its walk, "done" or "aborted" (`walk`). The manager's result for the file is negative when the walk aborted (spec 7). The manager is not in this tree, so this part is spec-modelled.

**ParseUtil** models glibc's `strtol(c, &p, 0)` as recursive operators over a text given as a tuple of characters: white space, a sign, `0x` for base 16, a leading `0` for base 8, and the index `p` stops at. Every parser of `parse-util.c` is an operator over that result. A `uint32_t` or `uint16_t` result is represented by the int with the same bits.

## Runs and what they show

PROJECT.json lists twelve runs.

Passing runs:

- `pipeline` (MC_Pipeline.cfg) checks about 1100 documents. They are `ethernets` with one or two interfaces. The first interface has 0–2 pairs drawn from 12 shapes that cover every branch. The second interface is named like eth0's match name or apart from it. The run also includes documents with DHCP, MTU, LLDP and address keys that exercise every kind of rendered line, and a routing-policy rule. It checks:
  - `TypeOK`.
  - `FieldsFollowDocumentOrder`: the scalar fields of every completed interface follow the spec's walk of section 4.3. `WalkWrites` is that walk as a document-order log: the writes that table keys, section tables and nested keys make, and a marker where each addresses, routes or routing-policy section starts. It is applied with `FoldLeft`, so the last write wins. When `parse_network_config` returned 0, the fields are those of the whole log. When it failed, they are those of the log cut just before one of its sections, at any depth. So an error (a route insert into the NULL table, a bad address key, an allocation failure) unwinds every `parse_network_config` frame at once. No write before it is lost or reordered, and no key after it is applied.
  - `SectionsInSpecOrder`: the section order of spec 4.5, with one Address section per address.
  - `WalkRefinesEthernetsWalk`: the walker implements `EthernetsWalk`, its liveness included.
- `wifi` (MC_WifiConfig.cfg) hands over three WiFi mappings that each start with `ssid-name`, in every order, with allocation failures allowed. It checks:
  - `TableAccessPointsComplete`: every access point in a Network's table has its auth record, and its SSID is the key it is stored under. The auth record is allocated before the access point is inserted, so no `new0` failure leaves a half-built access point in a table. `append_wpa_auth_conf` and `wifi_access_point_unref` dereference `ap->auth` without a check.
  - `TypeOK`.
  - `RenderedMatchesMapping`: each Network's credentials text is the preamble followed by the spec's rendering of every access point. That rendering is built from the access point's own segment of its mapping. It covers scenario E: psk with a password, a password without key-management, an EAP method and identity, `key-management: none` overridden, and an unknown key.
- `cli` (MC_Cli.cfg) runs 15 command lines against 4 directory contents and every outcome of 3 files' walks, with allocation failures allowed. It checks:
  - `ExitStatusReflectsEveryFile`: the files handed to the manager are a prefix of the handler's order, and only the last of them may have failed. The command ends with 0 exactly when every file was generated successfully, whatever order readdir gave.
- `parsers` (MC_ParseUtil.cfg) checks 830 number texts and 32 words. The number texts are every text of up to 3 characters over `0 1 7 9 x X f - space`, plus the 16- and 32-bit boundaries. The words are the boolean tokens in several cases, plus near misses. It checks:
  - `ParseBooleanMatchesSpec`: the spec's case-insensitive token test.
  - `ParseUint16AgreesWithSpecOutsideBase0`: `parse_uint16` and spec 4.1 agree on every text except those that `strtol`'s base 0 reads by another grammar. Those are leading white space, a sign, and a decimal with a leading 0. On those texts the code disagrees with the spec: `010` gives 8, `08` is rejected, ` 1` gives 1, and `-1` is accepted and stored as 65535. The run shows the disagreement is exactly this set and no larger. The property does not claim that the spec holds there.

Violation runs. Each checks one property that the spec states, and TLC finds a counterexample:

| Run | Property | What the counterexample shows |
|---|---|---|
| `best_effort` | `BestEffortPopulation` | A `routes` section fails, because `network->routes` is never created, and it aborts the rest of the interface. A bad address key does the same. |
| `duplicate_ifname` | `NoFreedNetworkInTable` | Two interfaces with one name leave a freed `Network` in the table. |
| `odd_sequence_crash` | `NoCrash` | `link: [x]`: the one-item list is read as a mapping. Its missing value node is the word past the items stack. When that word is NULL, `assert(node)` fails. When it names the enclosing mapping, the walk recurses without end. The run uses `OverReadAny` = TRUE, so both outcomes are possible. |
| `label_misattached` | `LabelOnItsOwnAddress` | In `addresses: [A1, {label: l1, A2: x}]`, A2 is stored without a label: the label goes into the mapping call's local `a`, and only reaches `*addr` when that call returns (lines 303-305). The outer `parse_address` frame then reads the sequence as a mapping and pairs A1 with the mapping, so the plain A1, which comes before the label, takes `l1`. |
| `address_literal_twice` | `AddressLiteralOnce` | An address given twice is stored twice in the pointer-keyed set, so it renders as two Address sections. |
| `dhcp_overrides_dropped` | `DhcpOverridesRendered` | Scenario C renders no DHCP section: the overrides write `dhcp4_use_*`, and the generator reads `use_*`. |
| `wifi_duplicate_ssid` | `FirstAccessPointRetained` | A second mapping with the same SSID replaces the first access point. The spec says the first is kept. |
| `wifi_stale_access_point` | `RenderedMatchesMapping` | A mapping of eth1 whose first key is `password` writes into the access point of eth0's mapping, through the static `wifi_access_point`. |

The two WiFi violations, and the hazards at yaml-network-parser.c:141, :153 and :165, are real defects in `parse_wifi_access_points_config`. That function is `static`, and nothing in src/ calls it. So none of them can be triggered by the program as built. They will become reachable once a caller routes a `wifi` key to it.

Some properties are stated in the modules but are in no run, because each would only repeat a counterexample already covered:

- `MatchIdentityImmutable`: `match: name:` rewrites `ifname`.
- `MtuRenderedPositive`: `mtu: -1` renders `MTUBytes=-1`.
- `CredentialsAreDocumentTexts`: the psk entry stores an int in a string field.
- `AddressesRoundTrip`: an address added by `parse_address` renders as struct bytes, not as address text. The counterexample is the same document as `address_literal_twice`.

The hazards in PROJECT.json name them in their notes.

Every property of a passing run has a mutant in PROJECT.json: a plausible bug in the mapped code that TLC finds. For example:

- A `parse_network_config` caller that goes on after an error breaks `FieldsFollowDocumentOrder`. A prefix-only form of the property would miss this.
- Emitting the Address sections before DHCP breaks `SectionsInSpecOrder`.
- An insert without the duplicate check breaks `WalkRefinesEthernetsWalk`.
- Writing an unknown WiFi key breaks `TypeOK`.
- psk rendered unless key-management is none breaks `RenderedMatchesMapping`.
- A YAML loop that logs a failing file and goes on breaks `ExitStatusReflectsEveryFile`.
- Naming and inserting an access point before its auth is allocated breaks `TableAccessPointsComplete`.
- A case-sensitive word compare and a limit of `>= 0xffff` break the two parser properties.

## Bounds

- **Documents.** Interfaces have two pairs at most, and there are two interfaces at most. That is enough for every interaction the properties are about:
  - a section followed by a key it can abort;
  - a label followed by a later address;
  - a first interface that leaves `*addr` set before a second one;
  - a rename that collides with the next interface;
  - an address literal given twice.
- **Addresses.** Two addresses are enough to tell "its own" from "another" address.
- **`MaxDepth` = 8.** This bounds the C stack. No model document nests deeper than 5 frames, so `overflow` is never reached. It stands for a cyclic alias document, which the model cannot represent.
- **`OverReadAny`.** This is the word read past a sequence's top. With FALSE it is taken as NULL; with TRUE it may be any node of the document. The `pipeline` run uses FALSE, because the reference walk `WalkWrites` reads a missing value as absent, and any node there would make `FieldsFollowDocumentOrder` fail only through the crash `NoCrash` already shows. The `odd_sequence_crash` run uses TRUE.
- **`AllocMayFail`.** The `pipeline` run lets every allocation of the walker fail: `network_new`, `strdup`, `new0`, `route_new` and `routing_policy_rule_new`. The violation runs keep it FALSE, so that their counterexamples show the disagreement and not an allocation failure.
- **Command lines.** The `cli` run has 15 command lines. They include each generation command with no arguments and with arguments, an option before and after a command word, `set-mtu` with too few words and with enough, the default command, and an unknown word. The directory is absent, empty, or holds two or three files, in every readdir order. Three files are enough for a failure in the middle of the loop.
- **WiFi.** The run uses three mappings for two Networks, with eight pairs in the longest. They are handed over in all 6 orders, and either `new0` may fail at every `ssid-name`. That is enough for these cases:
  - the same SSID under two Networks;
  - two access points in one mapping;
  - a later key overriding an earlier one;
  - an allocation failure followed by a later mapping.
  The violation runs use two mappings each: the smallest instance of the duplicate and of the stale pointer.
- **Texts.** The strtol texts have at most 3 characters plus the boundary texts, so a `long` never overflows, and `ERANGE` from strtol itself is not reached. Every prefix form does occur: sign, space, `0x` with and without a digit, and a leading `0`.

## Fairness

The walker's `Spec` has weak fairness on every step that is not termination. The walk is one synchronous C call with no I/O and no waiting (spec 5): once it is running, its next loop iteration, call or return always happens. Termination is a stuttering state, so deadlock checking stays on. `EthernetsWalk` has weak fairness on its next-state relation for the same reason. The refinement property therefore also says that the walker reaches "done" or "aborted".

`WifiConfig`, `Cli` and `ParseUtil` have no liveness property and no fairness. `Cli`'s run is finite: every loop shrinks `todo`, and `Terminated` stutters. The WiFi driver is not in this tree, so nothing guarantees that it makes its calls. `WifiConfig`'s `Terminated` state stutters, so deadlock checking stays on there as well.

## Not modelled

- The link table branch of `parse_network_config`: `m->link_config` is not registered in this tree.
- `yaml_register_network`: it only fills the lookup tables, which the model takes as given. No vtable repeats a key, so none of its inserts fails.
- `wifi_access_point_unref` and `g_network_free`: frees. `TableAccessPointsComplete` states what `wifi_access_point_unref` relies on.
- In `network-config-manager.c`: `cli_run_command` (in `cli.c`), the manager, and the daemon commands, which talk to systemd-networkd. These are not in this tree, so the `Cli` module models them from their interface.
- The DUID type table (`dhcp_client_duid_type`): nothing in this tree uses it.
- `nftables.h` and the test header: declarations only.
- The dracut command-line compiler: not in this tree.
- The converters `parse_yaml_*` and `scalar()`: not in this tree, so they are modelled from their effect (spec-modelled in PROJECT.json).
- The MAC and IP parsers: not in this tree. They are sets of accepted tokens.
- The WiFi parser composed with the walker: no key of `parser_network_vtable` or of the section tables leads to `parse_wifi_access_points` in this tree, so `WifiConfig` is checked on its own and its composition would be invented.
- An abstract specification of the serializer: `generate_network_config` is a pure function of the record. `Pipeline` checks it against the fields directly (`SectionsInSpecOrder`, and `DhcpOverridesRendered` in a violation run), so a refinement would repeat those checks.
- Spec 7's rule that an allocation failure is fatal: the code discards the error (hazard at yaml-network-parser.c:506), and all twelve runs already check other questions. The `pipeline` run checks what the code does guarantee on those paths.

## Observations

- The client-identifier name table (network.c:56) spells `"duid-ony"`, while `help()` offers `duid-only`. The lookup `dhcp_client_identifier_to_mode` therefore rejects `duid-only` and accepts `"duid-ony"`, which `dhcp_client_identifier_to_name` renders back as `ClientIdentifier=duid-ony`. The spec does not list the names, so no property is about this.
