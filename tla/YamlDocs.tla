----------------------------- MODULE YamlDocs -----------------------------
(***************************************************************************)
(* Constructors for the libyaml nodes of the documents the models are      *)
(* checked on: a scalar, a sequence, and a mapping given as its            *)
(* <<key, value>> pairs and laid out as libyaml lays it out (key1, value1, *)
(* key2, value2, ...).                                                      *)
(***************************************************************************)
EXTENDS NetworkRecord

S(t) == [kind |-> "scalar", val |-> t, kids |-> <<>>]
Sq(items) == [kind |-> "seq", val |-> NULL, kids |-> items]
Mp(ps) == [kind |-> "map", val |-> NULL,
           kids |-> [j \in 1..2 * Len(ps) |-> ps[(j + 1) \div 2][2 - (j % 2)]]]

A1 == "10.0.0.1/24"
A2 == "10.0.0.2/24"
=============================================================================
