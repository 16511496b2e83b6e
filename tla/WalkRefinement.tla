--------------------------- MODULE WalkRefinement ---------------------------
(***************************************************************************)
(* parse_ethernet_config, as YamlWalker models it, implements              *)
(* EthernetsWalk.  The refinement mapping reads the abstract state off the *)
(* walker's: the document's pair keys, the pairs already handed to the     *)
(* table insert (eth counts a pair from the moment its Network is created, *)
(* net is NULL again once the insert was tried), the table's keys, and     *)
(* the walk's status.  Every step inside parse_network_config and its      *)
(* callees leaves all four unchanged.                                      *)
(***************************************************************************)
EXTENDS YamlWalker

Abs == INSTANCE EthernetsWalk WITH
         Names <- Texts,
         input <- [j \in 1..NPairs(doc) |-> scalar(PairKey(doc, j))],
         handled <- IF net = NULL THEN eth - 1 ELSE eth - 2,
         records <- DOMAIN nets,
         outcome <- CASE status = "walking" -> "walking"
                      [] status = "done"    -> "done"
                      [] OTHER              -> "aborted"

(* parse_ethernet_config implements the abstract walk: interfaces in      *)
(* document order, a new record per interface, the walk ends done with    *)
(* every interface recorded or stops on a fatal error (liveness included). *)
WalkRefinesEthernetsWalk == Abs!Spec
=============================================================================
