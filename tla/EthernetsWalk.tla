--------------------------- MODULE EthernetsWalk ---------------------------
(***************************************************************************)
(* What the walk of an ethernets mapping promises (spec 2 and 4.3), with   *)
(* the document reduced to its sequence of interface names: the            *)
(* interfaces are handled one at a time in document order, each one that   *)
(* is handled successfully adds a record under a name not yet in the      *)
(* table (never overwriting one), and the walk either reaches the end of   *)
(* the document with every interface recorded or stops with a fatal       *)
(* error, at which point the interface being handled is not recorded.     *)
(***************************************************************************)
EXTENDS Naturals, Sequences, FiniteSets

CONSTANT Names   \* the interface names a document may use

VARIABLES
  input,    \* the interface names of the document, in order
  handled,  \* how many of them the walk has handled
  records,  \* the names the table holds a record under
  outcome   \* "walking", "done" or "aborted"

avars == <<input, handled, records, outcome>>

Init ==
  /\ input \in Seq(Names)
  /\ handled = 0
  /\ records = {}
  /\ outcome = "walking"

(* The next interface is recorded under a name new to the table. *)
Record ==
  /\ outcome = "walking" /\ handled < Len(input)
  /\ \E n \in Names \ records : records' = records \cup {n}
  /\ handled' = handled + 1
  /\ UNCHANGED <<input, outcome>>

(* Every interface has been handled: the walk returns. *)
Finish ==
  /\ outcome = "walking" /\ handled = Len(input)
  /\ outcome' = "done"
  /\ UNCHANGED <<input, handled, records>>

(* A fatal error while the next interface is handled. *)
Abort ==
  /\ outcome = "walking" /\ handled < Len(input)
  /\ outcome' = "aborted"
  /\ handled' \in {handled, handled + 1}
  /\ UNCHANGED <<input, records>>

Next == Record \/ Finish \/ Abort

Spec == Init /\ [][Next]_avars /\ WF_avars(Next)

=============================================================================
