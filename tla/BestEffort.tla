----------------------------- MODULE BestEffort -----------------------------
(***************************************************************************)
(* What the UDP system promises (README.md, "Baja latencia con entrega no  *)
(* garantizada"): a reader is shown only items that were sent and that     *)
(* were asked for from its address, each at most once more than the        *)
(* network repeated datagrams.  Which of them, in which order, and whether *)
(* any at all, is left open.                                               *)
(***************************************************************************)
EXTENDS Integers, Bags

CONSTANTS
  Readers,
  Items,
  AskedFor   \* AskedFor[r]: the items that may be meant for reader r

VARIABLES
  sent,      \* the items published
  repeats,   \* datagrams the network has repeated
  read       \* read[r]: the bag of the items reader r has been shown

Init ==
  /\ sent = {}
  /\ repeats = 0
  /\ read = [r \in Readers |-> EmptyBag]

Send ==
  /\ \E item \in Items : sent' = sent \cup {item}
  /\ UNCHANGED <<repeats, read>>

Show(r) ==
  \E item \in sent \cap AskedFor[r] :
    /\ BagIn(item, read[r]) => read[r][item] <= repeats
    /\ read' = [read EXCEPT ![r] = @ (+) SetToBag({item})]

\* The network delivers: a datagram it keeps, or not; to a reader, or not.
Delivery ==
  /\ repeats' \in {repeats, repeats + 1}
  /\ UNCHANGED read \/ \E r \in Readers : Show(r)
  /\ UNCHANGED sent

Next == Send \/ Delivery

Spec == Init /\ [][Next]_<<sent, repeats, read>>
=============================================================================
