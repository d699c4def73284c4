------------------------------ MODULE PubSub ------------------------------
(***************************************************************************)
(* What the system promises a reader of one match (README.md, "Orden de    *)
(* entrega garantizado", "Deteccion de duplicados"): the lines a reader    *)
(* has been shown are the first lines of the feed, in the order published, *)
(* each once and none skipped.  Nothing is said of when, or whether, the   *)
(* rest follows.                                                           *)
(***************************************************************************)
EXTENDS Integers, Sequences

CONSTANTS Readers, Items

VARIABLES
  feed,   \* what has been published, in order
  read    \* read[r]: what reader r has been shown, in order

Init ==
  /\ feed = <<>>
  /\ read = [r \in Readers |-> <<>>]

PublishItem ==
  /\ \E item \in Items : feed' = Append(feed, item)
  /\ UNCHANGED read

\* A reader is shown the next lines, one or several at a time.
Show(r) ==
  /\ \E n \in (Len(read[r]) + 1)..Len(feed) :
       read' = [read EXCEPT ![r] = SubSeq(feed, 1, n)]
  /\ UNCHANGED feed

Next == PublishItem \/ \E r \in Readers : Show(r)

Spec == Init /\ [][Next]_<<feed, read>>
===========================================================================
