---------------------------- MODULE OffsetLedger ----------------------------
(***************************************************************************)
(* What ingestion promises about Kafka, without saying how: records are    *)
(* published at the end of a partition, come to rest in any order, and     *)
(* never leave that state; an offset is moved only to a place below which  *)
(* every record is at rest.  This is at-least-once consumption.  With      *)
(* MayRegress = FALSE offsets also never move back, which is what a single *)
(* consumer at a time adds.                                                *)
(***************************************************************************)
EXTENDS Integers

CONSTANTS
  Partition,    \* the partitions of the log
  MaxLen,       \* bound: offsets a partition ever gets
  MayRegress    \* whether an offset may be moved back

Offset == 0 .. MaxLen - 1
Record == Partition \X Offset

VARIABLES
  published,    \* next offset of each partition
  rest,         \* records that need nothing more
  offset        \* the consumer's position in each partition

ledgerVars == <<published, rest, offset>>

Below(p, n) == {p} \X (0 .. n - 1)

Init ==
  /\ published = [p \in Partition |-> 0]
  /\ rest = {}
  /\ offset = [p \in Partition |-> 0]

\* A record is appended; an offset without a message is at rest at once.
Publish(p) ==
  /\ published[p] < MaxLen
  /\ published' = [published EXCEPT ![p] = @ + 1]
  /\ rest' \in {rest, rest \cup {<<p, published[p]>>}}
  /\ UNCHANGED offset

\* Some published records come to rest.
Rest(S) ==
  /\ \A r \in S : r[2] < published[r[1]]
  /\ rest' = rest \cup S
  /\ UNCHANGED <<published, offset>>

\* Offsets are moved.
Move ==
  /\ offset' \in [Partition -> 0 .. MaxLen]
  /\ \A p \in Partition :
       /\ offset'[p] = offset[p] \/ Below(p, offset'[p]) \subseteq rest
       /\ MayRegress \/ offset[p] <= offset'[p]
  /\ UNCHANGED <<published, rest>>

Next ==
  \/ \E p \in Partition : Publish(p)
  \/ \E S \in SUBSET Record : Rest(S)
  \/ Move

Spec == Init /\ [][Next]_ledgerVars

\* The promise: nothing below an offset is still to be done.
Covered == \A p \in Partition : Below(p, offset[p]) \subseteq rest

=============================================================================
