----------------------------- MODULE Catalogue -----------------------------
(* What the list of records promises: the records that are registered, in  *)
(* the order they were, whatever others have gone.                         *)
EXTENDS Sequences, SequencesExt

CONSTANT Record

VARIABLE records

Init == records = <<>>

Add(r) ==
    /\ r \notin ToSet(records)
    /\ records' = Append(records, r)

Drop(r) ==
    /\ \E i \in DOMAIN records : records[i] = r /\ records' = RemoveAt(records, i)

Next == \E r \in Record : Add(r) \/ Drop(r)

Spec == Init /\ [][Next]_records
=============================================================================
