---------------------------- MODULE MCJournalFile ----------------------------
(* A journal file with two values of one field, and arrays of one slot.      *)
EXTENDS JournalFile

MCFieldOf == [d \in Data |-> "FIELD"]
=============================================================================
