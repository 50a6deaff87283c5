----------------------------- MODULE MCForeach -----------------------------
(***************************************************************************)
(* Foreach with every source of up to three entries and three passes over  *)
(* one entry.                                                              *)
(***************************************************************************)
EXTENDS Foreach

MCKinds == {"inode", "field", "arp"}
\* Only general_foreach_inode_entry leaves an entry that may be used again.
MCCallAfterEnd == {"inode"}
============================================================================
