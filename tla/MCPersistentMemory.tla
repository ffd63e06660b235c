------------------------- MODULE MCPersistentMemory -------------------------
(***************************************************************************)
(* Instances of PersistentMemory for TLC: three puts over two keys, so that*)
(* a key is put again and another entry must not suffer from it.  The      *)
(* second put holds a separator: its line is lost, and neither the entry of*)
(* the other key nor the put that follows may suffer from that.            *)
(***************************************************************************)
EXTENDS PersistentMemory

MCKeys == {"task one", "task two"}
MCInstances == {"first", "second"}

=============================================================================
