------------------------ MODULE MCSnapshotInventory ------------------------
(* Small instances of SnapshotInventory for TLC: one path of each kind that the *)
(* passes treat differently.                                                    *)
EXTENDS SnapshotInventory

Source == 1     \* extracted and indexed
Readme == 2     \* indexed only
Config == 3     \* in the inventory, never read again
Binary == 4     \* read, then excluded by a notice

MCPaths     == {Source, Readme, Config, Binary}
MCExtracted == {Source}
MCIndexed   == {Source, Readme}
============================================================================
