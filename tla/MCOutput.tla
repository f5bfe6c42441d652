------------------------------- MODULE MCOutput -------------------------------
(* Small inputs for Output: a buffer of 3 bytes stands for the one of 4096, *)
(* so that sections below, at and above its size are all small.             *)
EXTENDS Output

CONSTANT MaxSize   \* of a section's data

(* The 0 of an ELF section's alignment (format.c:703), one that never pads  *)
(* and one that does; no data, less than a chunk, one, and more than one.   *)
MCSection ==
  { [ alignment |-> a, data_size |-> n, data_offset |-> 1,
      relocation_count |-> c, relocation_offset |-> 0 ] :
    a \in {0, 1, 4}, n \in {0, 2, 3, MaxSize}, c \in 0 .. 1 }

(* A second file follows, so that its writes could spoil those of the       *)
(* first; its section pads to 16 and has two relocations.                   *)
Follower ==
  [ size |-> 2,
    sections |-> << [ alignment |-> 16, data_size |-> 2, data_offset |-> 0,
                      relocation_count |-> 2, relocation_offset |-> 5 ] >> ]

(* A file of 8 bytes holds the data, one of 2 ends within it. *)
MCInputSet ==
  { << [size |-> size, sections |-> << s >>] >> : size \in {2, 8}, s \in MCSection }
  \union
  { << [size |-> 8, sections |-> << s, t >>], Follower >> : s, t \in MCSection }

MCTableSizes == {5, 8}
===============================================================================
