------------------------------ MODULE ObjectFile ------------------------------
(***************************************************************************)
(* What the converters of COFF and ELF share: the sections of the artifact *)
(* they build, and where their last loop puts the data and the relocations *)
(* of each section in the file it writes (src/barf/format.c:473-511 and    *)
(* 822-861 are the same lines).                                            *)
(***************************************************************************)
EXTENDS Integers, Sequences

BARF_FLAG_WRITE  == "WRITE"
BARF_FLAG_EXEC   == "EXEC"
BARF_FLAG_ZEROED == "ZEROED"
BARF_FLAG_IGNORE == "IGNORE"

SectionFlag == {BARF_FLAG_WRITE, BARF_FLAG_EXEC, BARF_FLAG_ZEROED, BARF_FLAG_IGNORE}

(* data_offset is the place of the data in the object file until the        *)
(* section is written.                                                      *)
ConvertedSection ==
  [ flags : SUBSET SectionFlag, alignment : Nat, data_size : Nat,
    data_offset : Nat, relocation_count : Nat ]

SizeOfHeader     == 96
SizeOfSection    == 72
SizeOfSymbol     == 16
SizeOfRelocation == 12

TableEnd(sections, symbols, string_size) ==
  SizeOfHeader + SizeOfSection * Len(sections) + SizeOfSymbol * Len(symbols) + string_size

AlignTo(alignment, offset) ==
  offset + ((alignment - (offset % alignment)) % alignment)

(* Slip: the relocations follow the data without a gap. *)
PlacesUnpadded(sections, first) ==
  LET place[k \in 0 .. Len(sections)] ==
        IF k = 0 THEN [data |-> first, relocations |-> first, next |-> first]
        ELSE LET data == AlignTo(sections[k].alignment, place[k - 1].next)
                 relocations == data + sections[k].data_size
             IN  [ data |-> data, relocations |-> relocations,
                   next |-> relocations + SizeOfRelocation * sections[k].relocation_count ]
  IN  place

(* The loop over the sections: where the k-th one's data and relocations    *)
(* go, and next_section_data_offset after it.                               *)
Places(sections, first) ==
  LET place[k \in 0 .. Len(sections)] ==
        IF k = 0 THEN [data |-> first, relocations |-> first, next |-> first]
        ELSE LET data == AlignTo(sections[k].alignment, place[k - 1].next)
                 relocations == AlignTo(8, data + sections[k].data_size)
             IN  [ data |-> data, relocations |-> relocations,
                   next |-> relocations + SizeOfRelocation * sections[k].relocation_count ]
  IN  place

(* A section whose data is taken from behind the end of the object file:    *)
(* an uninitialized one has a size there and no data.                       *)
ReadsBeyond(section, file_size) == section.data_offset + section.data_size > file_size

-------------------------------------------------------------------------------
(* How a converter ends: TRUE, FALSE, or not at all. *)
Terminal == {"converted", "refused", "crashed"}

None == 0   \* the -1 of the section and symbol mappings; indices are from 1
===============================================================================
