-------------------------------- MODULE Output --------------------------------
(***************************************************************************)
(* The writing of a combined artifact, src/barf/format.c:877-888 and       *)
(* 1176-1241: the section data is copied from the inputs behind the place  *)
(* of the tables, each section followed by its relocations, and the tables *)
(* are written last, in front, once every offset in them is known.         *)
(*                                                                         *)
(* Offsets count from 0 as in a file; inputs and sections from 1.          *)
(***************************************************************************)
EXTENDS Integers, Sequences

CONSTANTS
  InputSet,              (* the lists of inputs                             *)
  TableSizes,            (* bytes of header, tables and strings together    *)
  TRANSFER_BUFFER_SIZE

(* A section as its input describes it; the parser believes these numbers. *)
InputSection ==
  [ alignment : Nat, data_size : Nat, data_offset : Nat,
    relocation_count : Nat, relocation_offset : Nat ]

InputFile == [size : Nat, sections : Seq(InputSection)]

ASSUME InputsAssumption == InputSet \subseteq Seq(InputFile)
ASSUME TablesAssumption == TableSizes \subseteq Nat
ASSUME BufferAssumption == TRANSFER_BUFFER_SIZE \in Nat \ {0}

SizeOfRelocation    == 12
RelocationAlignment == 8

VARIABLES
  inputs,             (* the input files and their section tables            *)
  own,                (* the input that is the output's own path, or 0       *)
  table_size,         (* what the tables of the merged artifact take         *)
  pc, bi, si,
  remaining,          (* "size" in transfer_bytes: bytes still to copy       *)
  next_offset,        (* next_section_data_offset                            *)
  data_offset,        (* of each merged section, by its input and its index  *)
  relocation_offset,  (* the same                                            *)
  total_size,         (* header.total_size                                   *)
  output,             (* offset -> what the output file holds there          *)
  lost                (* has stdio lost a write it had accepted              *)

given   == << inputs, own, table_size >>
offsets == << next_offset, data_offset, relocation_offset >>
vars    == << given, pc, bi, si, remaining, offsets, total_size, output, lost >>

Refs == UNION {{b} \X DOMAIN inputs[b].sections : b \in DOMAIN inputs}

SectionAt(ref) == inputs[ref[1]].sections[ref[2]]

RelocationsSize(ref) == SectionAt(ref).relocation_count * SizeOfRelocation

(* What a byte can be: one of an input's file, one of a section's           *)
(* relocations, one of the tables, or one of a gap that was never written.  *)
DataByte(b, p)         == << "data", << b, p >> >>
RelocationByte(ref, p) == << "relocation", << ref, p >> >>
TableByte(p)           == << "table", p >>
GapByte                == << "gap", 0 >>

Init ==
  /\ inputs \in InputSet
  /\ own \in 0 .. Len(inputs)
  /\ table_size \in TableSizes
  /\ pc = "input" /\ bi = 1 /\ si = 1
  /\ remaining = 0
  /\ next_offset = table_size
  /\ data_offset = [ref \in Refs |-> SectionAt(ref).data_offset]
  /\ relocation_offset = [ref \in Refs |-> SectionAt(ref).relocation_offset]
  /\ total_size = 0
  /\ output = << >>
  /\ lost = FALSE

-------------------------------------------------------------------------------
AlignUp(offset, alignment) ==
  offset + ((alignment - (offset % alignment)) % alignment)

(* fs__write of n bytes: they are in the file then, or stdio takes them and *)
(* the flush that nobody checks loses them (platform.c:84-86, 118-126).     *)
Write(at, n, bytes) ==
  \/ /\ output' = [p \in DOMAIN output \union (at .. at + n - 1) |->
                     IF p \in at .. at + n - 1 THEN bytes[p - at] ELSE output[p]]
     /\ UNCHANGED lost
  \/ lost' = TRUE /\ UNCHANGED output

FileEnd == IF DOMAIN output = {} THEN 0
           ELSE 1 + CHOOSE p \in DOMAIN output : \A q \in DOMAIN output : q <= p

(* What a read at offset + i finds.  The output's own path was truncated by *)
(* fopen "wb" when the output was opened, and holds what was written since. *)
ReadByte(b, p) ==
  IF b # own THEN DataByte(b, p)
  ELSE IF p \in DOMAIN output THEN output[p] ELSE GapByte

CanRead(b, offset, n) ==
  offset + n <= (IF b # own THEN inputs[b].size ELSE FileEnd)

(* The process dies in an ASSERT, in a division, or in fs__read and         *)
(* fs__close of a handle that fs__open did not return.                      *)
Crash ==
  /\ pc' = "crashed"
  /\ UNCHANGED << given, bi, si, remaining, offsets, total_size, output, lost >>

-------------------------------------------------------------------------------
OpenInput ==
  /\ pc = "input" /\ bi \in DOMAIN inputs
  /\ \/ /\ pc' = "section"
        /\ UNCHANGED << given, bi, si, remaining, offsets, total_size, output, lost >>
     \/ Crash

Current == SectionAt(<<bi, si>>)

PlaceAt(offset) ==
  /\ pc = "section" /\ si \in DOMAIN inputs[bi].sections
  /\ \/ /\ Current.alignment # 0
        /\ next_offset' = offset
        /\ remaining' = Current.data_size
        /\ pc' = "transfer"
        /\ UNCHANGED << given, bi, si, data_offset, relocation_offset,
                        total_size, output, lost >>
     \/ Current.alignment = 0 /\ Crash

(* Slip: no padding in front of the data. *)
PlaceUnaligned == PlaceAt(next_offset)

PlaceSection == PlaceAt(AlignUp(next_offset, Current.alignment))

Chunk == IF remaining < TRANSFER_BUFFER_SIZE THEN remaining ELSE TRANSFER_BUFFER_SIZE

(* A short read or write is an ASSERT.  A file that is being rewritten      *)
(* itself may be read short at any length: stdio still buffers some of it.  *)
Transfer(written, left) ==
  /\ pc = "transfer" /\ remaining > 0
  /\ \/ /\ CanRead(bi, Current.data_offset, Chunk)
        /\ Write(next_offset, written,
                 [i \in 0 .. Chunk - 1 |-> ReadByte(bi, Current.data_offset + i)])
        /\ remaining' = left
        /\ UNCHANGED << given, pc, bi, si, offsets, total_size >>
     \/ Crash

(* Slip: the last byte of a chunk is not written. *)
TransferShort == Transfer(Chunk - 1, remaining - Chunk)

(* One round of the loop in transfer_bytes.  Both offsets are the ones it   *)
(* was called with in every round.                                          *)
TransferChunk == Transfer(Chunk, remaining - Chunk)

DataEnd == next_offset + Current.data_size

StoreRelocations(at, noted, next) ==
  /\ pc = "transfer" /\ remaining = 0
  /\ Current.relocation_count > 0
  /\ \/ /\ Write(at, RelocationsSize(<<bi, si>>),
                 [i \in 0 .. RelocationsSize(<<bi, si>>) - 1 |-> RelocationByte(<<bi, si>>, i)])
        /\ data_offset' = [data_offset EXCEPT ![<<bi, si>>] = next_offset]
        /\ relocation_offset' = [relocation_offset EXCEPT ![<<bi, si>>] = noted]
        /\ next_offset' = next
        /\ si' = si + 1 /\ pc' = "section"
        /\ UNCHANGED << given, bi, remaining, total_size >>
     \/ Crash

(* Slips: the place is noted before it is aligned; the relocations are not  *)
(* counted.                                                                 *)
NoteBeforePadding ==
  LET at == AlignUp(DataEnd, RelocationAlignment)
  IN  StoreRelocations(at, DataEnd, at + RelocationsSize(<<bi, si>>))

RelocationsUncounted ==
  LET at == AlignUp(DataEnd, RelocationAlignment)
  IN  StoreRelocations(at, at, at)

WriteRelocations ==
  LET at == AlignUp(DataEnd, RelocationAlignment)
  IN  StoreRelocations(at, at, at + RelocationsSize(<<bi, si>>))

SkipRelocations(next) ==
  /\ pc = "transfer" /\ remaining = 0
  /\ Current.relocation_count = 0
  /\ data_offset' = [data_offset EXCEPT ![<<bi, si>>] = next_offset]
  /\ next_offset' = next
  /\ si' = si + 1 /\ pc' = "section"
  /\ UNCHANGED << given, bi, remaining, relocation_offset, total_size, output, lost >>

(* Slip: the data is not counted if no relocations follow. *)
DataUncounted == SkipRelocations(next_offset)

NoRelocations == SkipRelocations(DataEnd)

(* Slip: the inputs are not counted. *)
CloseUncounted ==
  /\ pc = "section" /\ si > Len(inputs[bi].sections)
  /\ pc' = "input"
  /\ UNCHANGED << given, bi, si, remaining, offsets, total_size, output, lost >>

CloseInput ==
  /\ pc = "section" /\ si > Len(inputs[bi].sections)
  /\ bi' = bi + 1 /\ si' = 1 /\ pc' = "input"
  /\ UNCHANGED << given, remaining, offsets, total_size, output, lost >>

(* Header, section table, symbol table and strings, none of them checked.  *)
WriteTables ==
  /\ pc = "input" /\ bi > Len(inputs)
  /\ total_size' = next_offset
  /\ Write(0, table_size, [p \in 0 .. table_size - 1 |-> TableByte(p)])
  /\ pc' = "done"
  /\ UNCHANGED << given, bi, si, remaining, offsets >>

Next ==
  \/ OpenInput
  \/ PlaceSection \/ TransferChunk \/ WriteRelocations \/ NoRelocations
  \/ CloseInput
  \/ WriteTables

Spec == Init /\ [][Next]_vars /\ WF_vars(Next)

-------------------------------------------------------------------------------
Terminal == {"done", "crashed"}

TypeOK ==
  /\ inputs \in Seq(InputFile)
  /\ own \in 0 .. Len(inputs)
  /\ table_size \in TableSizes
  /\ pc \in {"input", "section", "transfer"} \union Terminal
  /\ bi \in 1 .. Len(inputs) + 1
  /\ pc \in {"section", "transfer"} => bi \in DOMAIN inputs
  /\ si \in Nat \ {0}
  /\ pc = "transfer" => si \in DOMAIN inputs[bi].sections
  /\ remaining \in Nat
  /\ next_offset \in Nat
  /\ data_offset \in [Refs -> Nat]
  /\ relocation_offset \in [Refs -> Nat]
  /\ total_size \in Nat
  /\ DOMAIN output \subseteq Nat
  /\ lost \in BOOLEAN

(* The sections whose entry in the section table is final. *)
Written == {ref \in Refs : ref[1] < bi \/ (ref[1] = bi /\ ref[2] < si)}

(* Places in the file.  Sections without relocations keep the offset their  *)
(* input had, of no bytes.                                                  *)
DataPlace(ref) == data_offset[ref] .. data_offset[ref] + SectionAt(ref).data_size - 1

RelocationPlace(ref) ==
  relocation_offset[ref] .. relocation_offset[ref] + RelocationsSize(ref) - 1

Place(ref) == DataPlace(ref) \union RelocationPlace(ref)

(* The tables, the data of each section and its relocations share no byte   *)
(* of the file (format.c:1187-1223), whatever the sizes and alignments.     *)
PlacesAreDisjoint ==
  \A ref \in Written :
    /\ \A p \in Place(ref) : p >= table_size
    /\ DataPlace(ref) \cap RelocationPlace(ref) = {}
    /\ \A other \in Written \ {ref} : Place(ref) \cap Place(other) = {}

(* "Alignment" of a section (docs/ba_format.md:50) holds for its data in    *)
(* the file, and relocations start at a multiple of 8.                      *)
PlacesAreAligned ==
  \A ref \in Written :
    /\ SectionAt(ref).alignment # 0
    /\ data_offset[ref] % SectionAt(ref).alignment = 0
    /\ SectionAt(ref).relocation_count > 0 =>
         relocation_offset[ref] % RelocationAlignment = 0

IsCopied(ref) ==
  \A i \in 0 .. SectionAt(ref).data_size - 1 :
    /\ data_offset[ref] + i \in DOMAIN output
    /\ output[data_offset[ref] + i] = DataByte(ref[1], SectionAt(ref).data_offset + i)

(* Where the section table says a section's data is, there is the data of   *)
(* its input, and nothing written later spoils it, if it fits the transfer  *)
(* buffer, the output is no input and the device takes what it is given.    *)
SmallSectionsAreCopied ==
  ~ lost /\ own = 0 =>
    \A ref \in Written :
      SectionAt(ref).data_size <= TRANSFER_BUFFER_SIZE => IsCopied(ref)

(* The same of each section's relocations. *)
IsStored(ref) ==
  \A i \in 0 .. RelocationsSize(ref) - 1 :
    /\ relocation_offset[ref] + i \in DOMAIN output
    /\ output[relocation_offset[ref] + i] = RelocationByte(ref, i)

RelocationsAreStored == ~ lost => \A ref \in Written : IsStored(ref)

(* The size the header declares bounds the file (format.c:1225). *)
WithinTotalSize == pc = "done" => \A p \in DOMAIN output : p < total_size

(* The writing ends, or the process does: neither the loops over inputs and *)
(* sections nor the one over chunks go on for ever, whatever the sizes      *)
(* (format.c:880-887, 1189-1223).                                           *)
Ends == <>(pc \in Terminal)

(* "Offset to section data and size of section data" (docs/ba_format.md:52) *)
(* of a finished artifact give the data of the input, of any size.          *)
SectionsAreCopied ==
  pc = "done" /\ ~ lost /\ own = 0 => \A ref \in Refs : IsCopied(ref)

(* "total size of whole format including header (the file size)"            *)
(* (include/barf/ba_format.h:27).                                           *)
TotalSizeIsFileSize == pc = "done" /\ ~ lost => total_size = FileEnd

===============================================================================
