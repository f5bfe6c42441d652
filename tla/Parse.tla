--------------------------------- MODULE Parse ---------------------------------
(***************************************************************************)
(* barf_parse_header_from_file and barf_free_object, src/barf/format.c:    *)
(* 22-128: the tables of one artifact are read into blocks of the heap,    *)
(* one after the other, and the relocations of each section from where the *)
(* section says.  Any allocation may fail, and no read is checked.         *)
(*                                                                         *)
(* A file is its header and a set of tables, each a sequence of entries at *)
(* an offset; what its bytes say elsewhere is Misread.  Offsets count from *)
(* 0, entries from 1.                                                      *)
(***************************************************************************)
EXTENDS ObjectFile, FiniteSets

CONSTANTS Files

(* What an entry of a zeroed block is, one of which a part was read, and    *)
(* one of bytes that are none; the first as a section has no relocations.   *)
Zero    == "zero"
Torn    == "torn"
Misread == "misread"
Garbage == "garbage"   \* memory nobody wrote

FS_INVALID_HANDLE == -1

Table == [kind : {"sections", "symbols", "strings", "relocations"}, offset : Nat, entries : Seq(STRING)]

(* "places" gives, by name, where the relocations of a section are.         *)
IsArtifactFile(file) ==
  /\ file.opens \in BOOLEAN /\ file.magic \in BOOLEAN
  /\ file.handle \in Nat /\ file.size \in Nat
  /\ file.section_count \in Nat /\ file.symbol_count \in Nat /\ file.string_size \in Nat
  /\ file.tables \subseteq Table
  /\ \A t \in file.tables : \A e \in DOMAIN t.entries : t.entries[e] # Garbage
  /\ \A name \in DOMAIN file.places : file.places[name] \in [offset : Nat, count : Nat]

ASSUME FilesAssumption == \A file \in Files : IsArtifactFile(file)

VARIABLES
  disk,        (* the file                                                  *)
  starves,     (* may an allocation fail                                    *)
  file,        (* the handle in the parser's variable                       *)
  is_open,     (* has it a stream                                           *)
  pc, i,       (* the step, and the section whose relocations are read      *)
  fs_head,     (* where the next table is read                              *)
  sections, symbols, strings, relocations,   (* object->...                 *)
  heap         (* the blocks that are allocated                             *)

tables == << sections, symbols, strings, relocations >>
vars   == << disk, starves, file, is_open, pc, i, fs_head, tables, heap >>

Init ==
  /\ disk \in Files /\ starves \in BOOLEAN
  /\ file = FS_INVALID_HANDLE /\ is_open = FALSE
  /\ pc = "open" /\ i = 1 /\ fs_head = 0
  /\ sections = << >> /\ symbols = << >> /\ strings = << >> /\ relocations = << >>
  /\ heap = {}

Crash ==
  /\ pc' = "crashed"
  /\ UNCHANGED << disk, starves, file, is_open, i, fs_head, tables, heap >>

Block(name) == << name, 0 >>

(* The cleanup asks whether the handle is not 0.                            *)
Cleanup ==
  \/ /\ file # FS_INVALID_HANDLE
     /\ pc' = "refused"
     /\ is_open' = (is_open /\ file = 0)
     /\ heap' = heap \ {Block("object"), Block("sections")}
     /\ UNCHANGED << disk, starves, file, i, fs_head, tables >>
  \/ file = FS_INVALID_HANDLE /\ Crash   \* fs__close of handles[0xFFFFFFFF]

-------------------------------------------------------------------------------
Open ==
  /\ pc = "open"
  /\ \/ ~ disk.opens /\ Cleanup
     \/ /\ disk.opens
        /\ file' = disk.handle /\ is_open' = TRUE /\ pc' = "object"
        /\ UNCHANGED << disk, starves, i, fs_head, tables, heap >>

AllocateObject ==
  /\ pc = "object"
  /\ \/ starves /\ Cleanup
     \/ /\ heap' = heap \union {Block("object")} /\ pc' = "header"
        /\ UNCHANGED << disk, starves, file, is_open, i, fs_head, tables >>

(* What fs__info finds: the stream at its end, and back again.              *)
file_size == disk.size

ReadHeader ==
  /\ pc = "header"
  /\ \/ /\ file_size < SizeOfHeader \/ ~ disk.magic
           \/ file_size < SizeOfSection * disk.section_count
        /\ Cleanup
     \/ /\ file_size >= SizeOfHeader /\ disk.magic
        /\ file_size >= SizeOfSection * disk.section_count
        /\ fs_head' = SizeOfHeader /\ pc' = "sections"
        /\ UNCHANGED << disk, starves, file, is_open, i, tables, heap >>

(* The entry of a table of that kind at an offset.                          *)
EntryAt(kind, size, offset) ==
  LET here == {t \in disk.tables : \E e \in DOMAIN t.entries :
                 t.kind = kind /\ t.offset + size * (e - 1) = offset}
  IN  IF here = {} THEN Misread
      ELSE LET t == CHOOSE t \in here : TRUE IN t.entries[(offset - t.offset) \div size + 1]

(* Slip: a block stays as it is allocated. *)
Uncleared(count) == [e \in 1 .. count |-> Garbage]

(* What mem__alloc returns, after its memset.                               *)
Cleared(count) == [e \in 1 .. count |-> Zero]

(* fs__read into a block: as much as the file has, and no more; an entry of *)
(* which the file has a part keeps the rest of what was there.              *)
fs__read(block, kind, size, offset) ==
  [e \in DOMAIN block |->
     LET from == offset + size * (e - 1) IN
     IF from >= disk.size THEN block[e]
     ELSE IF from + size <= disk.size THEN EntryAt(kind, size, from)
     ELSE IF block[e] = Zero THEN Torn ELSE Garbage]

(* Each table gets a block of its own.                                      *)
ReadTable(kind, size, count, offset) == fs__read(Cleared(count), kind, size, offset)

(* mem__alloc of 0 bytes returns NULL: no sections are no memory.           *)
ReadSections ==
  /\ pc = "sections"
  /\ \/ (starves \/ disk.section_count = 0) /\ Cleanup
     \/ /\ disk.section_count > 0
        /\ sections' = ReadTable("sections", SizeOfSection, disk.section_count, fs_head)
        /\ fs_head' = fs_head + SizeOfSection * disk.section_count
        /\ heap' = heap \union {Block("sections")} /\ pc' = "symbols"
        /\ UNCHANGED << disk, starves, file, is_open, i, symbols, strings, relocations >>

(* What is not allocated is cleared all the same, at NULL.                  *)
Unallocated(count) == starves /\ count > 0 /\ Crash

Blocks(name, count) == IF count > 0 THEN {Block(name)} ELSE {}

ReadSymbols ==
  /\ pc = "symbols"
  /\ \/ Unallocated(disk.symbol_count)
     \/ /\ symbols' = ReadTable("symbols", SizeOfSymbol, disk.symbol_count, fs_head)
        /\ fs_head' = fs_head + SizeOfSymbol * disk.symbol_count
        /\ heap' = heap \union Blocks("symbols", disk.symbol_count) /\ pc' = "strings"
        /\ UNCHANGED << disk, starves, file, is_open, i, sections, strings, relocations >>

(* The strings are one entry here, and the list of relocations is allocated *)
(* with them.                                                               *)
ReadStrings ==
  /\ pc = "strings"
  /\ \/ Unallocated(1)
     \/ /\ strings' = ReadTable("strings", disk.string_size,
                                IF disk.string_size > 0 THEN 1 ELSE 0, fs_head)
        /\ fs_head' = fs_head + disk.string_size
        /\ relocations' = [s \in 1 .. disk.section_count |-> << >>]
        /\ heap' = heap \union Blocks("strings", disk.string_size) \union {Block("relocations")}
        /\ pc' = "relocations"
        /\ UNCHANGED << disk, starves, file, is_open, i, sections, symbols >>

(* Where section s says its relocations are, as far as it was read.         *)
PlaceOf(s) ==
  IF sections[s] \in DOMAIN disk.places THEN disk.places[sections[s]]
  ELSE [offset |-> 0, count |-> 0]

ReadRelocations ==
  /\ pc = "relocations" /\ i <= disk.section_count
  /\ \/ Unallocated(PlaceOf(i).count)
     \/ /\ relocations' = [relocations EXCEPT ![i] =
             ReadTable("relocations", SizeOfRelocation, PlaceOf(i).count, PlaceOf(i).offset)]
        /\ heap' = heap \union {<< "list", i >> : b \in Blocks("list", PlaceOf(i).count)}
        /\ i' = i + 1
        /\ UNCHANGED << disk, starves, file, is_open, pc, fs_head, sections, symbols, strings >>

Close ==
  /\ pc = "relocations" /\ i > disk.section_count
  /\ pc' = "parsed" /\ is_open' = FALSE
  /\ UNCHANGED << disk, starves, file, i, fs_head, tables, heap >>

(* barf_free_object, by whoever got the object.                             *)
FreeObject ==
  /\ pc = "parsed"
  /\ pc' = "freed" /\ heap' = heap \ {Block("object"), Block("sections")}
  /\ UNCHANGED << disk, starves, file, is_open, i, fs_head, tables >>

Next ==
  \/ Open \/ AllocateObject \/ ReadHeader \/ ReadSections \/ ReadSymbols
  \/ ReadStrings \/ ReadRelocations \/ Close \/ FreeObject

Spec == Init /\ [][Next]_vars

-------------------------------------------------------------------------------
TypeOK ==
  /\ disk \in Files /\ starves \in BOOLEAN /\ is_open \in BOOLEAN
  /\ file \in {FS_INVALID_HANDLE, disk.handle}
  /\ pc \in { "open", "object", "header", "sections", "symbols", "strings", "relocations",
              "parsed", "freed", "refused", "crashed" }
  /\ i \in 1 .. disk.section_count + 1 /\ fs_head \in Nat
  /\ DOMAIN sections \in {{}, 1 .. disk.section_count}
  /\ DOMAIN symbols \in {{}, 1 .. disk.symbol_count}
  /\ DOMAIN relocations \in {{}, DOMAIN sections}

Entries(table) == {table[e] : e \in DOMAIN table}

(* However little of the file there is to read, what the callers find in    *)
(* the tables comes from the file or is zero, never what was in the heap    *)
(* (format.c:72-104).                                                       *)
NothingUnwritten ==
  Garbage \notin Entries(sections) \union Entries(symbols) \union Entries(strings)
                 \union UNION {Entries(relocations[s]) : s \in DOMAIN relocations}

(* What stands in the file at a place: nothing behind its end.              *)
StandsAt(kind, size, from) ==
  IF from >= disk.size THEN Zero
  ELSE IF from + size <= disk.size THEN EntryAt(kind, size, from) ELSE Torn

Standing(kind, size, count, offset) ==
  [e \in 1 .. count |-> StandsAt(kind, size, offset + size * (e - 1))]

BehindSections == SizeOfHeader + SizeOfSection * disk.section_count
BehindSymbols  == BehindSections + SizeOfSymbol * disk.symbol_count

(* Of any file, whoever wrote it, the tables handed on are what stands one  *)
(* behind the other from the end of the header, each as long as the header  *)
(* counts; the header's offsets are not looked at (format.c:74-90).  Under  *)
(* each section is what stands where the section, as read, says that its    *)
(* relocations are (format.c:92-104).                                       *)
TablesInARow ==
  pc = "parsed" =>
    /\ sections = Standing("sections", SizeOfSection, disk.section_count, SizeOfHeader)
    /\ symbols = Standing("symbols", SizeOfSymbol, disk.symbol_count, BehindSections)
    /\ strings = Standing("strings", disk.string_size,
                          IF disk.string_size > 0 THEN 1 ELSE 0, BehindSymbols)
    /\ \A s \in DOMAIN sections :
         relocations[s] = Standing("relocations", SizeOfRelocation,
                                   PlaceOf(s).count, PlaceOf(s).offset)

TableOf(kind) == CHOOSE t \in disk.tables : t.kind = kind

OnlyTable(kind, offset, count) ==
  \E t \in disk.tables :
    /\ \A u \in disk.tables : u.kind = kind => u = t
    /\ t.kind = kind /\ t.offset = offset /\ Len(t.entries) = count

RelocationTables == {t \in disk.tables : t.kind = "relocations"}

TableEnds(t) == t.offset + SizeOfRelocation * Len(t.entries)

(* A file whose tables are where the converters and the combiner write      *)
(* them (format.c:466-516 and 1180-1229), and that is not truncated: one    *)
(* after the other, as long as the header says, and then each section's     *)
(* relocations, for themselves, where the section says.                     *)
AsWritten ==
  /\ OnlyTable("sections", SizeOfHeader, disk.section_count)
  /\ OnlyTable("symbols", BehindSections, disk.symbol_count)
  /\ OnlyTable("strings", BehindSymbols, IF disk.string_size > 0 THEN 1 ELSE 0)
  /\ disk.size >= BehindSymbols + disk.string_size
  /\ \A t, u \in RelocationTables :
       /\ t.offset < u.offset => TableEnds(t) <= u.offset
       /\ t.offset = u.offset => t = u
  /\ \A s \in DOMAIN TableOf("sections").entries :
       LET name == TableOf("sections").entries[s] IN
       /\ name \in DOMAIN disk.places
       /\ disk.places[name].count > 0 =>
            \E t \in RelocationTables :
              /\ t.offset = disk.places[name].offset /\ Len(t.entries) = disk.places[name].count
              /\ disk.size >= TableEnds(t)

(* The entries the file has for section s.                                  *)
Listed(s) ==
  LET place == disk.places[TableOf("sections").entries[s]]
  IN  IF place.count = 0 THEN << >>
      ELSE (CHOOSE t \in RelocationTables : t.offset = place.offset).entries

(* The parser reads what the writers write: the object has the tables of    *)
(* the file, and under every section its own relocations.                   *)
WrittenIsRead ==
  pc = "parsed" /\ AsWritten =>
    /\ sections = TableOf("sections").entries /\ symbols = TableOf("symbols").entries
    /\ strings = TableOf("strings").entries
    /\ \A s \in DOMAIN sections : relocations[s] = Listed(s)

(* A refusal leaves no memory allocated, and no stream open except in the   *)
(* slot 0, which "if (file)" takes for no handle (format.c:112-120).        *)
RefusedLeavesNothing ==
  pc = "refused" => heap = {} /\ (is_open => file = 0)

(* A file that begins like an artifact, has a section and is as long as its *)
(* section table is parsed, as long as there is memory.                     *)
SoundFilesParse ==
  /\ ~ starves /\ disk.opens /\ disk.magic /\ disk.section_count > 0
  /\ disk.size >= SizeOfHeader /\ disk.size >= SizeOfSection * disk.section_count
  => pc \notin {"refused", "crashed"}

-------------------------------------------------------------------------------
(* A claim of the repository that the code does not keep.                   *)

(* docs/ba_format.md:29-33: the header "tells you where to find the         *)
(* section, symbol and string tables"; the parser finds them there.         *)
TablesAreWhereTheHeaderSays ==
  /\ pc = "parsed"
  /\ \A t \in disk.tables : t.kind # "relocations" =>
       disk.size >= t.offset + Len(t.entries) *
         CASE t.kind = "sections" -> SizeOfSection
           [] t.kind = "symbols" -> SizeOfSymbol [] t.kind = "strings" -> disk.string_size
  => \A t \in disk.tables :
       /\ t.kind = "sections" => sections = t.entries
       /\ t.kind = "symbols" /\ disk.symbol_count > 0 => symbols = t.entries
       /\ t.kind = "strings" /\ disk.string_size > 0 => strings = t.entries
===============================================================================
