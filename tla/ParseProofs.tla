------------------------------ MODULE ParseProofs ------------------------------
(***************************************************************************)
(* Proofs about Parse and Dump, for every set of files and whatever their  *)
(* entries say: what is in the tables that the parser hands on, and what   *)
(* the dump prints of them.                                                *)
(***************************************************************************)
EXTENDS DumpFile, FiniteSetTheorems, TLAPS

-------------------------------------------------------------------------------
(* What the assumption on files says of the one that is open.               *)
LEMMA FileFacts ==
  ASSUME disk \in Files
  PROVE  /\ disk.opens \in BOOLEAN /\ disk.magic \in BOOLEAN
         /\ disk.handle \in Nat /\ disk.size \in Nat
         /\ disk.section_count \in Nat /\ disk.symbol_count \in Nat /\ disk.string_size \in Nat
         /\ \A name \in DOMAIN disk.places :
              disk.places[name].offset \in Nat /\ disk.places[name].count \in Nat
         /\ \A t \in disk.tables :
              /\ t.offset \in Nat /\ t.entries \in Seq(STRING)
              /\ Len(t.entries) \in Nat /\ DOMAIN t.entries = 1 .. Len(t.entries)
              /\ \A e \in DOMAIN t.entries : t.entries[e] # Garbage
<1>1. IsArtifactFile(disk)
  BY FilesAssumption
<1>2. \A t \in disk.tables : t.offset \in Nat /\ t.entries \in Seq(STRING)
  BY <1>1 DEF IsArtifactFile, Table
<1>3. \A t \in disk.tables : Len(t.entries) \in Nat /\ DOMAIN t.entries = 1 .. Len(t.entries)
  BY <1>2
<1>4. QED
  BY <1>1, <1>2, <1>3 DEF IsArtifactFile

(* The arithmetic of places: the e-th of entries of a size starts where it  *)
(* does, and the place gives e back.                                        *)
LEMMA DivideExactly ==
  ASSUME NEW size \in Nat \ {0}, NEW n \in Nat
  PROVE  (size * n) \div size = n
OBVIOUS

LEMMA TimesIsNat ==
  ASSUME NEW a \in Nat, NEW b \in Nat
  PROVE  a * b \in Nat
OBVIOUS

LEMMA TimesSum ==
  ASSUME NEW a \in Nat, NEW b \in Nat, NEW c \in Nat
  PROVE  a * (b + 1 + c) = a * b + a + a * c
OBVIOUS

(* Where a table of the kind has its e-th entry, that is what is there, if  *)
(* no other table of the kind has one there.                                *)
LEMMA EntryIsThere ==
  ASSUME disk \in Files, NEW kind, NEW size \in Nat \ {0}, NEW t \in disk.tables,
         NEW e \in DOMAIN t.entries, t.kind = kind,
         \A u \in disk.tables : \A d \in DOMAIN u.entries :
           u.kind = kind /\ u.offset + size * (d - 1) = t.offset + size * (e - 1) => u = t
  PROVE  EntryAt(kind, size, t.offset + size * (e - 1)) = t.entries[e]
<1> DEFINE offset == t.offset + size * (e - 1)
           here == {u \in disk.tables : \E d \in DOMAIN u.entries :
                      u.kind = kind /\ u.offset + size * (d - 1) = offset}
<1>1. here = {t}
  OBVIOUS
<1>2. (CHOOSE u \in here : TRUE) = t
  BY <1>1
<1>3. EntryAt(kind, size, offset) = t.entries[(offset - t.offset) \div size + 1]
  BY <1>1, <1>2 DEF EntryAt
<1>4. (offset - t.offset) \div size + 1 = e
  <2>1. t.offset \in Nat /\ e - 1 \in Nat /\ e \in Nat
    BY FileFacts
  <2>2. size * (e - 1) \in Nat
    BY <2>1, TimesIsNat
  <2>3. offset - t.offset = size * (e - 1)
    BY <2>1, <2>2
  <2>4. (size * (e - 1)) \div size = e - 1
    BY <2>1, DivideExactly
  <2>5. QED
    BY <2>1, <2>3, <2>4
<1>5. QED
  BY <1>3, <1>4

(* A read into a cleared block leaves what stands in the file, and zero     *)
(* behind its end.                                                          *)
LEMMA ReadIsStanding ==
  ASSUME NEW kind, NEW size, NEW count, NEW offset
  PROVE  ReadTable(kind, size, count, offset) = Standing(kind, size, count, offset)
<1>1. ASSUME NEW e \in 1 .. count
      PROVE  ReadTable(kind, size, count, offset)[e] = StandsAt(kind, size, offset + size * (e - 1))
  <2> DEFINE from == offset + size * (e - 1)
  <2>1. DOMAIN Cleared(count) = 1 .. count /\ Cleared(count)[e] = Zero
    BY DEF Cleared
  <2>2. ReadTable(kind, size, count, offset)[e]
          = IF from >= disk.size THEN Zero
            ELSE IF from + size <= disk.size THEN EntryAt(kind, size, from)
            ELSE IF Zero = Zero THEN Torn ELSE Garbage
    BY <2>1 DEF ReadTable, fs__read
  <2>3. QED
    BY <2>2 DEF StandsAt
<1>2. QED
  BY <1>1 DEF Standing, ReadTable, fs__read, Cleared

(* Nothing is there that nobody wrote.                                      *)
LEMMA EntryIsWritten ==
  ASSUME disk \in Files, NEW kind, NEW size \in Nat \ {0}, NEW offset \in Nat
  PROVE  EntryAt(kind, size, offset) # Garbage
<1> DEFINE here == {u \in disk.tables : \E d \in DOMAIN u.entries :
                      u.kind = kind /\ u.offset + size * (d - 1) = offset}
           t == CHOOSE u \in here : TRUE
<1>1. CASE here = {}
  BY <1>1 DEF EntryAt, Misread, Garbage
<1>2. CASE here # {}
  <2>1. t \in here
    BY <1>2
  <2> HIDE DEF t
  <2>2. t \in disk.tables
    BY <2>1
  <2>3. PICK d \in DOMAIN t.entries : t.offset + size * (d - 1) = offset
    BY <2>1
  <2>4. t.offset \in Nat /\ d \in Nat /\ d - 1 \in Nat /\ t.entries[d] # Garbage
    BY <2>2, FileFacts
  <2>5. (offset - t.offset) \div size + 1 = d
    <3>1. size * (d - 1) \in Nat /\ (size * (d - 1)) \div size = d - 1
      BY <2>4, TimesIsNat, DivideExactly
    <3>2. offset - t.offset = size * (d - 1)
      BY <2>3, <2>4, <3>1
    <3>3. QED
      BY <2>4, <3>1, <3>2
  <2>6. EntryAt(kind, size, offset) = t.entries[(offset - t.offset) \div size + 1]
    BY <1>2 DEF EntryAt, t
  <2>7. QED
    BY <2>4, <2>5, <2>6
<1>3. QED
  BY <1>1, <1>2

(* A read fills its whole block, and with nothing that nobody wrote.        *)
LEMMA ReadIsWritten ==
  ASSUME disk \in Files, NEW kind, NEW size \in Nat, NEW count \in Nat, NEW offset \in Nat,
         count > 0 => size > 0
  PROVE  /\ DOMAIN ReadTable(kind, size, count, offset) = 1 .. count
         /\ Garbage \notin Entries(ReadTable(kind, size, count, offset))
<1>1. ASSUME NEW e \in 1 .. count
      PROVE  ReadTable(kind, size, count, offset)[e] # Garbage
  <2> DEFINE from == offset + size * (e - 1)
  <2>1. size \in Nat \ {0} /\ e - 1 \in Nat
    OBVIOUS
  <2>2. from \in Nat
    BY <2>1, TimesIsNat
  <2>3. ReadTable(kind, size, count, offset)[e]
          = IF from >= disk.size THEN Zero
            ELSE IF from + size <= disk.size THEN EntryAt(kind, size, from) ELSE Torn
    BY ReadIsStanding DEF Standing, StandsAt
  <2> HIDE DEF from
  <2>4. EntryAt(kind, size, from) # Garbage
    BY <2>1, <2>2, EntryIsWritten
  <2>5. QED
    BY <2>3, <2>4 DEF Zero, Torn, Garbage
<1>2. DOMAIN ReadTable(kind, size, count, offset) = 1 .. count
  BY ReadIsStanding DEF Standing
<1>3. QED
  BY <1>1, <1>2 DEF Entries

(* A table that is whole and shares no entry is read as it is.              *)
LEMMA TableIsRead ==
  ASSUME disk \in Files, NEW t \in disk.tables, NEW size \in Nat,
         Len(t.entries) > 0 => size > 0,
         \A u \in disk.tables : \A d \in DOMAIN u.entries : \A e \in DOMAIN t.entries :
           u.kind = t.kind /\ u.offset + size * (d - 1) = t.offset + size * (e - 1) => u = t,
         disk.size >= t.offset + size * Len(t.entries)
  PROVE  ReadTable(t.kind, size, Len(t.entries), t.offset) = t.entries
<1>1. /\ t.offset \in Nat /\ Len(t.entries) \in Nat /\ DOMAIN t.entries = 1 .. Len(t.entries)
      /\ disk.size \in Nat /\ t.entries \in Seq(STRING)
  BY FileFacts
<1>2. ASSUME NEW e \in 1 .. Len(t.entries)
      PROVE  ReadTable(t.kind, size, Len(t.entries), t.offset)[e] = t.entries[e]
  <2> DEFINE before == size * (e - 1)
             behind == size * (Len(t.entries) - e)
             from == t.offset + before
  <2>1. e \in Nat /\ e - 1 \in Nat /\ Len(t.entries) - e \in Nat /\ size \in Nat \ {0}
    BY <1>1
  <2>2. before \in Nat /\ behind \in Nat
    BY <2>1, TimesIsNat
  <2>3. size * Len(t.entries) = before + size + behind
    <3>1. Len(t.entries) = (e - 1) + 1 + (Len(t.entries) - e)
      BY <1>1, <2>1
    <3>2. size * ((e - 1) + 1 + (Len(t.entries) - e)) = before + size + behind
      BY <2>1, TimesSum
    <3>3. QED
      BY <3>1, <3>2
  <2>4. EntryAt(t.kind, size, from) = t.entries[e]
    <3>1. e \in DOMAIN t.entries
      BY <1>1
    <3>2. \A u \in disk.tables : \A d \in DOMAIN u.entries :
            u.kind = t.kind /\ u.offset + size * (d - 1) = t.offset + size * (e - 1) => u = t
      BY <3>1
    <3>3. QED
      BY <2>1, <3>1, <3>2, EntryIsThere
  <2>5. ReadTable(t.kind, size, Len(t.entries), t.offset)[e]
          = IF from >= disk.size THEN Zero
            ELSE IF from + size <= disk.size THEN EntryAt(t.kind, size, from) ELSE Torn
    BY ReadIsStanding DEF Standing, StandsAt
  <2> HIDE DEF before, behind
  <2>6. from \in Nat /\ from < disk.size /\ from + size <= disk.size
    BY <1>1, <2>1, <2>2, <2>3
  <2> HIDE DEF from
  <2>7. QED
    BY <1>1, <2>1, <2>4, <2>5, <2>6
<1>3. ReadTable(t.kind, size, Len(t.entries), t.offset)
        = [e \in 1 .. Len(t.entries) |-> ReadTable(t.kind, size, Len(t.entries), t.offset)[e]]
  BY ReadIsStanding DEF Standing
<1>4. t.entries = [e \in 1 .. Len(t.entries) |-> t.entries[e]]
  BY <1>1
<1>5. QED
  BY <1>2, <1>3, <1>4

-------------------------------------------------------------------------------
(* What is read of the file that is open: the tables one behind the other,  *)
(* as long as the header counts, and the relocations of each section where  *)
(* it says.                                                                 *)
SectionsRead == ReadTable("sections", SizeOfSection, disk.section_count, SizeOfHeader)

SymbolsRead == ReadTable("symbols", SizeOfSymbol, disk.symbol_count, BehindSections)

StringsRead ==
  ReadTable("strings", disk.string_size, IF disk.string_size > 0 THEN 1 ELSE 0, BehindSymbols)

PlaceRead(s) ==
  IF SectionsRead[s] \in DOMAIN disk.places THEN disk.places[SectionsRead[s]]
  ELSE [offset |-> 0, count |-> 0]

RelocationsRead(s) ==
  ReadTable("relocations", SizeOfRelocation, PlaceRead(s).count, PlaceRead(s).offset)

Opened == pc \in {"object", "header", "sections", "symbols", "strings", "relocations", "parsed"}

(* The values of the variables that no table is in.                         *)
Scalars ==
  /\ disk \in Files /\ starves \in BOOLEAN /\ is_open \in BOOLEAN
  /\ file \in {FS_INVALID_HANDLE, disk.handle}
  /\ pc \in { "open", "object", "header", "sections", "symbols", "strings", "relocations",
              "parsed", "freed", "refused", "crashed" }
  /\ i \in 1 .. disk.section_count + 1 /\ fs_head \in Nat

(* What is to be given back at each step, until the first table is read     *)
(* the last that can be refused at.                                         *)
HeldSoFar ==
  /\ pc = "open" => file = FS_INVALID_HANDLE /\ ~ is_open
  /\ Opened => file = disk.handle
  /\ pc \in {"open", "object"} => heap = {}
  /\ pc \in {"header", "sections"} => heap = {Block("object")}
  /\ RefusedLeavesNothing

(* A table is not there yet or is what the file has for it, and from its    *)
(* step on it is there.                                                     *)
ReadSoFar ==
  /\ sections \in {<< >>, SectionsRead}
  /\ symbols \in {<< >>, SymbolsRead}
  /\ strings \in {<< >>, StringsRead}
  /\ \/ relocations = << >>
     \/ /\ DOMAIN relocations = 1 .. disk.section_count /\ sections = SectionsRead
        /\ \A s \in 1 .. disk.section_count : relocations[s] \in {<< >>, RelocationsRead(s)}
  /\ pc = "sections" => fs_head = SizeOfHeader
  /\ pc = "symbols" => fs_head = BehindSections
  /\ pc = "strings" => fs_head = BehindSymbols
  /\ pc \in {"symbols", "strings", "relocations", "parsed"} => sections = SectionsRead
  /\ pc \in {"strings", "relocations", "parsed"} => symbols = SymbolsRead
  /\ pc \in {"relocations", "parsed"} =>
       /\ strings = StringsRead /\ DOMAIN relocations = 1 .. disk.section_count
       /\ \A s \in 1 .. i - 1 : relocations[s] = RelocationsRead(s)
  /\ pc \notin {"relocations", "parsed", "freed", "crashed"} => i = 1
  /\ pc = "parsed" => i = disk.section_count + 1

ParserInvariant == Scalars /\ HeldSoFar /\ ReadSoFar /\ SoundFilesParse

(* As long as it is the same file, the same is read of it.                  *)
LEMMA SameFile ==
  ASSUME UNCHANGED disk
  PROVE  /\ BehindSections' = BehindSections /\ BehindSymbols' = BehindSymbols
         /\ SectionsRead' = SectionsRead /\ SymbolsRead' = SymbolsRead
         /\ StringsRead' = StringsRead
         /\ \A s : RelocationsRead(s)' = RelocationsRead(s)
<1>1. ASSUME NEW CONSTANT kind, NEW CONSTANT size, NEW CONSTANT offset
      PROVE  EntryAt(kind, size, offset)' = EntryAt(kind, size, offset)
  BY DEF EntryAt
<1>2. ASSUME NEW CONSTANT kind, NEW CONSTANT size, NEW CONSTANT count, NEW CONSTANT offset
      PROVE  ReadTable(kind, size, count, offset)' = ReadTable(kind, size, count, offset)
  BY <1>1 DEF ReadTable, fs__read, Cleared
<1>3. QED
  BY DEF BehindSections, BehindSymbols, SectionsRead, SymbolsRead, StringsRead,
         RelocationsRead, PlaceRead, ReadTable, fs__read, Cleared, EntryAt

-------------------------------------------------------------------------------
(* The invariant, part by part: what a step keeps of each.                  *)
LEMMA ParserStarts == Init => ParserInvariant
<1> SUFFICES ASSUME Init PROVE ParserInvariant
  OBVIOUS
<1>1. disk \in Files /\ disk.section_count \in Nat
  BY FileFacts DEF Init
<1>2. Scalars
  <2>1. i \in 1 .. disk.section_count + 1 /\ fs_head \in Nat
    BY <1>1 DEF Init
  <2>2. QED
    BY <2>1 DEF Init, Scalars
<1>3. HeldSoFar
  BY DEF Init, HeldSoFar, Opened, RefusedLeavesNothing
<1>4. ReadSoFar
  BY DEF Init, ReadSoFar
<1>5. SoundFilesParse
  BY DEF Init, SoundFilesParse
<1>6. QED
  BY <1>2, <1>3, <1>4, <1>5 DEF ParserInvariant

LEMMA FileIsKept == [Next]_vars => UNCHANGED << disk, starves >>
BY DEF Next, vars, Open, AllocateObject, ReadHeader, ReadSections, ReadSymbols, ReadStrings,
       ReadRelocations, Close, FreeObject, Cleanup, Crash, Unallocated

LEMMA ScalarsKept ==
  ASSUME ParserInvariant, [Next]_vars
  PROVE  Scalars'
<1>1. disk' = disk /\ starves' = starves
  BY FileIsKept
<1>2. /\ disk \in Files /\ starves \in BOOLEAN /\ is_open \in BOOLEAN
      /\ file \in {FS_INVALID_HANDLE, disk.handle}
      /\ i \in 1 .. disk.section_count + 1 /\ fs_head \in Nat
  BY DEF ParserInvariant, Scalars
<1>3. disk.section_count \in Nat /\ disk.symbol_count \in Nat /\ disk.string_size \in Nat
  BY <1>2, FileFacts
<1> USE DEF Cleanup, Crash, Unallocated
<1>4. is_open' \in BOOLEAN /\ file' \in {FS_INVALID_HANDLE, disk.handle}
  BY <1>2 DEF Next, vars, Open, AllocateObject, ReadHeader, ReadSections, ReadSymbols,
              ReadStrings, ReadRelocations, Close, FreeObject
<1>5. pc' \in { "open", "object", "header", "sections", "symbols", "strings", "relocations",
                "parsed", "freed", "refused", "crashed" }
  BY DEF Next, vars, Open, AllocateObject, ReadHeader, ReadSections, ReadSymbols,
         ReadStrings, ReadRelocations, Close, FreeObject, ParserInvariant, Scalars
<1>6. i' \in 1 .. disk.section_count + 1
  BY <1>2, <1>3 DEF Next, vars, Open, AllocateObject, ReadHeader, ReadSections, ReadSymbols,
              ReadStrings, ReadRelocations, Close, FreeObject
<1>7. fs_head' \in Nat
  <2>1. CASE ReadHeader
    BY <1>2, <2>1 DEF ReadHeader, SizeOfHeader
  <2>2. CASE ReadSections
    BY <1>2, <1>3, <2>2 DEF ReadSections, SizeOfSection
  <2>3. CASE ReadSymbols
    BY <1>2, <1>3, <2>3 DEF ReadSymbols, SizeOfSymbol
  <2>4. CASE ReadStrings
    BY <1>2, <1>3, <2>4 DEF ReadStrings
  <2>5. CASE Open \/ AllocateObject \/ ReadRelocations \/ Close \/ FreeObject
    BY <1>2, <2>5 DEF Open, AllocateObject, ReadRelocations, Close, FreeObject
  <2>6. QED
    BY <1>2, <2>1, <2>2, <2>3, <2>4, <2>5 DEF Next, vars
<1>8. QED
  BY <1>1, <1>2, <1>4, <1>5, <1>6, <1>7 DEF Scalars

LEMMA HeldKept ==
  ASSUME ParserInvariant, [Next]_vars
  PROVE  HeldSoFar'
<1>1. disk' = disk /\ starves' = starves
  BY FileIsKept
<1>2. disk \in Files /\ disk.handle # FS_INVALID_HANDLE
  <2>1. disk \in Files
    BY DEF ParserInvariant, Scalars
  <2>2. disk.handle \in Nat
    BY <2>1, FileFacts
  <2>3. QED
    BY <2>1, <2>2 DEF FS_INVALID_HANDLE
<1> USE DEF ParserInvariant, HeldSoFar, Opened, RefusedLeavesNothing, Cleanup, Crash
<1>3. CASE Open
  BY <1>1, <1>2, <1>3 DEF Open
<1>4. CASE AllocateObject
  BY <1>1, <1>2, <1>4 DEF AllocateObject, Block
<1>5. CASE ReadHeader
  BY <1>1, <1>2, <1>5 DEF ReadHeader, Block
<1>6. CASE ReadSections
  BY <1>1, <1>2, <1>6 DEF ReadSections, Block
<1>7. CASE ReadSymbols \/ ReadStrings \/ ReadRelocations
  BY <1>1, <1>2, <1>7 DEF ReadSymbols, ReadStrings, ReadRelocations, Unallocated
<1>8. CASE Close \/ FreeObject
  BY <1>1, <1>2, <1>8 DEF Close, FreeObject
<1>9. CASE UNCHANGED vars
  BY <1>9 DEF vars
<1>10. QED
  BY <1>3, <1>4, <1>5, <1>6, <1>7, <1>8, <1>9 DEF Next

LEMMA SoundKept ==
  ASSUME ParserInvariant, [Next]_vars
  PROVE  SoundFilesParse'
<1>1. disk' = disk /\ starves' = starves
  BY FileIsKept
<1>2. disk.size \in Nat /\ disk.section_count \in Nat
  BY FileFacts DEF ParserInvariant, Scalars
<1> USE DEF ParserInvariant, SoundFilesParse, Cleanup, Crash, Unallocated
<1>3. CASE Open \/ AllocateObject
  BY <1>1, <1>3 DEF Open, AllocateObject
<1>4. CASE ReadHeader
  BY <1>1, <1>2, <1>4 DEF ReadHeader, file_size, SizeOfHeader, SizeOfSection
<1>5. CASE ReadSections \/ ReadSymbols \/ ReadStrings \/ ReadRelocations
  BY <1>1, <1>5 DEF ReadSections, ReadSymbols, ReadStrings, ReadRelocations
<1>6. CASE Close \/ FreeObject
  BY <1>1, <1>6 DEF Close, FreeObject
<1>7. CASE UNCHANGED vars
  BY <1>7 DEF vars
<1>8. QED
  BY <1>3, <1>4, <1>5, <1>6, <1>7 DEF Next

LEMMA ReadKept ==
  ASSUME ParserInvariant, [Next]_vars
  PROVE  ReadSoFar'
<1>1. disk' = disk /\ starves' = starves
  BY FileIsKept
<1>2. disk \in Files /\ disk.section_count \in Nat /\ i \in 1 .. disk.section_count + 1
  BY FileFacts DEF ParserInvariant, Scalars
<1>3. /\ BehindSections' = BehindSections /\ BehindSymbols' = BehindSymbols
      /\ SectionsRead' = SectionsRead /\ SymbolsRead' = SymbolsRead
      /\ StringsRead' = StringsRead
      /\ \A s : RelocationsRead(s)' = RelocationsRead(s)
  BY <1>1, SameFile
<1>4. ReadSoFar
  BY DEF ParserInvariant
<1> USE DEF Cleanup, Crash, tables
<1>5. CASE Open \/ AllocateObject
  BY <1>1, <1>3, <1>4, <1>5 DEF Open, AllocateObject, ReadSoFar
<1>6. CASE ReadHeader
  BY <1>1, <1>3, <1>4, <1>6 DEF ReadHeader, ReadSoFar
<1>7. CASE ReadSections
  BY <1>1, <1>3, <1>4, <1>7 DEF ReadSections, SectionsRead, BehindSections, ReadSoFar
<1>8. CASE ReadSymbols
  <2>1. CASE Unallocated(disk.symbol_count)
    BY <1>1, <1>3, <1>4, <2>1 DEF Unallocated, ReadSoFar
  <2>2. CASE ~ Unallocated(disk.symbol_count)
    <3>1. /\ pc = "symbols" /\ pc' = "strings" /\ fs_head = BehindSections
          /\ symbols' = SymbolsRead /\ fs_head' = BehindSymbols
          /\ UNCHANGED << i, sections, strings, relocations >>
      BY <1>4, <1>8, <2>2 DEF ReadSymbols, SymbolsRead, BehindSymbols, ReadSoFar
    <3>2. QED
      BY <1>1, <1>3, <1>4, <3>1 DEF ReadSoFar
  <2>3. QED
    BY <2>1, <2>2
<1>9. CASE ReadStrings
  <2>1. CASE Unallocated(1)
    BY <1>1, <1>3, <1>4, <2>1 DEF Unallocated, ReadSoFar
  <2>2. CASE ~ Unallocated(1)
    <3>1. /\ pc = "strings" /\ pc' = "relocations" /\ i = 1 /\ strings' = StringsRead
          /\ relocations' = [s \in 1 .. disk.section_count |-> << >>]
          /\ UNCHANGED << i, sections, symbols >>
      BY <1>4, <1>9, <2>2 DEF ReadStrings, StringsRead, ReadSoFar
    <3>2. QED
      BY <1>1, <1>2, <1>3, <1>4, <3>1 DEF ReadSoFar
  <2>3. QED
    BY <2>1, <2>2
<1>10. CASE ReadRelocations
  <2>1. CASE Unallocated(PlaceOf(i).count)
    BY <1>1, <1>3, <1>4, <2>1 DEF Unallocated, ReadSoFar
  <2>2. CASE ~ Unallocated(PlaceOf(i).count)
    <3>1. /\ pc = "relocations" /\ UNCHANGED << pc, sections, symbols, strings >>
          /\ i' = i + 1 /\ i \in 1 .. disk.section_count
      BY <1>2, <1>10, <2>2 DEF ReadRelocations
    <3>2. /\ sections = SectionsRead /\ DOMAIN relocations = 1 .. disk.section_count
          /\ \A s \in 1 .. i - 1 : relocations[s] = RelocationsRead(s)
      BY <1>4, <3>1 DEF ReadSoFar
    <3>3. relocations' = [relocations EXCEPT ![i] = RelocationsRead(i)]
      BY <1>10, <2>2, <3>2 DEF ReadRelocations, RelocationsRead, PlaceRead, PlaceOf
    <3>4. /\ DOMAIN relocations' = 1 .. disk.section_count
          /\ \A s \in 1 .. disk.section_count :
               relocations'[s] = IF s = i THEN RelocationsRead(s) ELSE relocations[s]
      BY <3>1, <3>2, <3>3
    <3>5. QED
      BY <1>1, <1>2, <1>3, <1>4, <3>1, <3>2, <3>4 DEF ReadSoFar
  <2>3. QED
    BY <2>1, <2>2
<1>11. CASE Close \/ FreeObject
  BY <1>1, <1>2, <1>3, <1>4, <1>11 DEF Close, FreeObject, ReadSoFar
<1>12. CASE UNCHANGED vars
  BY <1>1, <1>3, <1>4, <1>12 DEF vars, ReadSoFar
<1>13. QED
  BY <1>5, <1>6, <1>7, <1>8, <1>9, <1>10, <1>11, <1>12 DEF Next

LEMMA ParserKept == ParserInvariant /\ [Next]_vars => ParserInvariant'
BY ScalarsKept, HeldKept, ReadKept, SoundKept DEF ParserInvariant

-------------------------------------------------------------------------------
(* What the invariant says of the tables, in the words of the properties.   *)
LEMMA ReadsAreWritten ==
  ASSUME disk \in Files
  PROVE  /\ DOMAIN SectionsRead = 1 .. disk.section_count
         /\ DOMAIN SymbolsRead = 1 .. disk.symbol_count
         /\ Garbage \notin Entries(SectionsRead) \union Entries(SymbolsRead)
                            \union Entries(StringsRead)
         /\ \A s : Garbage \notin Entries(RelocationsRead(s))
<1>1. /\ disk.section_count \in Nat /\ disk.symbol_count \in Nat /\ disk.string_size \in Nat
      /\ \A name \in DOMAIN disk.places :
           disk.places[name].offset \in Nat /\ disk.places[name].count \in Nat
  BY FileFacts
<1>2. BehindSections \in Nat /\ BehindSymbols \in Nat
  BY <1>1 DEF BehindSections, BehindSymbols, SizeOfHeader, SizeOfSection, SizeOfSymbol
<1> USE DEF SizeOfHeader, SizeOfSection, SizeOfSymbol, SizeOfRelocation
<1>3. DOMAIN SectionsRead = 1 .. disk.section_count /\ Garbage \notin Entries(SectionsRead)
  BY <1>1, ReadIsWritten DEF SectionsRead
<1>4. DOMAIN SymbolsRead = 1 .. disk.symbol_count /\ Garbage \notin Entries(SymbolsRead)
  BY <1>1, <1>2, ReadIsWritten DEF SymbolsRead
<1>5. Garbage \notin Entries(StringsRead)
  BY <1>1, <1>2, ReadIsWritten DEF StringsRead
<1>6. ASSUME NEW s
      PROVE  Garbage \notin Entries(RelocationsRead(s))
  <2>1. PlaceRead(s).offset \in Nat /\ PlaceRead(s).count \in Nat
    BY <1>1 DEF PlaceRead
  <2>2. QED
    BY <2>1, ReadIsWritten DEF RelocationsRead
<1>7. QED
  BY <1>3, <1>4, <1>5, <1>6

LEMMA TypesHold == ParserInvariant => TypeOK
<1> SUFFICES ASSUME ParserInvariant PROVE TypeOK
  OBVIOUS
<1>1. disk \in Files
  BY DEF ParserInvariant, Scalars
<1>2. DOMAIN sections \in {{}, 1 .. disk.section_count}
  BY <1>1, ReadsAreWritten DEF ParserInvariant, ReadSoFar
<1>3. DOMAIN symbols \in {{}, 1 .. disk.symbol_count}
  BY <1>1, ReadsAreWritten DEF ParserInvariant, ReadSoFar
<1>4. DOMAIN relocations \in {{}, DOMAIN sections}
  BY <1>1, ReadsAreWritten DEF ParserInvariant, ReadSoFar
<1>5. QED
  BY <1>2, <1>3, <1>4 DEF TypeOK, ParserInvariant, Scalars

(* At the end every table that was read stands in the file, one behind the  *)
(* other, and each section's relocations where it says.                     *)
LEMMA ReadInARow == ParserInvariant => TablesInARow
<1> SUFFICES ASSUME ParserInvariant, pc = "parsed" PROVE TablesInARow
  BY DEF TablesInARow
<1>1. disk \in Files /\ disk.section_count \in Nat
  BY FileFacts DEF ParserInvariant, Scalars
<1>2. /\ sections = SectionsRead /\ symbols = SymbolsRead /\ strings = StringsRead
      /\ \A s \in 1 .. disk.section_count : relocations[s] = RelocationsRead(s)
  BY <1>1 DEF ParserInvariant, ReadSoFar
<1>3. DOMAIN sections = 1 .. disk.section_count
  BY <1>1, <1>2, ReadsAreWritten
<1>4. sections = Standing("sections", SizeOfSection, disk.section_count, SizeOfHeader)
  BY <1>2, ReadIsStanding DEF SectionsRead
<1>5. symbols = Standing("symbols", SizeOfSymbol, disk.symbol_count, BehindSections)
  BY <1>2, ReadIsStanding DEF SymbolsRead
<1>6. strings = Standing("strings", disk.string_size,
                         IF disk.string_size > 0 THEN 1 ELSE 0, BehindSymbols)
  BY <1>2, ReadIsStanding DEF StringsRead
<1>7. ASSUME NEW s \in DOMAIN sections
      PROVE  relocations[s] = Standing("relocations", SizeOfRelocation,
                                       PlaceOf(s).count, PlaceOf(s).offset)
  <2>1. PlaceOf(s) = PlaceRead(s)
    BY <1>2 DEF PlaceOf, PlaceRead
  <2>2. relocations[s] = RelocationsRead(s)
    BY <1>2, <1>3
  <2>3. QED
    BY <2>1, <2>2, ReadIsStanding DEF RelocationsRead
<1>8. QED
  BY <1>4, <1>5, <1>6, <1>7 DEF TablesInARow

LEMMA NothingIsUnwritten == ParserInvariant => NothingUnwritten
<1> SUFFICES ASSUME ParserInvariant PROVE NothingUnwritten
  OBVIOUS
<1>1. disk \in Files
  BY DEF ParserInvariant, Scalars
<1>2. Entries(<< >>) = {}
  BY DEF Entries
<1>3. Garbage \notin Entries(sections) \union Entries(symbols) \union Entries(strings)
  BY <1>1, <1>2, ReadsAreWritten DEF ParserInvariant, ReadSoFar
<1>4. ASSUME NEW s \in DOMAIN relocations
      PROVE  Garbage \notin Entries(relocations[s])
  <2>1. relocations # << >>
    OBVIOUS
  <2>2. relocations[s] \in {<< >>, RelocationsRead(s)}
    BY <2>1 DEF ParserInvariant, ReadSoFar
  <2>3. QED
    BY <1>1, <1>2, <2>2, ReadsAreWritten
<1>5. QED
  BY <1>3, <1>4 DEF NothingUnwritten

(* Of a file as the writers write it the tables are read that it has.       *)
LEMMA OnlyTableIsRead ==
  ASSUME disk \in Files, NEW kind, NEW size \in Nat, NEW offset, NEW count,
         OnlyTable(kind, offset, count), count > 0 => size > 0,
         disk.size >= offset + size * count
  PROVE  ReadTable(kind, size, count, offset) = TableOf(kind).entries
<1>1. PICK t \in disk.tables :
        /\ \A u \in disk.tables : u.kind = kind => u = t
        /\ t.kind = kind /\ t.offset = offset /\ Len(t.entries) = count
  BY DEF OnlyTable
<1>2. TableOf(kind) = t
  BY <1>1 DEF TableOf
<1>3. ReadTable(t.kind, size, Len(t.entries), t.offset) = t.entries
  BY <1>1, TableIsRead
<1>4. QED
  BY <1>1, <1>2, <1>3

(* Tables of relocations apart from each other have no entry in one place.  *)
LEMMA TablesDoNotOverlap ==
  ASSUME NEW a \in Nat, NEW b \in Nat, NEW m \in Nat, NEW n \in Nat,
         NEW d \in 1 .. m, NEW e \in 1 .. n, a < b => a + 12 * m <= b, b < a => b + 12 * n <= a,
         a + 12 * (d - 1) = b + 12 * (e - 1)
  PROVE  a = b
OBVIOUS

(* ... and under each section the relocations the file has for it.          *)
LEMMA RelocationsAreListed ==
  ASSUME disk \in Files, AsWritten, SectionsRead = TableOf("sections").entries,
         NEW s \in DOMAIN SectionsRead
  PROVE  RelocationsRead(s) = Listed(s)
<1> DEFINE place == disk.places[SectionsRead[s]]
<1>1. /\ SectionsRead[s] \in DOMAIN disk.places
      /\ place.count > 0 =>
           \E t \in RelocationTables :
             /\ t.offset = place.offset /\ Len(t.entries) = place.count
             /\ disk.size >= TableEnds(t)
  BY DEF AsWritten
<1>2. place.count \in Nat /\ place.offset \in Nat
  BY <1>1, FileFacts
<1>3. RelocationsRead(s) = ReadTable("relocations", SizeOfRelocation, place.count, place.offset)
  BY <1>1 DEF RelocationsRead, PlaceRead
<1>4. Listed(s) = IF place.count = 0 THEN << >>
                  ELSE (CHOOSE t \in RelocationTables : t.offset = place.offset).entries
  BY DEF Listed
<1> HIDE DEF place
<1>5. CASE place.count = 0
  BY <1>3, <1>4, <1>5 DEF ReadTable, fs__read, Cleared
<1>6. CASE place.count > 0
  <2>1. PICK t \in RelocationTables :
          /\ t.offset = place.offset /\ Len(t.entries) = place.count /\ disk.size >= TableEnds(t)
    BY <1>1, <1>6
  <2>2. /\ t \in disk.tables /\ t.kind = "relocations"
        /\ \A u \in RelocationTables :
             /\ t.offset < u.offset => TableEnds(t) <= u.offset
             /\ u.offset < t.offset => TableEnds(u) <= t.offset
             /\ u.offset = t.offset => u = t
    BY <2>1 DEF RelocationTables, AsWritten
  <2>3. (CHOOSE u \in RelocationTables : u.offset = place.offset) = t
    BY <2>1, <2>2
  <2>4. ASSUME NEW u \in disk.tables, NEW d \in DOMAIN u.entries, NEW e \in DOMAIN t.entries,
               u.kind = t.kind,
               u.offset + SizeOfRelocation * (d - 1) = t.offset + SizeOfRelocation * (e - 1)
        PROVE  u = t
    <3>1. u \in RelocationTables
      BY <2>2, <2>4 DEF RelocationTables
    <3>2. /\ u.offset \in Nat /\ Len(u.entries) \in Nat /\ d \in 1 .. Len(u.entries)
          /\ t.offset \in Nat /\ Len(t.entries) \in Nat /\ e \in 1 .. Len(t.entries)
      BY <2>2, FileFacts
    <3>3. /\ t.offset < u.offset => t.offset + SizeOfRelocation * Len(t.entries) <= u.offset
          /\ u.offset < t.offset => u.offset + SizeOfRelocation * Len(u.entries) <= t.offset
      BY <2>2, <3>1 DEF TableEnds
    <3>4. t.offset = u.offset
      BY <2>4, <3>2, <3>3, TablesDoNotOverlap DEF SizeOfRelocation
    <3>5. QED
      BY <2>2, <3>1, <3>4
  <2>5. ReadTable(t.kind, SizeOfRelocation, Len(t.entries), t.offset) = t.entries
    <3>1. disk.size >= t.offset + SizeOfRelocation * Len(t.entries)
      BY <2>1 DEF TableEnds
    <3>2. SizeOfRelocation \in Nat /\ SizeOfRelocation > 0
      BY DEF SizeOfRelocation
    <3>3. QED
      BY <2>2, <2>4, <3>1, <3>2, TableIsRead
  <2>6. QED
    BY <1>3, <1>4, <1>6, <2>1, <2>2, <2>3, <2>5
<1>7. QED
  BY <1>2, <1>5, <1>6

(* Both together are the property of the files that the writers write.      *)
LEMMA WhatIsWrittenIsRead == ParserInvariant => WrittenIsRead
<1> SUFFICES ASSUME ParserInvariant, pc = "parsed", AsWritten
             PROVE  /\ sections = TableOf("sections").entries
                    /\ symbols = TableOf("symbols").entries
                    /\ strings = TableOf("strings").entries
                    /\ \A s \in DOMAIN sections : relocations[s] = Listed(s)
  BY DEF WrittenIsRead
<1>1. /\ disk \in Files /\ disk.section_count \in Nat /\ disk.symbol_count \in Nat
      /\ disk.string_size \in Nat /\ disk.size \in Nat
  BY FileFacts DEF ParserInvariant, Scalars
<1>2. /\ OnlyTable("sections", SizeOfHeader, disk.section_count)
      /\ OnlyTable("symbols", BehindSections, disk.symbol_count)
      /\ OnlyTable("strings", BehindSymbols, IF disk.string_size > 0 THEN 1 ELSE 0)
      /\ disk.size >= BehindSymbols + disk.string_size
  BY DEF AsWritten, BehindSections, BehindSymbols
<1>3. /\ sections = SectionsRead /\ symbols = SymbolsRead /\ strings = StringsRead
      /\ \A s \in 1 .. disk.section_count : relocations[s] = RelocationsRead(s)
  BY <1>1 DEF ParserInvariant, ReadSoFar
<1>4. SectionsRead = TableOf("sections").entries
  <2>1. /\ disk.size >= SizeOfHeader + SizeOfSection * disk.section_count
        /\ SizeOfSection \in Nat \ {0}
    BY <1>1, <1>2 DEF BehindSymbols, BehindSections, SizeOfHeader, SizeOfSection, SizeOfSymbol
  <2>2. QED
    BY <1>1, <1>2, <2>1, OnlyTableIsRead DEF SectionsRead
<1>5. SymbolsRead = TableOf("symbols").entries
  <2>1. disk.size >= BehindSections + SizeOfSymbol * disk.symbol_count /\ SizeOfSymbol \in Nat \ {0}
    BY <1>1, <1>2 DEF BehindSymbols, BehindSections, SizeOfHeader, SizeOfSection, SizeOfSymbol
  <2>2. QED
    BY <1>1, <1>2, <2>1, OnlyTableIsRead DEF SymbolsRead
<1>6. StringsRead = TableOf("strings").entries
  <2> DEFINE count == IF disk.string_size > 0 THEN 1 ELSE 0
  <2>1. disk.size >= BehindSymbols + disk.string_size * count
    BY <1>1, <1>2
  <2>2. QED
    BY <1>1, <1>2, <2>1, OnlyTableIsRead DEF StringsRead
<1>7. \A s \in DOMAIN sections : relocations[s] = Listed(s)
  BY <1>1, <1>3, <1>4, ReadsAreWritten, RelocationsAreListed
<1>8. QED
  BY <1>3, <1>4, <1>5, <1>6, <1>7

-------------------------------------------------------------------------------
(* The invariant holds from the start and after every step.                 *)
LEMMA ParserIsInvariant == Spec => []ParserInvariant
BY ParserStarts, ParserKept, PTL DEF Spec

(* To parse a file, to dump it and to free it is, as far as the parser's    *)
(* variables show, to parse and to free it: "barf -d" (main.c:81-90) is     *)
(* the parser and looks on.                                                 *)
THEOREM DumpFileParses == DumpFileSpec => Spec
<1>1. DumpFileInit => Init
  BY DEF DumpFileInit
<1>2. [DumpFileNext]_<< vars, meaning, dump_vars >> => [Next]_vars
  BY DEF DumpFileNext, ParseFile, DumpObject, FreeDumped, Next
<1>3. QED
  BY <1>1, <1>2, PTL DEF DumpFileSpec, Spec

(* For every set of files: the tables that the parser hands on are what     *)
(* stands one behind the other from the end of the header on, whatever      *)
(* offsets the header gives, and zero from where the file ends, however     *)
(* little was read into a block; of a file as the writers write it that is  *)
(* its own tables, under each section its own relocations; a refusal leaves *)
(* no memory and no stream but in slot 0; and a file with a section that is *)
(* as long as its section table is not refused as long as there is memory   *)
(* (format.c:65-131).                                                       *)
THEOREM Parses == DumpFileSpec => []ParsedIsTheFile
<1>1. ParserInvariant => ParsedIsTheFile
  BY TypesHold, NothingIsUnwritten, ReadInARow, WhatIsWrittenIsRead
     DEF ParsedIsTheFile, ParserInvariant, HeldSoFar
<1>2. QED
  BY <1>1, ParserIsInvariant, DumpFileParses, PTL

-------------------------------------------------------------------------------
(* The dump.  The object it reads is made of sequences.                     *)
ObjectShape ==
  /\ Len(Object.sections) \in Nat /\ DOMAIN Object.sections = 1 .. Len(Object.sections)
  /\ Len(Object.symbols) \in Nat /\ DOMAIN Object.symbols = 1 .. Len(Object.symbols)
  /\ \A s \in DOMAIN Object.sections :
       /\ Len(Object.sections[s].relocations) \in Nat
       /\ DOMAIN Object.sections[s].relocations = 1 .. Len(Object.sections[s].relocations)

(* A function over 1 .. n is a sequence of n.                               *)
LEMMA LenIsCount ==
  ASSUME NEW n \in Nat, NEW f, f = [k \in 1 .. n |-> f[k]]
  PROVE  Len(f) = n /\ DOMAIN f = 1 .. n
<1> DEFINE T == {f[k] : k \in 1 .. n}
<1>1. f \in [1 .. n -> T]
  OBVIOUS
<1> HIDE DEF T
<1>2. QED
  BY <1>1

(* ... as what the parser hands on is.                                      *)
LEMMA ObjectFacts == ParserInvariant /\ Parsed => ObjectShape
<1> SUFFICES ASSUME ParserInvariant, Parsed PROVE ObjectShape
  OBVIOUS
<1>1. /\ disk \in Files /\ disk.section_count \in Nat /\ disk.symbol_count \in Nat
      /\ \A name \in DOMAIN disk.places : disk.places[name].count \in Nat
  BY FileFacts DEF ParserInvariant, Scalars
<1>2. DOMAIN sections = 1 .. disk.section_count /\ DOMAIN symbols = 1 .. disk.symbol_count
  BY <1>1, ReadsAreWritten DEF ParserInvariant, ReadSoFar, Parsed
<1>3. \A s \in 1 .. disk.section_count : relocations[s] = RelocationsRead(s)
  BY <1>1 DEF ParserInvariant, ReadSoFar, Parsed
<1>4. /\ Len(Object.sections) = disk.section_count
      /\ DOMAIN Object.sections = 1 .. disk.section_count
  BY <1>1, <1>2, LenIsCount DEF Object
<1>5. /\ Len(Object.symbols) = disk.symbol_count
      /\ DOMAIN Object.symbols = 1 .. disk.symbol_count
  BY <1>1, <1>2, LenIsCount DEF Object
<1>6. ASSUME NEW s \in 1 .. disk.section_count
      PROVE  LET listed == Object.sections[s].relocations
             IN  Len(listed) \in Nat /\ DOMAIN listed = 1 .. Len(listed)
  <2> DEFINE listed == Object.sections[s].relocations
  <2>1. PlaceRead(s).count \in Nat
    BY <1>1 DEF PlaceRead
  <2>2. DOMAIN relocations[s] = 1 .. PlaceRead(s).count
    BY <1>3 DEF RelocationsRead, ReadTable, fs__read, Cleared
  <2>3. listed = [r \in 1 .. PlaceRead(s).count |-> listed[r]]
    BY <1>2, <2>2 DEF Object
  <2> HIDE DEF listed
  <2>4. Len(listed) = PlaceRead(s).count /\ DOMAIN listed = 1 .. PlaceRead(s).count
    BY <2>1, <2>3, LenIsCount
  <2>5. QED
    BY <2>1, <2>4 DEF listed
<1>7. QED
  BY <1>1, <1>4, <1>5, <1>6 DEF ObjectShape

(* How many lines there are in front of a section.                          *)
LEMMA LinesAddUp ==
  ASSUME ObjectShape
  PROVE  /\ D!LinesUpto(0) = 0
         /\ \A s \in DOMAIN Object.sections :
              /\ D!LinesUpto(s - 1) \in Nat
              /\ D!LinesUpto(s) = D!LinesUpto(s - 1) + 1 + Len(Object.sections[s].relocations)
         /\ D!LinesUpto(Len(Object.sections)) \in Nat
<1> DEFINE own(k) == {k} \X (0 .. Len(Object.sections[k].relocations))
           upto(s) == UNION {own(k) : k \in 1 .. s}
           N == Len(Object.sections)
<1>1. ASSUME NEW s
      PROVE  D!LinesUpto(s) = Cardinality(upto(s))
  BY Zenon DEF D!LinesUpto, D!Cardinality, Cardinality
<1>2. N \in Nat /\ DOMAIN Object.sections = 1 .. N
  BY DEF ObjectShape
<1>3. ASSUME NEW k \in 1 .. N
      PROVE  /\ IsFiniteSet(own(k))
             /\ Cardinality(own(k)) = 1 + Len(Object.sections[k].relocations)
  <2> DEFINE n == Len(Object.sections[k].relocations)
  <2>1. n \in Nat
    BY <1>2 DEF ObjectShape
  <2> HIDE DEF n
  <2>2. IsFiniteSet(0 .. n) /\ Cardinality(0 .. n) = 1 + n
    BY <2>1, FS_Interval
  <2>3. IsFiniteSet({k}) /\ Cardinality({k}) = 1
    BY FS_Singleton
  <2>4. /\ IsFiniteSet({k} \X (0 .. n))
        /\ Cardinality({k} \X (0 .. n)) = Cardinality({k}) * Cardinality(0 .. n)
    BY <2>2, <2>3, FS_Product
  <2>5. 1 * (1 + n) = 1 + n
    BY <2>1
  <2>6. QED
    BY <2>2, <2>3, <2>4, <2>5 DEF n
<1> HIDE DEF own, N
<1>4. ASSUME NEW s \in Nat, s <= N
      PROVE  IsFiniteSet(upto(s)) /\ Cardinality(upto(s)) \in Nat
  <2> DEFINE owns == {own(k) : k \in 1 .. s}
             list == [k \in 1 .. s |-> own(k)]
  <2>1. list \in Seq(owns) /\ Len(list) = s
    OBVIOUS
  <2>2. \A o \in owns : \E k \in 1 .. Len(list) : list[k] = o
    BY <2>1
  <2>3. IsFiniteSet(owns)
    BY <2>1, <2>2 DEF IsFiniteSet
  <2>4. ASSUME NEW o \in owns
        PROVE  IsFiniteSet(o)
    <3>1. PICK k \in 1 .. s : o = own(k)
      OBVIOUS
    <3>2. k \in 1 .. N
      BY <1>2, <1>4
    <3>3. QED
      BY <1>3, <3>1, <3>2
  <2>5. QED
    BY <2>3, <2>4, FS_UNION, FS_CardinalityType
<1>5. upto(0) = {}
  OBVIOUS
<1>6. ASSUME NEW s \in 1 .. N
      PROVE  /\ Cardinality(upto(s - 1)) \in Nat
             /\ Cardinality(upto(s))
                  = Cardinality(upto(s - 1)) + 1 + Len(Object.sections[s].relocations)
  <2> DEFINE before == upto(s - 1)
             here == own(s)
             n == Len(Object.sections[s].relocations)
  <2>1. s - 1 \in Nat /\ s \in Nat /\ s - 1 <= N /\ s <= N
    BY <1>2 DEF N
  <2>2. 1 .. s = (1 .. (s - 1)) \union {s}
    BY <2>1
  <2>3. upto(s) = before \union here
    BY <2>2
  <2>4. before \cap here = {}
    BY <2>1 DEF own
  <2>5. IsFiniteSet(before) /\ Cardinality(before) \in Nat
    BY <1>4, <2>1
  <2>6. IsFiniteSet(here) /\ Cardinality(here) = 1 + n /\ n \in Nat
    BY <1>2, <1>3 DEF N, ObjectShape
  <2> HIDE DEF before, here, n
  <2>7. Cardinality(before \union here)
          = Cardinality(before) + Cardinality(here) - Cardinality(before \cap here)
    BY <2>5, <2>6, FS_Union
  <2>8. Cardinality(before \cap here) = 0
    BY <2>4, FS_EmptySet
  <2>9. Cardinality(before \union here) = Cardinality(before) + 1 + n
    BY <2>5, <2>6, <2>7, <2>8
  <2>10. QED
    BY <2>3, <2>5, <2>9 DEF before, n
<1>7. Cardinality(upto(0)) = 0
  BY <1>5, FS_EmptySet
<1>8. Cardinality(upto(N)) \in Nat
  <2>1. N \in Nat /\ N <= N
    BY <1>2
  <2>2. QED
    BY <1>4, <2>1
<1> HIDE DEF upto
<1>9. QED
  BY <1>1, <1>2, <1>6, <1>7, <1>8 DEF N

-------------------------------------------------------------------------------
(* What has been printed of a section, a relocation and a symbol, each at   *)
(* the place where it belongs.                                              *)
IsPrinted(n, line) == n \in 1 .. Len(lines) /\ lines[n] = line

SectionShown(s) == IsPrinted(D!LineOfSection(s), D!SectionLine(Object.sections[s]))

RelocationShown(s, r) ==
  LET index == Object.sections[s].relocations[r].symbol_index
      symbol == Object.symbols[index]
  IN  /\ index \in DOMAIN Object.symbols
      /\ IsPrinted(D!LineOfRelocation(s, r), D!RelocationLine(symbol, D!SectionPrinted(symbol)))

SectionDone(s) ==
  SectionShown(s) /\ \A r \in DOMAIN Object.sections[s].relocations : RelocationShown(s, r)

SectionSaid(symbol) ==
  IF D!InSection(symbol) THEN Object.sections[symbol.section_index].name ELSE D!NotSaid

SymbolShown(n) ==
  LET symbol == Object.symbols[n] IN
  /\ D!InSection(symbol) => D!HasSection(symbol)
  /\ IsPrinted(D!LineOfSymbol(n), D!SymbolLine(symbol, SectionSaid(symbol)))

(* How far the loops are, and that all lines in front are printed.          *)
InSections ==
  /\ dump_i \in 1 .. Len(Object.sections) + 1 /\ dump_ri = 1
  /\ Len(lines) = D!LinesUpto(dump_i - 1)
  /\ \A s \in 1 .. dump_i - 1 : SectionDone(s)

InRelocations ==
  /\ dump_i \in DOMAIN Object.sections
  /\ dump_ri \in 1 .. Len(Object.sections[dump_i].relocations) + 1
  /\ Len(lines) = D!LinesUpto(dump_i - 1) + dump_ri
  /\ \A s \in 1 .. dump_i - 1 : SectionDone(s)
  /\ SectionShown(dump_i) /\ \A r \in 1 .. dump_ri - 1 : RelocationShown(dump_i, r)

InSymbols ==
  /\ dump_i \in 1 .. Len(Object.symbols) + 1 /\ dump_ri = 1
  /\ Len(lines) = D!LinesUpto(Len(Object.sections)) + dump_i - 1
  /\ \A s \in DOMAIN Object.sections : SectionDone(s)
  /\ \A n \in 1 .. dump_i - 1 : SymbolShown(n)

DumpSoFar ==
  /\ \E T : lines \in Seq(T)
  /\ \/ dump_pc = "sections" /\ InSections
     \/ dump_pc = "relocations" /\ InRelocations
     \/ dump_pc = "symbols" /\ InSymbols
     \/ dump_pc = "done" /\ InSymbols /\ dump_i = Len(Object.symbols) + 1
     \/ /\ dump_pc = "undefined" /\ ~ D!WellFormed
        /\ dump_i \in 1 .. Len(Object.sections) + Len(Object.symbols) + 1

(* Nothing is printed before there is an object.                            *)
DumpInvariant ==
  /\ pc \in {"open", "object", "header", "sections", "symbols", "strings", "relocations"} => D!Init
  /\ Parsed => DumpSoFar

(* The dump starts with nothing printed, and that is so far right.          *)
LEMMA DumpStarts == ObjectShape /\ D!Init => DumpSoFar
<1> SUFFICES ASSUME ObjectShape, D!Init PROVE DumpSoFar
  OBVIOUS
<1>1. lines = << >> /\ dump_i = 1 /\ dump_ri = 1 /\ dump_pc = "sections"
  BY DEF D!Init
<1>2. lines \in Seq({}) /\ Len(lines) = 0
  BY <1>1
<1>3. Len(Object.sections) \in Nat /\ D!LinesUpto(0) = 0
  BY LinesAddUp DEF ObjectShape
<1>4. InSections
  BY <1>1, <1>2, <1>3 DEF InSections
<1>5. QED
  BY <1>1, <1>2, <1>4 DEF DumpSoFar

(* The dump does not change the object, so a line belongs where it did.     *)
SameObject == Object' = Object

LEMMA LinesStay ==
  ASSUME SameObject
  PROVE  /\ \A s : D!LinesUpto(s)' = D!LinesUpto(s)
         /\ \A s : D!LineOfSection(s)' = D!LineOfSection(s)
         /\ \A s, r : D!LineOfRelocation(s, r)' = D!LineOfRelocation(s, r)
         /\ \A n : D!LineOfSymbol(n)' = D!LineOfSymbol(n)
         /\ \A symbol : D!HasSection(symbol)' = D!HasSection(symbol)
         /\ \A symbol : D!SectionPrinted(symbol)' = D!SectionPrinted(symbol)
<1>1. \A s : D!LinesUpto(s)' = D!LinesUpto(s)
  BY DEF D!LinesUpto, SameObject
<1>2. \A s : D!LineOfSection(s)' = D!LineOfSection(s)
  BY <1>1 DEF D!LineOfSection
<1>3. \A s, r : D!LineOfRelocation(s, r)' = D!LineOfRelocation(s, r)
  BY <1>2 DEF D!LineOfRelocation
<1>4. \A n : D!LineOfSymbol(n)' = D!LineOfSymbol(n)
  BY <1>1 DEF D!LineOfSymbol, SameObject
<1>5. \A symbol : D!HasSection(symbol)' = D!HasSection(symbol)
  BY DEF D!HasSection, SameObject
<1>6. \A symbol : D!SectionPrinted(symbol)' = D!SectionPrinted(symbol)
  BY <1>5 DEF D!SectionPrinted, SameObject
<1>7. QED
  BY <1>1, <1>2, <1>3, <1>4, <1>5, <1>6

(* What is printed stays printed: a step appends a line or none.            *)
LEMMA PrintedStays ==
  ASSUME SameObject, NEW T, lines \in Seq(T), NEW line,
         lines' = lines \/ lines' = Append(lines, line)
  PROVE  /\ lines' \in Seq(T \union {line})
         /\ \A s : SectionShown(s) => SectionShown(s)'
         /\ \A s, r : RelocationShown(s, r) => RelocationShown(s, r)'
         /\ \A s : SectionDone(s) => SectionDone(s)'
         /\ \A n : SymbolShown(n) => SymbolShown(n)'
<1>1. lines' \in Seq(T \union {line})
  OBVIOUS
<1>2. ASSUME NEW CONSTANT n, NEW CONSTANT printed, IsPrinted(n, printed)
      PROVE  IsPrinted(n, printed)'
  BY <1>2 DEF IsPrinted
<1>3. ASSUME NEW CONSTANT s, SectionShown(s)
      PROVE  SectionShown(s)'
  BY <1>2, <1>3, LinesStay DEF SectionShown, SameObject
<1>4. ASSUME NEW CONSTANT s, NEW CONSTANT r, RelocationShown(s, r)
      PROVE  RelocationShown(s, r)'
  BY <1>2, <1>4, LinesStay DEF RelocationShown, SameObject
<1>5. ASSUME NEW CONSTANT s, SectionDone(s)
      PROVE  SectionDone(s)'
  BY <1>3, <1>4, <1>5 DEF SectionDone, SameObject
<1>6. ASSUME NEW CONSTANT n, SymbolShown(n)
      PROVE  SymbolShown(n)'
  BY <1>2, <1>6, LinesStay DEF SymbolShown, SectionSaid, SameObject
<1>7. QED
  BY <1>1, <1>3, <1>4, <1>5, <1>6

-------------------------------------------------------------------------------
(* Step by step, where the loops are then and what is printed: a section,   *)
LEMMA SectionIsPrinted ==
  ASSUME ObjectShape, SameObject, DumpSoFar, D!PrintSection
  PROVE  DumpSoFar'
<1>1. PICK T : lines \in Seq(T)
  BY DEF DumpSoFar
<1>2. /\ InSections /\ dump_i <= Len(Object.sections) /\ dump_pc' = "relocations"
      /\ dump_i' = dump_i /\ dump_ri' = dump_ri
  BY DEF D!PrintSection, DumpSoFar
<1> DEFINE line == D!SectionLine(Object.sections[dump_i])
<1>3. lines' = Append(lines, line)
  BY DEF D!PrintSection, D!log
<1>4. /\ dump_i \in DOMAIN Object.sections /\ dump_i \in Nat /\ dump_ri = 1
      /\ Len(Object.sections[dump_i].relocations) \in Nat
  BY <1>2 DEF InSections, ObjectShape
<1>5. /\ D!LinesUpto(dump_i - 1) \in Nat /\ Len(lines) = D!LinesUpto(dump_i - 1)
      /\ D!LineOfSection(dump_i) = D!LinesUpto(dump_i - 1) + 1
  BY <1>2, <1>4, LinesAddUp DEF InSections, D!LineOfSection
<1> HIDE DEF line
<1>6. /\ Len(lines') = Len(lines) + 1 /\ lines'[Len(lines) + 1] = line
      /\ lines' \in Seq(T \union {line})
  BY <1>1, <1>3
<1>7. SectionShown(dump_i)'
  BY <1>2, <1>5, <1>6, LinesStay DEF SectionShown, IsPrinted, SameObject, line
<1>8. \A s \in 1 .. dump_i - 1 : SectionDone(s)'
  <2>1. \A s : SectionDone(s) => SectionDone(s)'
    BY <1>1, <1>3, PrintedStays
  <2>2. QED
    BY <1>2, <2>1 DEF InSections
<1>9. InRelocations'
  BY <1>2, <1>4, <1>5, <1>6, <1>7, <1>8, LinesStay DEF InRelocations, SameObject
<1>10. QED
  BY <1>2, <1>6, <1>9 DEF DumpSoFar

(* ... a relocation, or an index of no symbol.                              *)
LEMMA RelocationIsPrinted ==
  ASSUME ObjectShape, SameObject, DumpSoFar, D!PrintRelocation
  PROVE  DumpSoFar'
<1>1. PICK T : lines \in Seq(T)
  BY DEF DumpSoFar
<1>2. InRelocations
  BY DEF D!PrintRelocation, DumpSoFar
<1>3. PICK k : k = dump_i
  OBVIOUS
<1>4. PICK q : q = dump_ri
  OBVIOUS
<1> DEFINE listed == Object.sections[k].relocations
           index == listed[q].symbol_index
           symbol == Object.symbols[index]
           line == D!RelocationLine(symbol, D!SectionPrinted(symbol))
<1>5. /\ k \in DOMAIN Object.sections /\ k \in 1 .. Len(Object.sections)
      /\ Len(Object.sections) \in Nat /\ Len(Object.symbols) \in Nat
      /\ q \in 1 .. Len(listed) /\ Len(listed) \in Nat /\ q \in DOMAIN listed
  <2>1. /\ k \in DOMAIN Object.sections /\ q \in 1 .. Len(listed) + 1 /\ q <= Len(listed)
    BY <1>2, <1>3, <1>4 DEF InRelocations, D!PrintRelocation, D!Relocations
  <2>2. /\ k \in 1 .. Len(Object.sections)
        /\ Len(Object.sections) \in Nat /\ Len(Object.symbols) \in Nat
        /\ Len(listed) \in Nat /\ DOMAIN listed = 1 .. Len(listed)
    BY <2>1 DEF ObjectShape
  <2> HIDE DEF listed
  <2>3. QED
    BY <2>1, <2>2
<1>6. CASE index \notin DOMAIN Object.symbols
  <2>1. dump_pc' = "undefined" /\ dump_i' = k /\ lines' = lines
    BY <1>3, <1>4, <1>6 DEF D!PrintRelocation, D!Undefined, D!Relocations
  <2>2. ~ D!WellFormed
    BY <1>5, <1>6 DEF D!WellFormed
  <2>3. D!WellFormed' <=> D!WellFormed
    BY LinesStay DEF D!WellFormed, SameObject
  <2>4. k \in 1 .. Len(Object.sections) + Len(Object.symbols) + 1
    <3>1. \A m, n \in Nat : \A j \in 1 .. m : j \in 1 .. m + n + 1
      OBVIOUS
    <3>2. QED
      BY <1>5, <3>1
  <2>5. QED
    BY <1>1, <2>1, <2>2, <2>3, <2>4 DEF DumpSoFar, SameObject
<1>7. CASE index \in DOMAIN Object.symbols
  <2>1. /\ lines' = Append(lines, line) /\ dump_ri' = q + 1
        /\ dump_i' = k /\ dump_pc' = "relocations"
    BY <1>3, <1>4, <1>7 DEF D!PrintRelocation, D!Relocations, D!log, D!Undefined
  <2>2. /\ D!LinesUpto(k - 1) \in Nat /\ Len(lines) = D!LinesUpto(k - 1) + q
        /\ D!LineOfRelocation(k, q) = D!LinesUpto(k - 1) + 1 + q
    BY <1>2, <1>3, <1>4, <1>5, LinesAddUp DEF InRelocations, D!LineOfSection, D!LineOfRelocation
  <2> HIDE DEF line
  <2>3. /\ \A s : SectionShown(s) => SectionShown(s)'
        /\ \A s, r : RelocationShown(s, r) => RelocationShown(s, r)'
        /\ \A s : SectionDone(s) => SectionDone(s)'
    BY <1>1, <2>1, PrintedStays
  <2>4. /\ Len(lines') = Len(lines) + 1 /\ lines'[Len(lines) + 1] = line
        /\ lines' \in Seq(T \union {line})
    BY <1>1, <2>1
  <2>5. /\ SectionShown(k)' /\ \A s \in 1 .. k - 1 : SectionDone(s)'
        /\ \A r \in 1 .. q - 1 : RelocationShown(k, r)'
    BY <1>2, <1>3, <1>4, <2>3 DEF InRelocations
  <2>6. RelocationShown(k, q)'
    <3>1. D!LineOfRelocation(k, q) \in 1 .. Len(lines') /\ lines'[D!LineOfRelocation(k, q)] = line
      BY <1>5, <2>2, <2>4
    <3>2. QED
      BY <1>7, <3>1, LinesStay DEF RelocationShown, IsPrinted, SameObject, line
  <2>7. \A r \in 1 .. q : RelocationShown(k, r)'
    <3>1. \A r \in 1 .. q : r = q \/ r \in 1 .. q - 1
      BY <1>5
    <3>2. QED
      BY <2>5, <2>6, <3>1
  <2>8. InRelocations'
    <3>1. /\ D!LinesUpto(k - 1)' = D!LinesUpto(k - 1)
          /\ Len(lines') = D!LinesUpto(k - 1) + (q + 1)
      BY <1>5, <2>2, <2>4, LinesStay
    <3>2. q + 1 \in 1 .. Len(listed) + 1 /\ 1 .. q + 1 - 1 = 1 .. q
      BY <1>5
    <3>3. QED
      BY <1>5, <2>1, <2>5, <2>7, <3>1, <3>2 DEF InRelocations, SameObject
  <2>9. QED
    BY <2>1, <2>4, <2>8 DEF DumpSoFar
<1>8. QED
  BY <1>6, <1>7

(* ... the end of a section's relocations, and of the sections.             *)
LEMMA SectionEnds ==
  ASSUME ObjectShape, SameObject, DumpSoFar, D!EndSection \/ D!EndSections
  PROVE  DumpSoFar'
<1>1. PICK T : lines \in Seq(T)
  BY DEF DumpSoFar
<1>2. lines' = lines
  BY DEF D!EndSection, D!EndSections
<1>3. PICK k : k = dump_i
  OBVIOUS
<1>4. \A s : SectionDone(s) => SectionDone(s)'
  BY <1>1, <1>2, PrintedStays
<1>5. CASE D!EndSection
  <2> DEFINE n == Len(Object.sections[k].relocations)
  <2>1. /\ InRelocations /\ dump_ri > n
        /\ dump_i' = k + 1 /\ dump_ri' = 1 /\ dump_pc' = "sections"
    BY <1>3, <1>5 DEF D!EndSection, D!Relocations, D!FirstRelocation, DumpSoFar
  <2>2. /\ k \in DOMAIN Object.sections /\ k \in 1 .. Len(Object.sections)
        /\ Len(Object.sections) \in Nat /\ n \in Nat
        /\ DOMAIN Object.sections[k].relocations = 1 .. n
    BY <1>3, <2>1 DEF InRelocations, ObjectShape
  <2> HIDE DEF n
  <2>3. dump_ri = n + 1
    BY <1>3, <2>1, <2>2 DEF InRelocations, n
  <2>4. Len(lines) = D!LinesUpto(k)
    <3>1. /\ D!LinesUpto(k - 1) \in Nat /\ D!LinesUpto(k) = D!LinesUpto(k - 1) + 1 + n
          /\ Len(lines) = D!LinesUpto(k - 1) + (n + 1)
      BY <1>3, <2>1, <2>2, <2>3, LinesAddUp DEF InRelocations, n
    <3>2. \A u, v \in Nat : u + 1 + v = u + (v + 1)
      OBVIOUS
    <3>3. QED
      BY <2>2, <3>1, <3>2
  <2>5. 1 .. dump_ri - 1 = 1 .. n
    BY <2>2, <2>3
  <2>6. SectionDone(k)
    BY <1>3, <2>1, <2>2, <2>5 DEF InRelocations, SectionDone
  <2>7. \A s \in 1 .. k - 1 : SectionDone(s)
    BY <1>3, <2>1 DEF InRelocations
  <2>8. \A s \in 1 .. k : s = k \/ s \in 1 .. k - 1
    BY <2>2
  <2>9. \A s \in 1 .. k : SectionDone(s)'
    BY <1>4, <2>6, <2>7, <2>8
  <2>10. k + 1 - 1 = k /\ k + 1 \in 1 .. Len(Object.sections) + 1
    BY <2>2
  <2>11. InSections'
    <3>1. D!LinesUpto(k)' = D!LinesUpto(k)
      BY LinesStay
    <3>2. dump_i' - 1 = k
      BY <2>1, <2>2
    <3>3. Len(lines') = D!LinesUpto(dump_i - 1)'
      BY <1>2, <2>4, <3>1, <3>2
    <3>4. \A s \in 1 .. dump_i' - 1 : SectionDone(s)'
      BY <2>9, <3>2
    <3>5. dump_i' \in 1 .. Len(Object'.sections) + 1 /\ dump_ri' = 1
      BY <2>1, <2>10 DEF SameObject
    <3>6. QED
      BY <3>3, <3>4, <3>5 DEF InSections
  <2>12. QED
    BY <1>1, <1>2, <2>1, <2>11 DEF DumpSoFar
<1>6. CASE D!EndSections
  <2>1. /\ InSections /\ dump_i > Len(Object.sections)
        /\ dump_i' = 1 /\ dump_ri' = dump_ri /\ dump_pc' = "symbols"
    BY <1>6 DEF D!EndSections, DumpSoFar
  <2>2. /\ Len(Object.sections) \in Nat /\ Len(Object.symbols) \in Nat
        /\ DOMAIN Object.sections = 1 .. Len(Object.sections)
    BY DEF ObjectShape
  <2>3. dump_i - 1 = Len(Object.sections)
    BY <2>1, <2>2 DEF InSections
  <2>4. /\ Len(lines) = D!LinesUpto(Len(Object.sections)) /\ dump_ri = 1
        /\ \A s \in DOMAIN Object.sections : SectionDone(s)
    BY <2>1, <2>2, <2>3 DEF InSections
  <2>5. \A s \in DOMAIN Object.sections : SectionDone(s)'
    BY <1>4, <2>4
  <2>6. /\ Len(lines) = D!LinesUpto(Len(Object.sections)) + 1 - 1
        /\ 1 \in 1 .. Len(Object.symbols) + 1 /\ 1 .. 1 - 1 = {}
    BY <2>2, <2>4, LinesAddUp
  <2>7. InSymbols'
    BY <1>2, <2>1, <2>4, <2>5, <2>6, LinesStay DEF InSymbols, SameObject
  <2>8. QED
    BY <1>1, <1>2, <2>1, <2>7 DEF DumpSoFar
<1>7. QED
  BY <1>5, <1>6

(* ... a symbol, or an index of no section.                                 *)
LEMMA SymbolIsPrinted ==
  ASSUME ObjectShape, SameObject, DumpSoFar, D!PrintSymbol
  PROVE  DumpSoFar'
<1>1. PICK T : lines \in Seq(T)
  BY DEF DumpSoFar
<1>2. InSymbols
  BY DEF D!PrintSymbol, DumpSoFar
<1>3. PICK k : k = dump_i
  OBVIOUS
<1> DEFINE symbol == Object.symbols[k]
           line == D!SymbolLine(symbol, SectionSaid(symbol))
<1>4. /\ k \in DOMAIN Object.symbols /\ k \in 1 .. Len(Object.symbols)
      /\ Len(Object.sections) \in Nat /\ Len(Object.symbols) \in Nat
  BY <1>2, <1>3 DEF InSymbols, ObjectShape, D!PrintSymbol
<1>5. CASE D!InSection(symbol) /\ ~ D!HasSection(symbol)
  <2>1. dump_pc' = "undefined" /\ dump_i' = k /\ lines' = lines
    BY <1>3, <1>5 DEF D!PrintSymbol, D!Undefined
  <2>2. ~ D!WellFormed
    BY <1>4, <1>5 DEF D!WellFormed, D!InSection
  <2>3. D!WellFormed' <=> D!WellFormed
    BY LinesStay DEF D!WellFormed, SameObject
  <2>4. k \in 1 .. Len(Object.sections) + Len(Object.symbols) + 1
    <3>1. \A m, n \in Nat : \A j \in 1 .. n : j \in 1 .. m + n + 1
      OBVIOUS
    <3>2. QED
      BY <1>4, <3>1
  <2>5. QED
    BY <1>1, <2>1, <2>2, <2>3, <2>4 DEF DumpSoFar, SameObject
<1>6. CASE D!InSection(symbol) => D!HasSection(symbol)
  <2>1. /\ lines' = Append(lines, line) /\ dump_ri' = dump_ri
        /\ dump_i' = k + 1 /\ dump_pc' = "symbols"
    BY <1>3, <1>6 DEF D!PrintSymbol, D!log, D!Undefined, SectionSaid
  <2>2. /\ D!LinesUpto(Len(Object.sections)) \in Nat
        /\ Len(lines) = D!LinesUpto(Len(Object.sections)) + k - 1
        /\ D!LineOfSymbol(k) = D!LinesUpto(Len(Object.sections)) + k
    BY <1>2, <1>3, LinesAddUp DEF InSymbols, D!LineOfSymbol
  <2> HIDE DEF line
  <2>3. /\ \A s : SectionDone(s) => SectionDone(s)'
        /\ \A n : SymbolShown(n) => SymbolShown(n)'
    BY <1>1, <2>1, PrintedStays
  <2>4. /\ Len(lines') = Len(lines) + 1 /\ lines'[Len(lines) + 1] = line
        /\ lines' \in Seq(T \union {line}) /\ Len(lines) \in Nat
    BY <1>1, <2>1
  <2>5. /\ \A s \in DOMAIN Object.sections : SectionDone(s)'
        /\ \A n \in 1 .. k - 1 : SymbolShown(n)'
    BY <1>2, <1>3, <2>3 DEF InSymbols
  <2>6. SymbolShown(k)'
    <3>1. D!LineOfSymbol(k) \in 1 .. Len(lines') /\ lines'[D!LineOfSymbol(k)] = line
      BY <1>4, <2>2, <2>4
    <3>2. QED
      BY <1>6, <3>1, LinesStay DEF SymbolShown, IsPrinted, SectionSaid, SameObject, line
  <2>7. \A n \in 1 .. k : SymbolShown(n)'
    <3>1. \A n \in 1 .. k : n = k \/ n \in 1 .. k - 1
      BY <1>4
    <3>2. QED
      BY <2>5, <2>6, <3>1
  <2>8. InSymbols'
    <3>1. /\ D!LinesUpto(Len(Object.sections))' = D!LinesUpto(Len(Object.sections))
          /\ Len(lines') = D!LinesUpto(Len(Object.sections)) + (k + 1) - 1
      BY <1>4, <2>2, <2>4, LinesStay DEF SameObject
    <3>2. k + 1 \in 1 .. Len(Object.symbols) + 1 /\ 1 .. k + 1 - 1 = 1 .. k
      BY <1>4
    <3>3. dump_ri' = 1
      BY <1>2, <2>1 DEF InSymbols
    <3>4. \A n \in 1 .. dump_i' - 1 : SymbolShown(n)'
      <4>1. dump_i' - 1 = k
        BY <1>4, <2>1
      <4>2. QED
        BY <2>7, <4>1
    <3>5. QED
      BY <2>1, <2>5, <3>1, <3>2, <3>3, <3>4 DEF InSymbols, SameObject
  <2>9. QED
    BY <2>1, <2>4, <2>8 DEF DumpSoFar
<1>7. QED
  BY <1>5, <1>6

(* ... the end of the symbols.                                              *)
LEMMA DumpEnds ==
  ASSUME ObjectShape, SameObject, DumpSoFar, D!EndSymbols
  PROVE  DumpSoFar'
<1>1. PICK T : lines \in Seq(T)
  BY DEF DumpSoFar
<1>2. /\ InSymbols /\ dump_i > Len(Object.symbols) /\ dump_pc' = "done"
      /\ UNCHANGED << dump_i, dump_ri, lines >>
  BY DEF D!EndSymbols, D!AllSymbols, DumpSoFar
<1>3. dump_i = Len(Object.symbols) + 1
  BY <1>2 DEF InSymbols, ObjectShape
<1>4. /\ \A s : SectionDone(s) => SectionDone(s)'
      /\ \A n : SymbolShown(n) => SymbolShown(n)'
  BY <1>1, <1>2, PrintedStays
<1>5. InSymbols'
  BY <1>2, <1>4, LinesStay DEF InSymbols, SameObject
<1>6. QED
  BY <1>1, <1>2, <1>3, <1>5 DEF DumpSoFar, SameObject

-------------------------------------------------------------------------------
(* A step that leaves the dump and its object alone.                        *)
LEMMA DumpStays ==
  ASSUME SameObject, DumpSoFar, UNCHANGED dump_vars
  PROVE  DumpSoFar'
<1>1. PICK T : lines \in Seq(T)
  BY DEF DumpSoFar
<1>2. UNCHANGED << dump_i, dump_ri, lines, dump_pc >>
  BY DEF dump_vars
<1>3. /\ \A s : SectionShown(s) => SectionShown(s)'
      /\ \A s, r : RelocationShown(s, r) => RelocationShown(s, r)'
      /\ \A s : SectionDone(s) => SectionDone(s)'
      /\ \A n : SymbolShown(n) => SymbolShown(n)'
  BY <1>1, <1>2, PrintedStays
<1>4. InSections => InSections'
  BY <1>2, <1>3, LinesStay DEF InSections, SameObject
<1>5. InRelocations => InRelocations'
  BY <1>2, <1>3, LinesStay DEF InRelocations, SameObject
<1>6. InSymbols => InSymbols'
  BY <1>2, <1>3, LinesStay DEF InSymbols, SameObject
<1>7. D!WellFormed' <=> D!WellFormed
  BY LinesStay DEF D!WellFormed, SameObject
<1>8. QED
  BY <1>1, <1>2, <1>4, <1>5, <1>6, <1>7 DEF DumpSoFar, SameObject

(* The steps together: the object stays as it is while it is dumped.        *)
LEMMA DumpKept ==
  ASSUME ParserInvariant, DumpInvariant, [DumpFileNext]_<< vars, meaning, dump_vars >>
  PROVE  DumpInvariant'
<1>1. ParserInvariant'
  BY ParserKept DEF DumpFileNext, ParseFile, DumpObject, FreeDumped, Next
<1>2. ParserInvariant' /\ Parsed' => ObjectShape'
  BY ObjectFacts, PTL
<1>3. ObjectShape' /\ D!Init' => DumpSoFar'
  BY DumpStarts, PTL
<1>4. CASE ParseFile
  <2>1. Next /\ pc # "parsed" /\ UNCHANGED dump_vars
    BY <1>4 DEF ParseFile
  <2>2. /\ pc' \in {"open", "object", "header", "sections", "symbols", "strings", "relocations",
                    "parsed"}
             => pc \in {"open", "object", "header", "sections", "symbols", "strings",
                        "relocations"}
    BY <2>1 DEF Next, Open, AllocateObject, ReadHeader, ReadSections, ReadSymbols, ReadStrings,
                ReadRelocations, Close, FreeObject, Cleanup, Crash, Unallocated
  <2>3. D!Init => D!Init'
    BY <2>1 DEF D!Init, dump_vars
  <2>4. QED
    BY <1>1, <1>2, <1>3, <2>2, <2>3 DEF DumpInvariant, Parsed
<1>5. CASE DumpObject
  <2>1. /\ pc = "parsed" /\ pc' = "parsed" /\ UNCHANGED << vars, meaning >> /\ D!Next
    BY <1>5 DEF DumpObject, vars
  <2>2. SameObject /\ ObjectShape /\ DumpSoFar
    BY <2>1, ObjectFacts DEF SameObject, Object, vars, tables, Parsed, DumpInvariant
  <2>3. DumpSoFar'
    BY <2>1, <2>2, SectionIsPrinted, RelocationIsPrinted, SectionEnds, SymbolIsPrinted, DumpEnds
       DEF D!Next
  <2>4. QED
    BY <2>1, <2>3 DEF DumpInvariant
<1>6. CASE FreeDumped
  BY <1>6 DEF FreeDumped, FreeObject, DumpInvariant, Parsed
<1>7. CASE UNCHANGED << vars, meaning, dump_vars >>
  <2>1. SameObject /\ pc' = pc /\ UNCHANGED dump_vars
    BY <1>7 DEF SameObject, Object, vars, tables
  <2>2. D!Init => D!Init'
    BY <2>1 DEF D!Init, dump_vars
  <2>3. QED
    BY <2>1, <2>2, DumpStays DEF DumpInvariant, Parsed
<1>8. QED
  BY <1>4, <1>5, <1>6, <1>7 DEF DumpFileNext

(* What the lines are when the dump is at its end.                          *)
LEMMA DumpedWhole ==
  ASSUME ObjectShape, DumpSoFar, dump_pc = "done"
  PROVE  /\ Len(lines) = D!LineOfSymbol(Len(Object.symbols))
         /\ \A s \in DOMAIN Object.sections : SectionDone(s)
         /\ \A n \in DOMAIN Object.symbols : SymbolShown(n)
<1>1. InSymbols /\ dump_i = Len(Object.symbols) + 1
  BY DEF DumpSoFar
<1>2. /\ Len(Object.symbols) \in Nat /\ DOMAIN Object.symbols = 1 .. Len(Object.symbols)
      /\ D!LinesUpto(Len(Object.sections)) \in Nat
  BY LinesAddUp DEF ObjectShape
<1>3. dump_i - 1 = Len(Object.symbols)
  BY <1>1, <1>2
<1>4. \A n \in DOMAIN Object.symbols : SymbolShown(n)
  BY <1>1, <1>2, <1>3 DEF InSymbols
<1>5. Len(lines) = D!LinesUpto(Len(Object.sections)) + Len(Object.symbols)
  BY <1>1, <1>2 DEF InSymbols
<1>6. QED
  BY <1>1, <1>4, <1>5 DEF InSymbols, D!LineOfSymbol

(* From there to the properties of Dump, one by one.                        *)
LEMMA DumpTypes == ObjectShape /\ DumpSoFar => D!TypeOK
<1> SUFFICES ASSUME ObjectShape, DumpSoFar PROVE D!TypeOK
  OBVIOUS
<1> DEFINE N == Len(Object.sections)
           M == Len(Object.symbols)
<1>1. N \in Nat /\ M \in Nat /\ DOMAIN Object.sections = 1 .. N
  BY DEF ObjectShape
<1> HIDE DEF N, M
<1>2. /\ \A k \in 1 .. N + 1 : k \in 1 .. N + M + 1
      /\ \A k \in 1 .. N : k \in 1 .. N + M + 1
      /\ \A k \in 1 .. M + 1 : k \in 1 .. N + M + 1
  BY <1>1
<1>3. dump_i \in 1 .. N + M + 1
  BY <1>1, <1>2 DEF DumpSoFar, InSections, InRelocations, InSymbols, N, M
<1>4. QED
  BY <1>3 DEF D!TypeOK, DumpSoFar, InSections, InRelocations, InSymbols, N, M

(* What a line shows; and all lines of a dump at its end show what they     *)
(* should.                                                                  *)
LEMMA LinesShow ==
  /\ \A n, section : lines[n] = D!SectionLine(section) => D!Shows(n, "section", section.name)
  /\ \A n, symbol, said :
       lines[n] = D!RelocationLine(symbol, said) => D!Shows(n, "relocation", symbol.name)
  /\ \A n, symbol, said : lines[n] = D!SymbolLine(symbol, said) => D!Shows(n, "symbol", symbol.name)
BY DEF D!Shows, D!SectionLine, D!RelocationLine, D!SymbolLine

LEMMA DumpIsWhole == ObjectShape /\ DumpSoFar => D!DumpIsComplete
<1> SUFFICES ASSUME ObjectShape, DumpSoFar, dump_pc = "done" PROVE D!DumpIsComplete
  BY DEF D!DumpIsComplete
<1>0. /\ Len(lines) = D!LineOfSymbol(Len(Object.symbols))
      /\ \A s \in DOMAIN Object.sections : SectionDone(s)
      /\ \A n \in DOMAIN Object.symbols : SymbolShown(n)
  BY DumpedWhole
<1>1. ASSUME NEW s \in DOMAIN Object.sections
      PROVE  D!Shows(D!LineOfSection(s), "section", Object.sections[s].name)
  <2>1. lines[D!LineOfSection(s)] = D!SectionLine(Object.sections[s])
    BY <1>0 DEF SectionDone, SectionShown, IsPrinted
  <2>2. QED
    BY <2>1, LinesShow
<1>2. ASSUME NEW s \in DOMAIN Object.sections, NEW r \in DOMAIN Object.sections[s].relocations
      PROVE  D!Shows(D!LineOfRelocation(s, r), "relocation",
               Object.symbols[Object.sections[s].relocations[r].symbol_index].name)
  <2> DEFINE symbol == Object.symbols[Object.sections[s].relocations[r].symbol_index]
  <2>1. lines[D!LineOfRelocation(s, r)] = D!RelocationLine(symbol, D!SectionPrinted(symbol))
    BY <1>0 DEF SectionDone, RelocationShown, IsPrinted
  <2>2. QED
    BY <2>1, LinesShow
<1>3. ASSUME NEW n \in DOMAIN Object.symbols
      PROVE  D!Shows(D!LineOfSymbol(n), "symbol", Object.symbols[n].name)
  <2> DEFINE symbol == Object.symbols[n]
  <2>1. lines[D!LineOfSymbol(n)] = D!SymbolLine(symbol, SectionSaid(symbol))
    BY <1>0 DEF SymbolShown, IsPrinted
  <2>2. QED
    BY <2>1, LinesShow
<1>4. QED
  BY <1>0, <1>1, <1>2, <1>3 DEF D!DumpIsComplete

(* A relocation that says a section was of a global symbol, and the dump    *)
(* got past the symbol's own line, so there is such a section.              *)
LEMMA DumpAgrees == ObjectShape /\ DumpSoFar => D!LinesAgree
<1> SUFFICES ASSUME ObjectShape, DumpSoFar, dump_pc = "done",
                    NEW s \in DOMAIN Object.sections,
                    NEW r \in DOMAIN Object.sections[s].relocations
             PROVE  LET index == Object.sections[s].relocations[r].symbol_index
                        said  == lines[D!LineOfRelocation(s, r)].section
                    IN  said # D!NotSaid => said = lines[D!LineOfSymbol(index)].section
  BY DEF D!LinesAgree
<1> DEFINE index == Object.sections[s].relocations[r].symbol_index
           symbol == Object.symbols[index]
<1>0. SectionDone(s) /\ \A n \in DOMAIN Object.symbols : SymbolShown(n)
  BY DumpedWhole
<1>1. /\ index \in DOMAIN Object.symbols
      /\ lines[D!LineOfRelocation(s, r)].section = D!SectionPrinted(symbol)
  <2>1. /\ index \in DOMAIN Object.symbols
        /\ lines[D!LineOfRelocation(s, r)] = D!RelocationLine(symbol, D!SectionPrinted(symbol))
    BY <1>0 DEF SectionDone, RelocationShown, IsPrinted
  <2> HIDE DEF symbol, index
  <2>2. QED
    BY <2>1 DEF D!RelocationLine
<1>2. /\ D!InSection(symbol) => D!HasSection(symbol)
      /\ lines[D!LineOfSymbol(index)].section = SectionSaid(symbol)
  <2>1. /\ D!InSection(symbol) => D!HasSection(symbol)
        /\ lines[D!LineOfSymbol(index)] = D!SymbolLine(symbol, SectionSaid(symbol))
    BY <1>0, <1>1 DEF SymbolShown, IsPrinted
  <2> HIDE DEF symbol, index
  <2>2. QED
    BY <2>1 DEF D!SymbolLine
<1>3. D!SectionPrinted(symbol) # D!NotSaid => D!SectionPrinted(symbol) = SectionSaid(symbol)
  BY <1>2 DEF D!SectionPrinted, SectionSaid, D!InSection, D!BARF_SYMBOL_GLOBAL,
              D!BARF_SYMBOL_EXTERNAL
<1>4. QED
  BY <1>1, <1>2, <1>3

(* Of a file as the writers write it the object is what the file says.      *)
LEMMA DumpShowsTables == ParserInvariant /\ ObjectShape /\ DumpSoFar => ShowsItsTables
<1> SUFFICES ASSUME ParserInvariant, ObjectShape, DumpSoFar, Parsed, AsWritten, dump_pc = "done"
             PROVE  ShowsItsTables
  BY DEF ShowsItsTables
<1> DEFINE the_sections == TableOf("sections").entries
           the_symbols  == TableOf("symbols").entries
           name(n)      == meaning.symbols[the_symbols[n]].name
<1>1. /\ sections = the_sections /\ symbols = the_symbols
      /\ \A s \in DOMAIN sections : relocations[s] = Listed(s)
  BY WhatIsWrittenIsRead DEF WrittenIsRead, Parsed
<1>2. D!DumpIsComplete
  BY DumpIsWhole
<1>3. /\ DOMAIN Object.symbols = DOMAIN the_symbols
      /\ \A n : n \in DOMAIN the_symbols => Object.symbols[n].name = name(n)
  BY <1>1 DEF Object
<1>4. DOMAIN Object.sections = DOMAIN the_sections
  BY <1>1 DEF Object
<1>5. ASSUME NEW s \in DOMAIN the_sections
      PROVE  /\ Object.sections[s].name = meaning.sections[the_sections[s]].name
             /\ DOMAIN Object.sections[s].relocations = DOMAIN Listed(s)
             /\ \A r \in DOMAIN Listed(s) :
                  Object.sections[s].relocations[r].symbol_index
                    = meaning.relocations[Listed(s)[r]]
  BY <1>1 DEF Object
<1>6. ASSUME NEW n \in DOMAIN the_symbols
      PROVE  D!Shows(D!LineOfSymbol(n), "symbol", name(n))
  BY <1>2, <1>3 DEF D!DumpIsComplete
<1>7. ASSUME NEW s \in DOMAIN the_sections
      PROVE  D!Shows(D!LineOfSection(s), "section", meaning.sections[the_sections[s]].name)
  BY <1>2, <1>4, <1>5 DEF D!DumpIsComplete
<1>8. ASSUME NEW s \in DOMAIN the_sections, NEW r \in DOMAIN Listed(s)
      PROVE  D!Shows(D!LineOfRelocation(s, r), "relocation",
                     name(meaning.relocations[Listed(s)[r]]))
  <2> DEFINE index == meaning.relocations[Listed(s)[r]]
  <2>1. /\ s \in DOMAIN Object.sections /\ r \in DOMAIN Object.sections[s].relocations
        /\ Object.sections[s].relocations[r].symbol_index = index
    BY <1>4, <1>5
  <2>2. index \in DOMAIN Object.symbols
    BY <2>1, DumpedWhole DEF SectionDone, RelocationShown
  <2>3. D!Shows(D!LineOfRelocation(s, r), "relocation", Object.symbols[index].name)
    BY <1>2, <2>1 DEF D!DumpIsComplete
  <2>4. QED
    BY <1>3, <2>2, <2>3
<1>9. QED
  BY <1>6, <1>7, <1>8 DEF ShowsItsTables

(* For every file, whatever its entries say: a dump that gets to its end    *)
(* has a line for all that is in the object, at its place, and no other     *)
(* line; a relocation agrees with its symbol's own line; the dump gets to   *)
(* its end for every well-formed object; and for a file of the writers it   *)
(* has printed that file's tables (format.c:149-207).                       *)
THEOREM DumpShows == DumpFileSpec => []DumpShowsTheFile
<1>1. DumpFileInit => ParserInvariant /\ DumpInvariant
  BY ParserStarts DEF DumpFileInit, DumpInvariant, Init, Parsed
<1>2. ParserInvariant /\ DumpInvariant /\ [DumpFileNext]_<< vars, meaning, dump_vars >>
        => ParserInvariant' /\ DumpInvariant'
  <2> SUFFICES ASSUME ParserInvariant, DumpInvariant,
                      [DumpFileNext]_<< vars, meaning, dump_vars >>
               PROVE  ParserInvariant' /\ DumpInvariant'
    OBVIOUS
  <2>1. [Next]_vars
    BY DEF DumpFileNext, ParseFile, DumpObject, FreeDumped, Next
  <2>2. ParserInvariant'
    BY <2>1, ParserKept
  <2>3. DumpInvariant'
    BY DumpKept
  <2>4. QED
    BY <2>2, <2>3
<1>3. ParserInvariant /\ DumpInvariant => DumpShowsTheFile
  <2> SUFFICES ASSUME ParserInvariant, DumpInvariant PROVE DumpShowsTheFile
    OBVIOUS
  <2>1. CASE Parsed
    <3>1. ObjectShape /\ DumpSoFar
      BY <2>1, ObjectFacts DEF DumpInvariant
    <3>2. D!WellFormedIsDumped
      BY <3>1 DEF D!WellFormedIsDumped, DumpSoFar
    <3>3. QED
      BY <3>1, <3>2, DumpTypes, DumpIsWhole, DumpAgrees, DumpShowsTables DEF DumpShowsTheFile
  <2>2. CASE ~ Parsed
    BY <2>2 DEF DumpShowsTheFile, ShowsItsTables
  <2>3. QED
    BY <2>1, <2>2
<1>4. QED
  BY <1>1, <1>2, <1>3, PTL DEF DumpFileSpec
===============================================================================
