---------------------------------- MODULE Pages ----------------------------------
(***************************************************************************)
(* mem__map, mem__mapflag and mem__unmap, src/platform/platform.c:145-201, *)
(* over the pages of the process, on both systems: sizes are rounded up to *)
(* whole pages by 64-bit arithmetic in two of the three calls, and given   *)
(* as they are to the third.                                               *)
(*                                                                         *)
(* What mmap, mprotect and munmap, and VirtualAlloc, VirtualProtect and    *)
(* VirtualFree do is taken from how the code uses them and their manuals.  *)
(* WordLimit is 2^64 there, and a multiple of PageSize.                    *)
(***************************************************************************)
EXTENDS Integers, Sequences, FiniteSets, SequencesExt

CONSTANTS
  Systems,       (* {"linux", "windows"}                                    *)
  Page,          (* the pages there are, numbered; the first is not page 0  *)
  PageSize, WordLimit,
  Sizes,         (* the sizes that sections may have                        *)
  MaxSegments    (* bound on the segments that are held at once             *)

ASSUME PageAssumption == Page \subseteq Nat \ {0} /\ IsFiniteSet(Page)
ASSUME NumbersAssumption ==
  /\ PageSize \in Nat \ {0} /\ WordLimit \in Nat /\ WordLimit % PageSize = 0
  /\ Sizes \subseteq 0 .. WordLimit - 1
  /\ MaxSegments \in Nat

NULL == 0
Free == {"free"}       \* a page that is not mapped
(* What mprotect and VirtualProtect know.                                   *)
Protection == {{"read"}, {"read", "write"}, {"read", "exec"}, {"exec"}, {"read", "write", "exec"}}
Flags == SUBSET {"MEM_WRITE", "MEM_EXEC"}

VARIABLES
  system,
  pages,       (* what each page allows, or Free                            *)
  segments     (* what the caller holds: address, size, and flags once set  *)

vars == << system, pages, segments >>

(* "set" is FALSE until mem__mapflag, "granted" unless the system then does *)
(* what it is asked.                                                        *)
Segment == [address : {NULL} \union {PageSize * p : p \in Page}, size : Sizes,
            flags : Flags, set : BOOLEAN, granted : BOOLEAN]

Init ==
  /\ system \in Systems
  /\ pages = [p \in Page |-> Free] /\ segments = << >>

(* size % page_size == 0 ? size : size + (page_size - size) % page_size     *)
AlignedSize(size) ==
  IF size % PageSize = 0 THEN size
  ELSE (size + (((PageSize - size) % WordLimit) % PageSize)) % WordLimit

(* The pages that have a byte of a range.                                   *)
PagesOf(address, size) ==
  {p \in Page : PageSize * p < address + size /\ PageSize * (p + 1) > address}

(* The size that the system is asked to map; VirtualAlloc rounds by itself. *)
SizeAsked(size) == IF system = "linux" THEN AlignedSize(size) ELSE size

(* The places with room for a range; none for a range of no bytes.          *)
Room(size) ==
  {p \in Page : /\ size > 0
                /\ \A q \in p .. p + (size - 1) \div PageSize : q \in Page /\ pages[q] = Free}

(* The system may refuse any mapping.                                       *)
mem__map(size) ==
  /\ Len(segments) < MaxSegments
  /\ \E address \in {NULL} \union {PageSize * p : p \in Room(SizeAsked(size))} :
       /\ segments' = Append(segments,
            [address |-> address, size |-> size, flags |-> {}, set |-> FALSE,
             granted |-> FALSE])
       /\ pages' = [p \in Page |->
            IF address # NULL /\ p \in PagesOf(address, SizeAsked(size))
            THEN {"read", "write"} ELSE pages[p]]
  /\ UNCHANGED system

(* On Linux code is never writable; on Windows it may be, and PAGE_EXECUTE  *)
(* is all that code is otherwise.                                           *)
Allowed(flags) ==
  CASE system = "linux" -> {"read"} \union
         (IF "MEM_EXEC" \in flags THEN {"exec"} ELSE IF "MEM_WRITE" \in flags THEN {"write"} ELSE {})
    [] system = "windows" /\ flags = {"MEM_EXEC"} -> {"exec"}
    [] OTHER -> {"read"} \union
         (IF "MEM_EXEC" \in flags THEN {"exec"} ELSE {}) \union
         (IF "MEM_WRITE" \in flags THEN {"write"} ELSE {})

(* The system may refuse any change, and does for NULL and for pages of     *)
(* which one is not mapped; a refusal is logged, and the caller never knows *)
(* of it.  The pages of a segment are one mapping: all change, or none.     *)
mem__mapflag(s, flags) ==
  LET range == PagesOf(segments[s].address, SizeAsked(segments[s].size)) IN
  /\ ~ segments[s].set
  /\ \E granted \in BOOLEAN :
       /\ granted => segments[s].address # NULL /\ \A p \in range : pages[p] # Free
       /\ segments' = [segments EXCEPT ![s].flags = flags, ![s].set = TRUE,
                                       ![s].granted = granted]
       /\ pages' = [p \in Page |-> IF granted /\ p \in range THEN Allowed(flags) ELSE pages[p]]
  /\ UNCHANGED system

(* Slip: only pages that are in the range as a whole. *)
ReleasedWhole(segment) ==
  IF system = "windows" THEN {}
  ELSE {p \in PagesOf(segment.address, segment.size) :
          PageSize * (p + 1) <= segment.address + segment.size}

(* munmap releases each page with a byte of the range.  VirtualFree is told *)
(* to release memory, for which it wants 0 as the size, and refuses.        *)
Released(segment) ==
  IF system = "windows" THEN {} ELSE PagesOf(segment.address, segment.size)

mem__unmap(s) ==
  /\ pages' = [p \in Page |->
       IF segments[s].address # NULL /\ p \in Released(segments[s]) THEN Free ELSE pages[p]]
  /\ segments' = RemoveAt(segments, s)
  /\ UNCHANGED system

Next ==
  \/ \E size \in Sizes : mem__map(size)
  \/ \E s \in DOMAIN segments, flags \in Flags : mem__mapflag(s, flags)
  \/ \E s \in DOMAIN segments : mem__unmap(s)

Spec == Init /\ [][Next]_vars
-------------------------------------------------------------------------------
TypeOK ==
  /\ system \in Systems
  /\ pages \in [Page -> Protection \union {Free}]
  /\ segments \in Seq(Segment) /\ Len(segments) <= MaxSegments

IsMapped(segment) == segment.address # NULL

Bytes(segment) == PagesOf(segment.address, segment.size)

(* A segment that was mapped is mapped to its last byte, also when its size *)
(* was rounded and when rounding it goes beyond the largest number; it can  *)
(* be read and written, until the system sets flags, and then allows what   *)
(* these ask.  A refusal leaves the whole segment as it was, never a part.  *)
SegmentsAreWhole ==
  \A s \in DOMAIN segments : LET segment == segments[s] IN
    IsMapped(segment) =>
      /\ Cardinality(Bytes(segment)) * PageSize >= segment.size
      /\ \A p \in Bytes(segment) :
           pages[p] = IF segment.granted THEN Allowed(segment.flags) ELSE {"read", "write"}

(* Two segments never share a page: flags set for one are never the other's *)
(* (platform.c:187).                                                        *)
SegmentsApart ==
  \A s, t \in DOMAIN segments :
    /\ s # t /\ IsMapped(segments[s]) /\ IsMapped(segments[t])
    => Bytes(segments[s]) \cap Bytes(segments[t]) = {}

(* On Linux no page stays mapped for nobody, although unmapping does not    *)
(* round the size (platform.c:199).                                         *)
NoPageIsLost ==
  system = "linux" =>
    \A p \in Page : pages[p] # Free =>
      \E s \in DOMAIN segments : IsMapped(segments[s]) /\ p \in Bytes(segments[s])

(* No page is ever executed that was not to be, on any system; and once the *)
(* system has set the flags none is written that was not to be.             *)
NothingUnasked ==
  \A s \in DOMAIN segments : LET segment == segments[s] IN
    IsMapped(segment) =>
      \A p \in Bytes(segment) :
        /\ "exec" \in pages[p] => segment.set /\ "MEM_EXEC" \in segment.flags
        /\ segment.granted /\ "write" \in pages[p] => "MEM_WRITE" \in segment.flags

(* Pages belong to segments: to one each, for every byte of it, as mapped   *)
(* or with the protection asked for, and to none once it is unmapped; sizes *)
(* are rounded in two of the three calls only (platform.c:151-205).         *)
PagesAreAccountedFor ==
  TypeOK /\ SegmentsAreWhole /\ SegmentsApart /\ NoPageIsLost /\ NothingUnasked
-------------------------------------------------------------------------------
(* Claims of the repository that the code does not keep.                    *)

(* docs/ba_format.md:46: a section declares that it is writable, executable *)
(* or neither.  Where the system refuses the change (platform.c:172-177,    *)
(* 188-191) it stays writable, and the caller is not told.                  *)
FlagsAreApplied ==
  \A s \in DOMAIN segments :
    IsMapped(segments[s]) /\ segments[s].set => segments[s].granted

(* docs/ba_format.md:54: "All sections are assumed to be readable."  On     *)
(* Windows code may be executed and nothing else (platform.c:165-166).      *)
SegmentsAreReadable ==
  \A s \in DOMAIN segments :
    IsMapped(segments[s]) => \A p \in Bytes(segments[s]) : "read" \in pages[p]
===============================================================================
