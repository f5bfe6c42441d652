------------------------------ MODULE HandleTable ------------------------------
(***************************************************************************)
(* The open-file table of the platform layer, src/platform/platform.c: the *)
(* array "handles" of FILE pointers, its high-water mark "handles_len",    *)
(* and the two calls that change them, fs__open and fs__close.  fs__read,  *)
(* fs__write and fs__info reach their file through handles[handle] and     *)
(* change neither variable.                                                *)
(*                                                                         *)
(* A client is a C variable that holds a handle between its fs__open and   *)
(* its fs__close ("file", "in_file", or a variable of a loaded artifact,   *)
(* which reaches the same table through the jump table).  A stream is an   *)
(* open FILE of the C library.                                             *)
(***************************************************************************)
EXTENDS Integers

CONSTANTS
  MAX_FILE_HANDLES,   (* length of the array                               *)
  Client,             (* variables that hold a handle                      *)
  Stream,             (* streams the C library can have open               *)
  NULL                (* no stream                                         *)

ASSUME CapacityAssumption == MAX_FILE_HANDLES \in Nat \ {0}
ASSUME NullAssumption == NULL \notin Stream

VARIABLES
  handles,       (* slot -> stream or NULL                                 *)
  handles_len,   (* every slot from here on is free                        *)
  streams,       (* streams opened by fopen and not yet closed by fclose   *)
  held,          (* client -> the handle it holds                          *)
  opened         (* client -> the stream its own fs__open opened (history) *)

vars == << handles, handles_len, streams, held, opened >>

Slot == 0 .. MAX_FILE_HANDLES - 1

FS_INVALID_HANDLE == -1   \* 0xFFFFFFFF in a uint32_t

Holds(c) == held[c] # FS_INVALID_HANDLE

Init ==
  /\ handles     = [h \in Slot |-> NULL]
  /\ handles_len = 0
  /\ streams     = {}
  /\ held        = [c \in Client |-> FS_INVALID_HANDLE]
  /\ opened      = [c \in Client |-> NULL]

(* fs__open, fopen succeeded and the table has room: the new stream goes to *)
(* slot handles_len, the slots freed below it are not looked at.            *)
Open(c, s) ==
  /\ handles_len < MAX_FILE_HANDLES
  /\ handles'     = [handles EXCEPT ![handles_len] = s]
  /\ handles_len' = handles_len + 1
  /\ held'        = [held EXCEPT ![c] = handles_len]
  /\ opened'      = [opened EXCEPT ![c] = s]

(* fs__open, fopen succeeded and the table is full: FS_INVALID_HANDLE is    *)
(* returned and the stream just opened stays open with nobody to close it.  *)
Refuse(c) ==
  /\ handles_len >= MAX_FILE_HANDLES
  /\ UNCHANGED << handles, handles_len, held, opened >>

fs__open(c) ==
  /\ ~Holds(c)
  /\ \E s \in Stream \ streams :
       /\ streams' = streams \union {s}
       /\ Open(c, s) \/ Refuse(c)

(* Slips: a close that gives back one slot whatever is in it, and one that  *)
(* gives back none.                                                         *)
TrimmedByOne(table, len) == len - 1
NotTrimmed(table, len) == len

(* Slip: the loop tests handles[handles_len], one slot too high. *)
TrimmedOffByOne(table, len) ==
  CHOOSE n \in 0 .. len :
    /\ n > 0 => n \in DOMAIN table /\ table[n] # NULL
    /\ \A h \in n + 1 .. len : h \in DOMAIN table => table[h] = NULL

(* The loop at the end of fs__close: give back the free slots at the top.   *)
Trimmed(table, len) ==
  CHOOSE n \in 0 .. len :
    /\ n > 0 => table[n - 1] # NULL
    /\ \A h \in n .. len - 1 : table[h] = NULL

(* Slip: a close without fclose. *)
CloseWithoutFclose(c) ==
  /\ Holds(c)
  /\ handles'     = [handles EXCEPT ![held[c]] = NULL]
  /\ handles_len' = Trimmed(handles', handles_len)
  /\ held'        = [held EXCEPT ![c] = FS_INVALID_HANDLE]
  /\ opened'      = [opened EXCEPT ![c] = NULL]
  /\ UNCHANGED streams

fs__close(c) ==
  /\ Holds(c)
  /\ streams'     = streams \ {handles[held[c]]}
  /\ handles'     = [handles EXCEPT ![held[c]] = NULL]
  /\ handles_len' = Trimmed(handles', handles_len)
  /\ held'        = [held EXCEPT ![c] = FS_INVALID_HANDLE]
  /\ opened'      = [opened EXCEPT ![c] = NULL]

Next == \E c \in Client : fs__open(c) \/ fs__close(c)

Spec == Init /\ [][Next]_vars

-------------------------------------------------------------------------------
TypeOK ==
  /\ handles \in [Slot -> Stream \union {NULL}]
  /\ handles_len \in 0 .. MAX_FILE_HANDLES
  /\ streams \subseteq Stream
  /\ held \in [Client -> Slot \union {FS_INVALID_HANDLE}]
  /\ opened \in [Client -> Stream \union {NULL}]

(* A handle reaches the stream its own fs__open opened, whatever other      *)
(* handles were opened and closed since: fs__open (platform.c:70-78) never  *)
(* hands out a slot in use, and the trimming loop of fs__close              *)
(* (platform.c:87-91) never gives one back.                                 *)
HandleReachesOwnStream ==
  \A c \in Client : Holds(c) => handles[held[c]] = opened[c]

(* Two variables never hold the same handle: closing one cannot pull the    *)
(* file from under the other.                                               *)
HandlesDistinct ==
  \A c, d \in Client : c # d /\ Holds(c) => held[c] # held[d]

(* A full table has a holder of its last slot.  fs__open refuses only then, *)
(* so the table cannot be stuck full once its holders have closed, however  *)
(* the closes were ordered (the high-water mark is not a count).            *)
FullMeansLastSlotHeld ==
  handles_len = MAX_FILE_HANDLES =>
    \E c \in Client : held[c] = MAX_FILE_HANDLES - 1

(* Streams that no slot holds: open in the C library, out of reach of every *)
(* fs__close.                                                               *)
Lost == {s \in streams : \A h \in Slot : handles[h] # s}

(* A stream is lost only by an fs__open that finds the table full           *)
(* (platform.c:71-72 returns without fclose); no order of opens and closes  *)
(* below the limit loses one.                                               *)
LostOnlyWhenFull ==
  [][Lost' # Lost => handles_len = MAX_FILE_HANDLES]_vars

(* The stream each client reads and writes, looked up through the table the *)
(* way fs__read and fs__write do.                                           *)
Reached == [c \in Client |-> IF Holds(c) THEN handles[held[c]] ELSE NULL]

Pool == INSTANCE FilePool WITH owner <- Reached

(* The table implements the pool of FilePool: no call on one handle changes *)
(* what another handle reaches (platform.c:58-94).                          *)
ImplementsFilePool == Pool!Spec

===============================================================================
