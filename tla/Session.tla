-------------------------------- MODULE Session --------------------------------
(***************************************************************************)
(* The handles of the library's calls, over the table of module            *)
(* HandleTable: a program combines and loads artifacts, one call after the *)
(* other in one process, and the functions under these calls open, close   *)
(* and forget handles (src/barf/format.c:22-121, 210-264, 522-577, 890-959 *)
(* and 1174-1241, src/barf/barf.c:224-256, and the artifact's own, as in   *)
(* examples/wa.c:74-81).  A variable of a function that returns is gone;   *)
(* what the table still has of it nobody can close.                        *)
(*                                                                         *)
(* The functions never hold two handles at once, except that combining has *)
(* its output in "file" while each input is in "in_file".                  *)
(***************************************************************************)
EXTENDS HandleTable, Sequences, FiniteSets

CONSTANTS
  MaxInputs,   (* of one combination                                        *)
  MaxCalls     (* bound on the calls of the program                         *)

ASSUME ClientAssumption == Client = {"file", "in_file"}
ASSUME StreamAssumption == Stream \subseteq Nat
ASSUME BoundsAssumption == MaxInputs \in Nat \ {0} /\ MaxCalls \in Nat

(* What is at a path: nothing, less than a COFF header, less than an ELF    *)
(* header, something else, an object file, an artifact.                     *)
Kind == {"missing", "short", "tiny", "other", "coff", "elf", "artifact"}

Inputs == UNION {[1 .. n -> Kind] : n \in 1 .. MaxInputs}

VARIABLES
  pc,       (* the function that is running                                 *)
  inputs,   (* of the call                                                  *)
  k,        (* the input that is worked on                                  *)
  calls,    (* calls begun                                                  *)
  shorts    (* conversions that found a file too short (history)            *)

control == << pc, inputs, k, calls, shorts >>

SessionInit ==
  /\ Init
  /\ pc = "idle" /\ inputs = << >> /\ k = 1 /\ calls = 0 /\ shorts = 0

Goto(label, input) == pc' = label /\ k' = input /\ UNCHANGED << inputs, calls >>

Crash == pc' = "crashed" /\ UNCHANGED << vars, inputs, k, calls, shorts >>

(* fs__open as the caller sees it: a handle, or FS_INVALID_HANDLE because   *)
(* there is no such file or no slot for it.  Which stream fopen returns is  *)
(* of no account.                                                           *)
Opened(c) ==
  /\ fs__open(c)
  /\ \A s \in streams' \ streams, t \in Stream \ streams : s <= t
  /\ held'[c] # FS_INVALID_HANDLE

NotOpened(c, exists) ==
  \/ ~ exists /\ UNCHANGED vars
  \/ /\ exists /\ handles_len = MAX_FILE_HANDLES /\ fs__open(c)
     /\ \A s \in streams' \ streams, t \in Stream \ streams : s <= t

Forget(c) ==
  /\ held' = [held EXCEPT ![c] = FS_INVALID_HANDLE]
  /\ opened' = [opened EXCEPT ![c] = NULL]
  /\ UNCHANGED << handles, handles_len, streams >>

(* Slip: the cleanup closes nothing. *)
CleanupForgets(c) == Forget(c)

(* "if (file) fs__close(file)": the handle 0 is taken for none.             *)
Cleanup(c) == IF held[c] = 0 THEN Forget(c) ELSE fs__close(c)

(* A function opens an input and goes on, or takes FS_INVALID_HANDLE to its *)
(* cleanup, which closes it: handles[0xFFFFFFFF].                           *)
OpenInput(from, exists, to) ==
  /\ pc = from
  /\ UNCHANGED shorts
  /\ \/ exists /\ Opened("file") /\ Goto(to, k)
     \/ NotOpened("file", exists) /\ Goto("crashed", k)

-------------------------------------------------------------------------------
Combine ==
  /\ pc = "idle" /\ calls < MaxCalls
  /\ inputs' \in Inputs
  /\ pc' = "coff" /\ k' = 1 /\ calls' = calls + 1
  /\ UNCHANGED << vars, shorts >>

Load ==
  /\ pc = "idle" /\ calls < MaxCalls
  /\ inputs' \in [1 .. 1 -> Kind]
  /\ pc' = "parse_to_load" /\ k' = 1 /\ calls' = calls + 1
  /\ UNCHANGED << vars, shorts >>

Exists == inputs[k] # "missing"

(* Slip: the counter stays. *)
NextInputSame(loop, next_loop) ==
  IF k < Len(inputs) THEN Goto(loop, k) ELSE Goto(next_loop, 1)

(* The next input, or the first one again for the next loop.                *)
NextInput(loop, next_loop) ==
  IF k < Len(inputs) THEN Goto(loop, k + 1) ELSE Goto(next_loop, 1)

(* barf_convert_from_coff and barf_convert_from_elf: a file that is too     *)
(* short is forgotten, one of another format cleaned up, the right one      *)
(* closed and its conversion opened, written and closed.                    *)
Convert(label, too_short, format, otherwise) ==
  /\ pc = label
  /\ \/ /\ inputs[k] \in too_short /\ Forget("file")
        /\ shorts' = shorts + 1 /\ otherwise
     \/ /\ inputs[k] \notin too_short \union {format} /\ Cleanup("file")
        /\ UNCHANGED shorts /\ otherwise
     \/ inputs[k] = format /\ fs__close("file") /\ UNCHANGED shorts /\ Goto("output", k)

ConvertFromCoff == Convert("coff_opened", {"short"}, "coff", Goto("elf", k))

ConvertFromElf ==
  Convert("elf_opened", {"short", "tiny"}, "elf", NextInput("coff", "parse"))

OpenConverted == \E exists \in BOOLEAN : OpenInput("output", exists, "output_opened")

CloseConverted ==
  /\ pc = "output_opened" /\ fs__close("file") /\ NextInput("coff", "parse") /\ UNCHANGED shorts

(* barf_parse_header_from_file, for combining and for loading.              *)
Parsed(label, success, failure) ==
  /\ pc = label /\ UNCHANGED shorts
  /\ \/ inputs[k] \in {"coff", "elf", "artifact"} /\ fs__close("file") /\ success
     \/ inputs[k] \in {"short", "tiny", "other"} /\ Cleanup("file") /\ failure

ParseInput == Parsed("parse_opened", NextInput("parse", "combine"), Goto("idle", 1))

(* An object file has not been converted when it is loaded.                 *)
ParseToLoad ==
  /\ pc = "load_opened" /\ UNCHANGED shorts
  /\ \/ inputs[k] = "artifact" /\ fs__close("file") /\ Goto("load", k)
     \/ inputs[k] # "artifact" /\ Cleanup("file") /\ Goto("idle", 1)

(* The output of the combination: without it the call fails.                *)
OpenOutput ==
  /\ pc = "combine" /\ UNCHANGED shorts
  /\ \/ Opened("file") /\ Goto("transfer", 1)
     \/ \E exists \in BOOLEAN : NotOpened("file", exists) /\ Goto("idle", 1)

(* The inputs again, for their data; whether they opened is not asked.      *)
OpenTransfer ==
  /\ pc = "transfer" /\ UNCHANGED shorts
  /\ \/ Opened("in_file") /\ Goto("transfer_opened", k)
     \/ NotOpened("in_file", TRUE) /\ Goto("crashed", k)

CloseTransfer ==
  /\ pc = "transfer_opened" /\ fs__close("in_file")
  /\ NextInput("transfer", "finish") /\ UNCHANGED shorts

CloseOutput == pc = "finish" /\ fs__close("file") /\ Goto("idle", 1) /\ UNCHANGED shorts

CloseLoaded ==
  pc = "loaded" /\ fs__close("file") /\ Goto("entry", 1) /\ UNCHANGED shorts

(* The artifact runs in the loader's process and on its table.  The example *)
(* opens a file, reads it whether it opened or not, and closes it.          *)
OpenInEntry == \E exists \in BOOLEAN : OpenInput("entry", exists, "entry_opened")

CloseInEntry ==
  pc = "entry_opened" /\ fs__close("file") /\ Goto("idle", 1) /\ UNCHANGED shorts

Step ==
  \/ OpenInput("coff", Exists, "coff_opened") \/ ConvertFromCoff
  \/ OpenInput("elf", Exists, "elf_opened") \/ ConvertFromElf
  \/ OpenConverted \/ CloseConverted
  \/ OpenInput("parse", TRUE, "parse_opened") \/ ParseInput
  \/ OpenOutput \/ OpenTransfer \/ CloseTransfer \/ CloseOutput
  \/ OpenInput("parse_to_load", Exists, "load_opened") \/ ParseToLoad
  \/ OpenInput("load", TRUE, "loaded") \/ CloseLoaded
  \/ OpenInEntry \/ CloseInEntry

SessionNext == Combine \/ Load \/ Step

SessionSpec ==
  SessionInit /\ [][SessionNext]_<< vars, control >> /\ WF_<< vars, control >>(Step)

-------------------------------------------------------------------------------
(* Slots with a stream in them that no variable holds.                      *)
Forgotten == {h \in Slot : handles[h] # NULL /\ \A c \in Client : held[c] # h}

SessionTypeOK ==
  /\ TypeOK
  /\ inputs \in Inputs \union {<< >>} /\ k \in 1 .. MaxInputs
  /\ calls \in 0 .. MaxCalls /\ shorts \in 0 .. 2 * MaxInputs * MaxCalls
  /\ \A c \in Client : pc = "idle" => ~ Holds(c)

(* However many calls succeed, fail or are refused: what they leave open is *)
(* the files too short to be object files (format.c:233 and 547) and at     *)
(* most one more, the one whose handle was 0.                               *)
LeftOpenAreShortOrFirst == Cardinality(Forgotten \ {0}) <= shorts

(* While the data of an input is copied, reading and writing reach the      *)
(* streams that were opened for them, with forgotten slots below and        *)
(* between.                                                                 *)
CopyReachesBoth ==
  pc = "transfer_opened" =>
    /\ handles[held["file"]] = opened["file"] /\ handles[held["in_file"]] = opened["in_file"]
    /\ opened["file"] # opened["in_file"] /\ {held["file"], held["in_file"]} \cap Forgotten = {}

(* The first call finds a slot for whatever it opens, as long as there are  *)
(* two for every input and two more: with 100 slots (platform.c:53) and the *)
(* 50 inputs of main.c:60 there are only two for every input.               *)
FirstCallHasRoom ==
  calls = 1 /\ 2 * Len(inputs) + 2 <= MAX_FILE_HANDLES => Lost = {} /\ handles_len < MAX_FILE_HANDLES

(* A call ends: it returns, or the process does.                            *)
CallsEnd == pc # "idle" ~> pc \in {"idle", "crashed"}

(* A call gets handles of its own while there is room, and the first call   *)
(* has room (platform.c:71, format.c:1108-1226).                            *)
CallsGetTheirHandles == SessionTypeOK /\ CopyReachesBoth /\ FirstCallHasRoom
===============================================================================
