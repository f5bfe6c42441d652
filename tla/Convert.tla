-------------------------------- MODULE Convert --------------------------------
(***************************************************************************)
(* The first loop of barf_combine_to_artifact, src/barf/format.c:906-935:  *)
(* each input is converted from COFF, or else from ELF, or else taken as   *)
(* it is; the artifact of the i-th input goes to a path made from the      *)
(* input's own, and all those paths share one block of text.               *)
(* A file that is not there ends the process.                              *)
(*                                                                         *)
(* A path is a sequence of ".", "/" and names, which are runs of other     *)
(* characters; a byte of text is one element of it.  What is inside the    *)
(* files is the subject of modules Coff, Elf and Parse; here a file is     *)
(* what it was made from.                                                  *)
(***************************************************************************)
EXTENDS Integers, Sequences

CONSTANTS
  Cap    (* ba_path_text_cap                                                *)

CapAssumption == Cap \in Nat \ {0}

Format == {"coff", "elf", "artifact"}

(* A file: its format, and the path of the object file it was made from.    *)
File(format, origin) == [format |-> format, origin |-> origin]

VARIABLES
  input_files,        (* the paths given                                    *)
  before,             (* the files there were (history)                     *)
  files,              (* the files there are                                *)
  pc,                 (* "inputs", or "crashed"                             *)
  i,                  (* the counter of the loop                            *)
  ba_paths,           (* the paths to be combined                           *)
  ba_path_text_len,
  overflow            (* has text been written behind the block             *)

vars == << input_files, before, files, pc, i, ba_paths, ba_path_text_len, overflow >>

Init ==
  /\ files = before
  /\ pc = "inputs" /\ i = 1 /\ ba_paths = << >> /\ ba_path_text_len = 0 /\ overflow = FALSE

-------------------------------------------------------------------------------
(* Slip: the name ends at the first dot. *)
DotFirst(path) ==
  LET dots == {d \in 2 .. Len(path) : path[d] = "."}
  IN  IF dots = {} THEN 1 ELSE CHOOSE d \in dots : \A e \in dots : d <= e

(* The search goes down from the end, over every "/", and ends at the first *)
(* character of the path, whatever that is.                                 *)
Dot(path) ==
  LET dots == {d \in 2 .. Len(path) : path[d] = "."}
  IN  IF dots = {} THEN 1 ELSE CHOOSE d \in dots : \A e \in dots : e <= d

Suffix == << "~", ".", "ba" >>

ConvertedPath(path) == SubSeq(path, 1, Dot(path) - 1) \o Suffix

TextOf(path) == 1 + Len(ConvertedPath(path))

(* snprintf writes what the rest of the block holds, with the zero; when    *)
(* the rest is negative it is a huge number of type size_t.                 *)
Rest == Cap - ba_path_text_len

Printed(path) ==
  IF Rest < 0 \/ TextOf(path) <= Rest THEN ConvertedPath(path)
  ELSE SubSeq(ConvertedPath(path), 1, Rest - 1)

(* A converter writes its output as soon as it knows the format of its      *)
(* input, over what is there.                                               *)
Converted(input, path) ==
  [p \in DOMAIN files \union {path} |->
    IF p = path THEN File("artifact", files[input].origin) ELSE files[p]]

IsConverted(input) == files[input].format \in {"coff", "elf"}

ConvertInput ==
  LET input == input_files[i] IN
  /\ pc = "inputs" /\ i <= Len(input_files) /\ input \in DOMAIN files
  /\ IF IsConverted(input)
     THEN /\ ba_paths' = Append(ba_paths, Printed(input))
          /\ files' = Converted(input, Printed(input))
     ELSE ba_paths' = Append(ba_paths, input) /\ UNCHANGED files
  /\ overflow' = (overflow \/ Rest < 0)
  /\ ba_path_text_len' = ba_path_text_len + TextOf(input)
  /\ i' = i + 1
  /\ UNCHANGED << input_files, before, pc >>

(* barf_convert_from_coff cannot open the input, and closes the handle it   *)
(* has not got: the index is far behind the table of handles.               *)
DieOfMissing ==
  /\ pc = "inputs" /\ i <= Len(input_files) /\ input_files[i] \notin DOMAIN files
  /\ pc' = "crashed"
  /\ UNCHANGED << input_files, before, files, i, ba_paths, ba_path_text_len, overflow >>

Next == ConvertInput \/ DieOfMissing

Spec == Init /\ [][Next]_vars
-------------------------------------------------------------------------------
Done == i > Len(input_files)

TypeOK ==
  /\ pc \in {"inputs", "crashed"}
  /\ i \in 1 .. Len(input_files) + 1 /\ Len(ba_paths) = i - 1
  /\ ba_path_text_len \in Nat /\ overflow \in BOOLEAN
  /\ \A p \in DOMAIN files : files[p].format \in Format
  /\ DOMAIN before \subseteq DOMAIN files

IsObject(path) == path \in DOMAIN before /\ before[path].format \in {"coff", "elf"}

Named == {input_files[n] : n \in DOMAIN input_files}

(* The path without what follows its last dot, if it has one behind its     *)
(* first character.                                                         *)
Stems(path) ==
  { SubSeq(path, 1, d - 1) : d \in {d \in 2 .. Len(path) :
      path[d] = "." /\ \A e \in d + 1 .. Len(path) : path[e] # "."} }

Marked(stem) == stem \o << "~", ".", "ba" >>

(* No two inputs are the same but for what follows the last dot, every      *)
(* object file has a dot, and none is converted onto another input.         *)
Apart ==
  \A m, n \in DOMAIN input_files :
    /\ m # n => input_files[m] # input_files[n]
    /\ IsObject(input_files[m]) =>
         /\ Stems(input_files[m]) # {}
         /\ {Marked(stem) : stem \in Stems(input_files[m])} \cap Named = {}
         /\ m # n /\ IsObject(input_files[n]) =>
              Stems(input_files[m]) # Stems(input_files[n])

(* The path of an input as it would be converted, with its zero.            *)
Marks(path) ==
  4 + (IF Stems(path) = {} THEN 0
       ELSE CHOOSE length \in 1 .. Len(path) : \E stem \in Stems(path) : Len(stem) = length)

(* Those of all inputs up to one.                                           *)
MarksUpto ==
  LET upto[n \in 0 .. Len(input_files)] ==
        IF n = 0 THEN 0 ELSE upto[n - 1] + Marks(input_files[n])
  IN  upto

TextFits == MarksUpto[Len(input_files)] <= Cap

(* Only an input that is not there ends the process.  What is combined for  *)
(* the i-th input is an artifact made from the i-th input, which was there, *)
(* and not from one that was converted later into the same path (format.c:  *)
(* 926 leaves collisions open).                                             *)
EachInputItsArtifact ==
  /\ Named \subseteq DOMAIN before => pc # "crashed"
  /\ Done /\ Apart /\ TextFits =>
       \A n \in DOMAIN input_files :
         /\ input_files[n] \in DOMAIN before
         /\ files[ba_paths[n]] = File("artifact", before[input_files[n]].origin)

(* Nothing that was given is changed: object files stay what they are, and  *)
(* what is not there is not made up.                                        *)
InputsAreKept ==
  Apart /\ TextFits =>
    \A path \in Named : IF path \in DOMAIN before THEN files[path] = before[path]
                        ELSE path \notin DOMAIN files

(* The block of 65536 bytes is overrun, or a path cut, only by inputs whose *)
(* paths are too long together (format.c:908, 922).                         *)
PathsFitTheBlock ==
  TextFits =>
    /\ ~ overflow /\ ba_path_text_len <= Cap
    /\ \A n \in DOMAIN ba_paths : ba_paths[n] \in {input_files[n], ConvertedPath(input_files[n])}

-------------------------------------------------------------------------------
(* Claims of the repository that the code does not keep.                    *)

Directory(path) ==
  LET slashes == {s \in DOMAIN path : path[s] = "/"}
  IN  IF slashes = {} THEN << >>
      ELSE SubSeq(path, 1, CHOOSE s \in slashes : \A t \in slashes : t <= s)

(* format.c:924-925, of the converted file: "Same directory as the object   *)
(* files will work for now."                                                *)
ConvertedBesideInput ==
  \A n \in DOMAIN ba_paths : Directory(ba_paths[n]) = Directory(input_files[n])

(* format.c:217-219, of a file that cannot be opened: "barf: could not read *)
(* '%s'", and on to "return false" (format.c:520).                          *)
MissingInputIsRefused == pc # "crashed"
===============================================================================
