-------------------------------- MODULE Command --------------------------------
(***************************************************************************)
(* What a command line of barf leads to, src/barf/main.c:16-112: the paths *)
(* of a combining call go to the conversion of the inputs (format.c:906-   *)
(* 935), and the words of a loading call are joined for the artifact, which*)
(* splits them again (barf.c:296-312).                                     *)
(*                                                                         *)
(* This module extends Cli; the variables of Convert and Arguments have    *)
(* the prefixes "convert_" and "join_".  What a call of the library does   *)
(* beyond that is the subject of Combine, Loader and DumpFile.             *)
(***************************************************************************)
EXTENDS Cli

CONSTANTS
  Scenes,      (* the command lines, each with the files there are, and     *)
               (* whose parse_input a loaded artifact has                   *)
  Spelling,    (* from words to sequences of ".", "/", blanks and runs of   *)
               (* other characters                                          *)
  Cap, PerArg, ArgCap, TextCap

VARIABLES
  disk,        (* the files there are at the start                          *)
  files, convert_pc, convert_i, ba_paths, ba_path_text_len, overflow,
  artifact, join_pc, join_i, arg_data, start_head, head, args, text_len,
  join_overrun

Spelled(words) == [w \in DOMAIN words |-> Spelling[words[w]]]

Combining == call.name = "barf_combine_to_artifact"

(* The loader gets to the arguments if the file is an artifact.             *)
Loading ==
  /\ call.name = "barf_load_file" /\ call.file \in DOMAIN Spelling
  /\ Spelling[call.file] \in DOMAIN disk /\ disk[Spelling[call.file]].format = "artifact"

C == INSTANCE Convert WITH
       input_files <- IF Combining THEN Spelled(call.files) ELSE << >>,
       before <- disk, pc <- convert_pc, i <- convert_i

J == INSTANCE Arguments WITH
       argv <- IF Loading THEN Spelled(call.args) ELSE << >>,
       path <- IF Loading THEN Spelling[call.file] ELSE << >>,
       pc <- join_pc, i <- join_i, overrun <- join_overrun

ASSUME SizesAssumption == C!CapAssumption /\ J!SizesAssumption
ASSUME ScenesAssumption ==
  /\ DOMAIN Spelling \subseteq STRING
  /\ \A word \in DOMAIN Spelling : Spelling[word] \in Seq(STRING)
  /\ \A scene \in Scenes :
       /\ scene.argv \in Seq(DOMAIN Spelling)
       /\ \A path \in DOMAIN scene.files :
            \E format \in C!Format : scene.files[path] = C!File(format, path)

convert_vars == << files, convert_pc, convert_i, ba_paths, ba_path_text_len, overflow >>
join_vars == << artifact, join_pc, join_i, arg_data, start_head, head, args, text_len,
                join_overrun >>

CommandInit ==
  /\ \E scene \in Scenes :
       argv = scene.argv /\ disk = scene.files /\ artifact = scene.artifact
  /\ Init /\ C!Init /\ J!Init

ReadCommandLine == Next /\ UNCHANGED << disk, convert_vars, join_vars >>

ConvertInputs == Combining /\ UNCHANGED << vars, disk, join_vars >> /\ C!Next

PassArguments == Loading /\ UNCHANGED << vars, disk, convert_vars >> /\ J!Next

CommandNext == ReadCommandLine \/ ConvertInputs \/ PassArguments

CommandSpec == CommandInit /\ [][CommandNext]_<< vars, disk, convert_vars, join_vars >>

-------------------------------------------------------------------------------
(* The call that is made is the one the words ask for: it combines the      *)
(* files that are named, and what is behind the name of a file to load is   *)
(* the program's, options included (main.c:37-79).                          *)
CallsWhatIsMeant == TypeOK /\ CombinesWhatIsNamed /\ ArgumentsAreKept

(* Only an input that is not there ends the process (format.c:513-515).     *)
(* What is combined for the i-th input is an artifact made from the i-th    *)
(* input, which was there, and not from one that was converted later into   *)
(* the same path (format.c:926 leaves collisions open); no object file is   *)
(* written over, and the block of 65536 bytes is overrun, or a path cut,    *)
(* only by inputs whose paths are too long together (format.c:908, 922).    *)
EachInputItsArtifact ==
  C!TypeOK /\ C!EachInputItsArtifact /\ C!InputsAreKept /\ C!PathsFitTheBlock

(* Words that stay in the blocks arrive as they were given, behind the path *)
(* (README.md:26-30), although neither their number nor their lengths are   *)
(* handed over.  Of other arguments no character is lost or made up, and a  *)
(* blank is left only at the very end of the last one (parse_args.h:25-28). *)
(* No block is written over (barf.c:299, parse_args.h:8-9) by 49 arguments  *)
(* that are each shorter than 50 bytes and together fit the text; more or   *)
(* longer ones may be, and then nothing is promised.                        *)
ArgumentsArrive ==
  Loading =>
    /\ J!TypeOK /\ J!JoinFits /\ J!SplitFits
    /\ J!WordsArrive /\ J!NothingLost /\ J!OnlyLastKeepsBlank

-------------------------------------------------------------------------------
(* The claims of Convert that the code does not keep: the artifact is in    *)
(* the directory of the object file (format.c:924-925), and an input that   *)
(* is not there is reported (format.c:217-219).                             *)
ConvertedBesideInput == C!ConvertedBesideInput
MissingInputIsRefused == C!MissingInputIsRefused

(* The claim of Arguments that the code does not keep: what is put behind   *)
(* "--" fits the blocks it is copied to (README.md:26-30).                  *)
AnyArgumentsFit == J!AnyArgumentsFit
===============================================================================
