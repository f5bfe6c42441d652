---------------------------------- MODULE Cli ----------------------------------
(***************************************************************************)
(* The command line of barf, ba_main in src/barf/main.c:16-112: one loop   *)
(* over the arguments, and then at most one call of the library.  What the *)
(* call does is the subject of the other modules.                          *)
(*                                                                         *)
(* argv is given, without the name of the program; argi and user_arg_index *)
(* count from 1.                                                           *)
(***************************************************************************)
EXTENDS Integers, Sequences, FiniteSets

CONSTANTS
  MaxFiles    (* pointers in input_files, 50                                *)

ASSUME FilesAssumption == MaxFiles \in Nat \ {0}

Help    == {"-h", "--help"}
CombineOption == {"-c", "--combine"}
Option  == Help \union CombineOption \union {"-v", "-d", "--", "-o"}

NULL == "NULL"
None == -1   \* no user arguments

(* What input_files[0] is before it is written. *)
Garbage == "garbage"

Nothing == [name |-> "none"]
HelpText == [name |-> "help"]
Version == [name |-> "version"]
Failure == [name |-> "failure"]   \* exit code 1 without a call
Abort == [name |-> "abort"]       \* ASSERT
Dump(file) == [name |-> "barf_dump", file |-> file]
Combine(files, output) ==
  [name |-> "barf_combine_to_artifact", files |-> files, output |-> output]
Load(file, args) == [name |-> "barf_load_file", file |-> file, args |-> args]

VARIABLES
  argv, argi, dump, print_help, print_version, combine, output_file,
  user_arg_index, input_files,
  call      (* how the program goes on after the loop                       *)

options == << dump, print_help, print_version, combine >>
vars == << argv, argi, options, output_file, user_arg_index, input_files, call >>

Init ==
  /\ argi = 1
  /\ dump = FALSE /\ print_help = FALSE /\ print_version = FALSE /\ combine = FALSE
  /\ output_file = NULL /\ user_arg_index = None /\ input_files = << >>
  /\ call = Nothing

(* The loop has been left by a break. *)
Left == print_help \/ print_version \/ user_arg_index # None

Parsing == call = Nothing /\ ~ Left /\ argi <= Len(argv)
-------------------------------------------------------------------------------
SetOption ==
  /\ Parsing /\ argv[argi] \in Help \union CombineOption \union {"-v", "-d"}
  /\ print_help' = (argv[argi] \in Help)
  /\ print_version' = (argv[argi] = "-v")
  /\ dump' = (dump \/ argv[argi] = "-d")
  /\ combine' = (combine \/ argv[argi] \in CombineOption)
  /\ argi' = argi + 1
  /\ UNCHANGED << argv, output_file, user_arg_index, input_files, call >>

FirstUserArg == argi + 1

EndOptions ==
  /\ Parsing /\ argv[argi] = "--"
  /\ user_arg_index' = FirstUserArg
  /\ argi' = argi + 1
  /\ UNCHANGED << argv, options, output_file, input_files, call >>

(* Slip: the file is read again as an argument of its own. *)
SkipOption == argi + 1

BehindOutput == argi + 2

SetOutput ==
  /\ Parsing /\ argv[argi] = "-o"
  /\ IF argi = Len(argv) \/ output_file # NULL
     THEN call' = Failure /\ UNCHANGED << argi, output_file >>
     ELSE output_file' = argv[argi + 1] /\ argi' = BehindOutput /\ UNCHANGED call
  /\ UNCHANGED << argv, options, user_arg_index, input_files >>

HasRoom == Len(input_files) < MaxFiles

AddFile ==
  /\ Parsing /\ argv[argi] \notin Option
  /\ IF HasRoom
     THEN input_files' = Append(input_files, argv[argi]) /\ argi' = argi + 1 /\ UNCHANGED call
     ELSE call' = Abort /\ UNCHANGED << argi, input_files >>
  /\ UNCHANGED << argv, options, output_file, user_arg_index >>

FirstFile == IF input_files = << >> THEN Garbage ELSE input_files[1]

UserArgs ==
  IF user_arg_index = None THEN << >> ELSE SubSeq(argv, user_arg_index, Len(argv))

Dispatched ==
  IF print_help THEN HelpText
  ELSE IF print_version \/ (input_files = << >> /\ output_file = NULL) THEN Version
  ELSE IF dump THEN Dump(FirstFile)
  ELSE IF combine THEN Combine(input_files, output_file)
  ELSE Load(FirstFile, UserArgs)

Dispatch ==
  /\ call = Nothing /\ ~ Parsing
  /\ call' = Dispatched
  /\ UNCHANGED << argv, argi, options, output_file, user_arg_index, input_files >>

Next == SetOption \/ EndOptions \/ SetOutput \/ AddFile \/ Dispatch

Spec == Init /\ [][Next]_vars
-------------------------------------------------------------------------------
TypeOK ==
  /\ argv \in Seq(STRING) /\ argi \in 1 .. Len(argv) + 1
  /\ user_arg_index \in {None} \union 2 .. Len(argv) + 1
  /\ Len(input_files) <= MaxFiles

(* What the command line says, read as a whole: an argument is the file of  *)
(* the "-o" in front of it, unless that is such a file itself; the options  *)
(* end at the first "--" that is not.                                       *)
IsOutputFile ==
  LET is[p \in 1 .. Len(argv)] == p > 1 /\ argv[p - 1] = "-o" /\ ~ is[p - 1]
  IN  is

Ends == {p \in DOMAIN argv : argv[p] = "--" /\ ~ IsOutputFile[p]}

InFront(p) == \A e \in Ends : p < e

NamedAt == {p \in DOMAIN argv : InFront(p) /\ argv[p] \notin Option /\ ~ IsOutputFile[p]}

(* How many files are named up to p.                                        *)
Rank(p) == Cardinality({q \in NamedAt : q <= p})

(* All files named in front of "--", and only they, are combined, in their  *)
(* order: neither options nor the output slip in between (main.c:30-63).    *)
CombinesWhatIsNamed ==
  call.name = "barf_combine_to_artifact" =>
    /\ Len(call.files) = Cardinality(NamedAt)
    /\ \A p \in NamedAt : call.files[Rank(p)] = argv[p]

(* A loaded artifact gets exactly what follows the "--", options and files  *)
(* of the same spelling included, and nothing without one.                  *)
ArgumentsAreKept ==
  call.name = "barf_load_file" =>
    IF Ends = {} THEN call.args = << >>
    ELSE LET e == CHOOSE e \in Ends : \A d \in Ends : e <= d
         IN  call.args = SubSeq(argv, e + 1, Len(argv))

-------------------------------------------------------------------------------
(* Two claims of the repository that the code does not keep.                *)

(* main.c:67-69, the help: "barf file.ba" loads and runs, "barf -d file.ba" *)
(* dumps that file; a file that is read was named.                          *)
ReadFilesAreNamed ==
  call.name \in {"barf_dump", "barf_load_file"} => call.file # Garbage

(* docs/usage.md combines with "barf --combine program.ba main.ba           *)
(* sha256.ba": the first file is the output.                                *)
CombineNamesItsOutput ==
  call.name = "barf_combine_to_artifact" /\ argv[1] = "--combine" => call.output # NULL
===============================================================================
