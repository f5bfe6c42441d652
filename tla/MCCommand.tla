------------------------------- MODULE MCCommand -------------------------------
(* Every command line of up to four arguments out of all options and two    *)
(* files, of which four are one too many.  Every combining one of up to     *)
(* three of eight paths: with one dot, two, or none, in a directory, behind *)
(* a directory with a dot, the path another one is converted to, and one    *)
(* that no file has.  Every loading one of up to three arguments of up to   *)
(* three characters, blanks among them, with blocks that just hold the      *)
(* largest ones that fit, and are overrun by others.                        *)
EXTENDS Command

Word == {"-h", "-v", "-d", "-c", "--combine", "--", "-o", "a.o", "b.ba"}

(* A path that no file has. *)
Missing == "c.o"

MCSpelling ==
  [ word \in Word \union { "p", "a.ba", "b.x.o", "b.y.o", "obj/main", "../a.o", "a~.ba",
                           Missing,
                           "", "a", " ", "aa", "a ", " a", "  ", "aaa" } |->
      CASE word = "a.o" -> << "a", ".", "o" >>
        [] word = "a.ba" -> << "a", ".", "ba" >>
        [] word = "c.o" -> << "c", ".", "o" >>
        [] word = "b.ba" -> << "b", ".", "ba" >>
        [] word = "b.x.o" -> << "b", ".", "x", ".", "o" >>
        [] word = "b.y.o" -> << "b", ".", "y", ".", "o" >>
        [] word = "obj/main" -> << "obj", "/", "main" >>
        [] word = "../a.o" -> << ".", ".", "/", "a", ".", "o" >>
        [] word = "a~.ba" -> << "a", "~", ".", "ba" >>
        [] word = "" -> << >>
        [] word = "aa" -> << "a", "a" >> [] word = "a " -> << "a", " " >>
        [] word = "aaa" -> << "a", "a", "a" >>
        [] word = " a" -> << " ", "a" >> [] word = "  " -> << " ", " " >>
        [] OTHER -> << word >> ]

Paths == {"a.o", "a.ba", "b.x.o", "b.y.o", "obj/main", "../a.o", "a~.ba"}

Texts == {"", "a", " ", "aa", "a ", " a", "  ", "aaa"}

OnDisk(format(_)) ==
  [ path \in {MCSpelling[word] : word \in Paths \union {"b.ba", "p"}} |->
      C!File(format(path), path) ]

ByExtension(path) == IF path[Len(path)] = "ba" \/ path = << "p" >> THEN "artifact" ELSE "elf"
CoffAndElf(path)  == IF path = << "p" >> THEN "artifact" ELSE IF path[1] = "a" THEN "coff" ELSE "elf"
CoffAndNot(path)  == IF path = << "p" >> \/ path[1] = "b" THEN "artifact" ELSE "coff"

Scene(line, there, whose) == [argv |-> line, files |-> there, artifact |-> whose]

MCScenes ==
  { Scene(line, OnDisk(ByExtension), "barf") : line \in UNION {[1 .. n -> Word] : n \in 0 .. 4} }
  \union
  { Scene(<< "-c", "-o", "p" >> \o line, there, "barf") :
      line \in UNION {[1 .. n -> Paths \union {Missing}] : n \in 1 .. 3},
      there \in {OnDisk(ByExtension), OnDisk(CoffAndElf), OnDisk(CoffAndNot)} }
  \union
  { Scene(<< "p", "--" >> \o line, OnDisk(ByExtension), whose) :
      line \in UNION {[1 .. n -> Texts] : n \in 0 .. 3}, whose \in {"barf", "wa"} }
===============================================================================
