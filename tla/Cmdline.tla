------------------------------- MODULE Cmdline -------------------------------
(***************************************************************************)
(* Parsing of the command line: ramfs_parse_cmdline, which takes options   *)
(* and the mount point out of the argument vector while getopt is going    *)
(* through it and permuting it, ramfs_parse_options, SizeStr2Number and    *)
(* what main makes of the result.  An argument is a record; an option      *)
(* string is the sequence of its options; sizes are sequences of digits    *)
(* and unit characters.  The word size is scaled down with the units.      *)
(***************************************************************************)
EXTENDS Integers, Sequences, FiniteSets, SequencesExt

CONSTANTS
  CommandLine,  \* bound: the argument vectors, without the program's name
  UnitBits,     \* the factor from one unit to the next is 2^UnitBits; 10
  MinCapacity,  \* the least capacity; 1024
  BlockSize, kTotalBlocks,
  CleanHeap,    \* bound: memory from new[] happens to be zero
  Junk          \* bound: what an argument that was freed may read as, up to a NUL

ASSUME CmdlineAssumption ==
  /\ UnitBits \in Nat \ {0} /\ MinCapacity \in Nat /\ BlockSize \in Nat \ {0}
  /\ CleanHeap \in BOOLEAN /\ Junk \subseteq Seq({"b", "o", "?"})

VARIABLES
  given,     \* the command line
  argv,      \* args: the vector as it is now
  getopt,    \* the state of getopt: optind, the non-options it has passed, the
             \* characters left at nextchar, and whether that read freed memory
  options,   \* fuse_ramfs_options
  marks,     \* argo_idx and o_idx1; 0 when not set
  phase      \* "parsing"; "done"; "usage" and "exit": it has exited; "hung";
             \* "undefined": it has gone on behind the end of argv or of a string

vars == <<given, argv, getopt, options, marks, phase>>

\* No value.
None == <<>>
\* An argument with the options that its text is read as: none, or its own.
Arg(sort) == [sort |-> sort, list |-> <<>>]
Path(sort) == [sort |-> sort, list |-> <<[key |-> "path", value |-> None]>>]
Program == Path("program")

-----------------------------------------------------------------------------
(* Sizes *)

\* size_t, 4 bits wider than the largest unit.
Word == 2^(6 * UnitBits + 4)

Digit(c) == CASE c = "0" -> 0 [] c = "1" -> 1 [] c = "2" -> 2 [] c = "6" -> 6 [] OTHER -> -1
Unit(c) ==
  CASE Digit(c) >= 0 -> 1
    [] c = "k" -> 2^UnitBits [] c = "m" -> 2^(2 * UnitBits) [] c = "g" -> 2^(3 * UnitBits)
    [] c = "t" -> 2^(4 * UnitBits) [] c = "p" -> 2^(5 * UnitBits) [] c = "e" -> 2^(6 * UnitBits)
    [] OTHER -> 0

\* Fault: the unit character counts as a digit's place.
SizeStr2NumberPlace(str) ==
  LET used == SelectSeq(str, LAMBDA c : c # " ")
      number[i \in 0..Len(used)] ==
        IF i = 0 THEN 0
        ELSE IF Digit(used[i]) < 0 THEN (10 * number[i - 1]) % Word
        ELSE (10 * number[i - 1] + Digit(used[i])) % Word
  IN  (number[Len(used)] * Unit(Last(used))) % Word
\* Trailing spaces are ignored; anything else that is no digit makes the size 0.
SizeStr2Number(str) ==
  LET used == SubSeq(str, 1, CHOOSE n \in 1..Len(str) :
                               str[n] # " " /\ \A m \in (n + 1)..Len(str) : str[m] = " ")
      unit == Unit(Last(used))
      digits == IF Digit(Last(used)) >= 0 THEN used ELSE Front(used)
      number[i \in 0..Len(digits)] ==
        IF i = 0 THEN 0 ELSE (10 * number[i - 1] + Digit(digits[i])) % Word
  IN  IF unit = 0 \/ \E i \in DOMAIN digits : Digit(digits[i]) < 0 THEN 0
      ELSE (number[Len(digits)] * unit) % Word

-----------------------------------------------------------------------------
(* ramfs_parse_options *)

Parsed == {"size", "inodes", "subtype"}

\* What the options of a list leave in opt, one after the other.  The subtype
\* is a pointer into the copy of the string, which the caller deletes.
ParsedInto(opt, list) ==
  LET after[i \in 0..Len(list)] ==
        IF i = 0 THEN opt
        ELSE LET o == list[i]
             IN  IF o.key \notin Parsed \/ o.value = None THEN after[i - 1]
                 ELSE IF o.key = "size" THEN [after[i - 1] EXCEPT !.capacity = SizeStr2Number(o.value)]
                 ELSE IF o.key = "inodes" THEN [after[i - 1] EXCEPT !.inodes = SizeStr2Number(o.value)]
                 ELSE [after[i - 1] EXCEPT !.subtype = "freed"]
  IN  after[Len(list)]

\* A token such as "=" has no key; the loop goes on with the same token.
Endless(list) == \E i \in DOMAIN list : list[i].key = "="

Verified(opt) ==
  (opt.capacity > 0 => opt.capacity >= MinCapacity) /\ (opt.inodes > 0 => opt.inodes >= 2)

\* A last character "o" is taken for what is left of "-o".
Chopped(list) ==
  IF list # <<>> /\ Last(list).key = "ro"
  THEN Append(Front(list), [key |-> "r", value |-> None]) ELSE list

\* The strings that may be left for list, after "-o" or not.  Nothing ends the
\* string but what the memory holds, unless only "-o" was left and erased.
Leftover(list, prefixed) ==
  LET rest == Chopped(SelectSeq(list, LAMBDA o : o.key \notin Parsed))
  IN  {rest} \cup IF CleanHeap \/ (prefixed /\ rest = <<>>) THEN {}
                  ELSE {Append(rest, [key |-> "garbage", value |-> None])}

-----------------------------------------------------------------------------
(* getopt of the GNU library, with the option string "o:b" *)

\* Indices are those of the code, where the program is argument 0.
IsOption(arg) == arg.sort \in {"-o", "-oX", "-b", "-f"}
\* The characters of an option behind the "-".
Chars(arg) ==
  CASE arg.sort = "-o" -> <<"o">> [] arg.sort = "-oX" -> <<"o", "X">>
    [] arg.sort = "-b" -> <<"b">> [] OTHER -> <<"?">>
argc == Len(argv)

\* With optind 0 it starts anew.
Resumed ==
  IF getopt.optind # 0 THEN getopt
  ELSE [getopt EXCEPT !.optind = 1, !.first_nonopt = 1, !.last_nonopt = 1, !.nextchar = <<>>]

\* The options passed since the non-options are moved in front of these.
Exchanged(first, last, top) ==
  SubSeq(argv, 1, first) \o SubSeq(argv, last + 1, top) \o SubSeq(argv, first + 1, last)
    \o SubSeq(argv, top + 1, argc)

\* The vector and the state when getopt has skipped to the next option from
\* the state g.
Skipped(g) ==
  LET first == IF g.first_nonopt > g.optind THEN g.optind ELSE g.first_nonopt
      last == IF g.last_nonopt > g.optind THEN g.optind ELSE g.last_nonopt
      exchange == first # last /\ last # g.optind
      vector == IF exchange THEN Exchanged(first, last, g.optind) ELSE argv
      from == IF exchange THEN first + g.optind - last
              ELSE IF last # g.optind THEN g.optind ELSE first
      next == CHOOSE n \in g.optind..argc :
                /\ n = argc \/ IsOption(vector[n + 1])
                /\ \A m \in g.optind..(n - 1) : ~IsOption(vector[m + 1])
  IN  [argv |-> vector, first |-> from, last |-> next, optind |-> next,
       chars |-> IF next = argc THEN <<>> ELSE Chars(vector[next + 1])]

\* What getopt looks at: the rest of the option it is in, or the next one.
InOption == Resumed.nextchar # <<>>
Scan ==
  IF InOption
  THEN [argv |-> argv, first |-> getopt.first_nonopt, last |-> getopt.last_nonopt,
        optind |-> getopt.optind, chars |-> getopt.nextchar]
  ELSE Skipped(Resumed)

\* Behind the end of argv there is nothing to look at.
InRange == InOption \/ Resumed.optind <= argc

\* getopt takes the character c of what it scans: optind goes on with the last
\* character of an option.
Takes(scan, c) == scan.chars # <<>> /\ Head(scan.chars) = c
Rest(scan) == Tail(scan.chars)
Passed(scan) == IF Rest(scan) = <<>> THEN scan.optind + 1 ELSE scan.optind

\* The state that a call leaves.
Leaves(scan, optind, nextchar) ==
  getopt' = [optind |-> optind, first_nonopt |-> scan.first, last_nonopt |-> scan.last,
             nextchar |-> nextchar, strayed |-> getopt.strayed \/ nextchar # <<>>]

-----------------------------------------------------------------------------
Init ==
  /\ given \in CommandLine
  /\ argv = <<Program>> \o given
  /\ getopt = [optind |-> 1, first_nonopt |-> 1, last_nonopt |-> 1, nextchar |-> <<>>,
               strayed |-> FALSE]
  /\ options = [capacity |-> 0, inodes |-> 0, subtype |-> "none", mountpoint |-> Arg("none"),
                deamonize |-> FALSE]
  /\ marks = [argo_idx |-> 0, o_idx1 |-> 0]
  /\ phase = "parsing"

\* The text of the argument at index is parsed; the argument is replaced by
\* what is left of it, or marked if that is nothing.  In "-b" and "-f" the
\* search for the "o" of "-o" goes on behind the end.
ParseOptions(vector, index) ==
  IF index >= argc \/ vector[index + 1].sort \in {"-b", "-f"}
  THEN phase' = "undefined" /\ argv' = vector /\ UNCHANGED <<options, marks>>
  ELSE IF Endless(vector[index + 1].list)
  THEN phase' = "hung" /\ argv' = vector /\ UNCHANGED <<options, marks>>
  ELSE \E opt \in {ParsedInto(options, vector[index + 1].list)} :
         IF ~Verified(opt)
         THEN phase' = "exit" /\ argv' = vector /\ UNCHANGED <<options, marks>>
         ELSE /\ options' = opt /\ UNCHANGED phase
              /\ \E rest \in Leftover(vector[index + 1].list, IsOption(vector[index + 1])) :
                   IF rest = <<>>
                   THEN /\ argv' = vector
                        /\ marks' = [argo_idx |-> index,
                                     o_idx1 |-> IF vector[index].sort = "-o" THEN index - 1
                                                ELSE marks.o_idx1]
                   ELSE /\ argv' = [vector EXCEPT ![index + 1].list = rest]
                        /\ UNCHANGED marks

\* 'o' and its argument, which is the rest of the option or the next argument.
OptionO(scan) ==
  /\ Takes(scan, "o") /\ (Rest(scan) # <<>> \/ Passed(scan) # argc)
  /\ Leaves(scan, Passed(scan) + 1, <<>>)
  /\ ParseOptions(scan.argv, Passed(scan))
  /\ UNCHANGED given

\* '?': 'o' without an argument, or any other option, which stays for fuse_mount.
OptionOther(scan) ==
  /\ \/ Takes(scan, "o") /\ Rest(scan) = <<>> /\ Passed(scan) = argc
     \/ Takes(scan, "?")
  /\ Leaves(scan, Passed(scan), Rest(scan))
  /\ argv' = scan.argv
  /\ UNCHANGED <<given, options, marks, phase>>

\* Fault: the arguments are moved down from one too early.
erase_argBefore(vector, index) ==
  IF index >= Len(vector) THEN vector ELSE RemoveAt(vector, index)
\* Fault: the arguments are not moved down over the one to be erased.
erase_argNone(vector, index) == vector
erase_arg(vector, index) ==
  IF index >= Len(vector) THEN vector ELSE RemoveAt(vector, index + 1)

\* Fault: optind is not moved back.
OptionBKeeps(scan) ==
  /\ Takes(scan, "b")
  /\ options' = [options EXCEPT !.deamonize = TRUE]
  /\ argv' = erase_arg(scan.argv, Passed(scan) - 1)
  /\ \E chars \in IF InOption THEN {Rest(scan)} ELSE Junk : Leaves(scan, Passed(scan), chars)
  /\ UNCHANGED <<given, marks, phase>>
\* The argument is freed with nextchar at its end: the next call of getopt
\* reads there whatever the memory holds.
OptionB(scan) ==
  /\ Takes(scan, "b")
  /\ options' = [options EXCEPT !.deamonize = TRUE]
  /\ argv' = erase_arg(scan.argv, Passed(scan) - 1)
  /\ \E chars \in IF InOption THEN {Rest(scan)} ELSE Junk : Leaves(scan, Passed(scan) - 1, chars)
  /\ UNCHANGED <<given, marks, phase>>

\* With optind behind the end, getopt reads an argument that is not there.
BehindEnd ==
  /\ ~InRange
  /\ phase' = "undefined" /\ UNCHANGED <<given, argv, getopt, options, marks>>

\* ramfs_set_subtype, with the program's name.
WithSubtype(vector) ==
  IF options.subtype # "none" THEN vector ELSE Append(vector, Arg("-osubtype"))

\* getopt has come to the end: the one argument that is left is the mount
\* point.  Marked arguments are erased at the index they were marked at.
Finish(scan) ==
  /\ scan.chars = <<>>
  /\ Leaves(scan, scan.first, <<>>)
  /\ IF scan.first # argc - 1
     THEN phase' = "usage" /\ argv' = scan.argv /\ UNCHANGED options
     ELSE LET taken == WithSubtype(erase_arg(scan.argv, scan.first))
              less == IF marks.argo_idx > 0 THEN erase_arg(taken, marks.argo_idx) ELSE taken
              least == IF marks.o_idx1 > 0 THEN erase_arg(less, marks.o_idx1) ELSE less
          IN  /\ options' = [options EXCEPT !.mountpoint = scan.argv[scan.first + 1],
                               !.subtype = IF @ = "none" THEN "program" ELSE @]
              /\ argv' = least \o <<Arg("-odefault_permissions"), Arg("-oallow_other")>>
              /\ phase' = "done"
  /\ UNCHANGED <<given, marks>>

\* main and the constructor: 0 stands for the default.
Blocks(opt) ==
  IF opt.capacity \div BlockSize = 0 THEN kTotalBlocks ELSE opt.capacity \div BlockSize

Next ==
  /\ phase = "parsing"
  /\ \/ BehindEnd
     \/ InRange /\ \E scan \in {Scan} :
          OptionO(scan) \/ OptionB(scan) \/ OptionOther(scan) \/ Finish(scan)

Spec == Init /\ [][Next]_vars

\* The program goes on as long as it can.
FairSpec == Spec /\ WF_vars(Next)

-----------------------------------------------------------------------------
(* Properties *)

Occurrences(sort) == {i \in DOMAIN given : given[i].sort = sort}

\* Whatever the order of the arguments, and although arguments are erased under
\* getopt: with one argument that is no option it is found as the mount point
\* and "-b" is heeded, and only with none or several the program exits for
\* that; if the memory of a freed "-b" still reads as its end.
MountpointIsFound ==
  ~getopt.strayed =>
    /\ phase = "done" =>
         /\ Cardinality(Occurrences("mountpoint")) = 1 /\ options.mountpoint = Path("mountpoint")
         /\ options.deamonize <=> Occurrences("-b") # {}
    /\ phase = "usage" => Cardinality(Occurrences("mountpoint")) # 1

\* ramfs_parse_cmdline exits with "Missing mountpoint." or "Too many
\* arguments?" if there is not one argument that is no option, and only then.
ExitsAreRight == phase = "usage" => Cardinality(Occurrences("mountpoint")) # 1

\* The options given on the command line, in its order.
GivenOptions == FlattenSeq([i \in DOMAIN given |->
  IF given[i].sort \in {"opts", "-oX"} THEN given[i].list ELSE <<>>])

\* The value of a size: its digits as a decimal number, times its unit.
Value(str) ==
  LET used == SelectSeq(str, LAMBDA c : c # " ")
      unit == Unit(Last(used))
      digits == SelectSeq(used, LAMBDA c : Digit(c) >= 0)
  IN  unit * FoldLeft(LAMBDA n, c : 10 * n + Digit(c), 0, digits)

\* The sizes given.
Sizes == SelectSeq(GivenOptions, LAMBDA o : o.key = "size" /\ o.value # None)

\* ramfs_parse_options: the file system has the blocks that the last size
\* given stands for, if that is a size_t and not 0, up to the largest unit and
\* the last value that fits, wherever the size is among the arguments; if the
\* memory of a freed "-b" still reads as its end.
CapacityIsAsGiven ==
  (phase = "done" /\ ~getopt.strayed /\ Sizes # <<>>) =>
    LET size == Value(Last(Sizes).value)
    IN  size \in 1..(Word - 1) => Blocks(options) = size \div BlockSize

\* ramfs_parse_options: "Capacity of the RAM file system. Supports unit suffix
\* including k,m,g,t,p,e."  The file system has the blocks that the size
\* stands for, or is not mounted.
EverySizeIsHeeded ==
  (phase = "done" /\ ~getopt.strayed /\ Sizes # <<>>) =>
    Blocks(options) = Value(Last(Sizes).value) \div BlockSize

\* ramfs_parse_cmdline comes to an end, although optind is moved back and
\* whatever getopt reads, if every token of the options has a key.
ParsingEnds ==
  (\A i \in DOMAIN given : ~Endless(given[i].list)) ~> phase \notin {"parsing", "hung"}

\* ramfs_parse_cmdline: "After parsing this function will remove parsed
\* arguments from args except '-o [options]'".  An "-o" that is left has its
\* options after it.
OptionsFollowO ==
  phase = "done" => \A i \in DOMAIN argv :
    argv[i].sort = "-o" => i < Len(argv) /\ argv[i + 1].sort = "opts"

=============================================================================
