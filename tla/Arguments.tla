----------------------------- MODULE Arguments -----------------------------
(***************************************************************************)
(* How the four programs read their command lines: parse_args and          *)
(* parse_opt of collatz, ethstats and asciiclient (arguments.c of          *)
(* assignment1, 2 and 4) under argp, the constructor of trace6's           *)
(* Arguments.java, and the file that asciiclient's main reads.             *)
(*                                                                         *)
(* argp is external: it hands the options to parse_opt first, with the     *)
(* word behind each as its argument, and then the other words in order;    *)
(* "--" ends the options, and any other word with a dash is an error.      *)
(* A word stands for itself, the long form of an option for the short one. *)
(***************************************************************************)
EXTENDS Integers, Sequences, FiniteSets, Functions

CONSTANTS
    CommandLines,  \* what the programs are called with, see below
    Number,        \* the numbers among the words
    Dashed,        \* the words that begin with a dash
    IntMod         \* 2^32

Programs == {"collatz", "ethstats", "trace6", "asciiclient"}

None == "NULL"

ASSUME CommandLinesAssumption ==
    \A c \in CommandLines :
        /\ DOMAIN c = {"prog", "argv"} /\ c.prog \in Programs
        /\ c.argv \in Seq(Range(c.argv)) /\ None \notin Range(c.argv)
ASSUME NumberAssumption == (\A w \in DOMAIN Number : Number[w] \in Int) /\ IntMod \in Nat \ {0}

VARIABLES
    prog, argv,  \* the call
    at,          \* "start", "words", "args", "file"; "run": parsed;
                 \* "help" or "failed": the program has ended
    next,        \* index of the next word
    rest,        \* the words that are no options
    argNum,      \* state->arg_num: how many of them parse_opt has seen
    args         \* struct arguments

argVars == <<prog, argv, at, next, rest, argNum, args>>

-----------------------------------------------------------------------------
(* The programs' tables.                                                   *)

Java == prog = "trace6"

OptionWords ==
    CASE prog = "collatz" -> {}
      [] prog = "ethstats" -> {"-i"}
      [] prog = "trace6" -> {"-i", "-t", "-q", "-m"}
      [] prog = "asciiclient" -> {"-f", "-p", "-m"}

OptionField(w) ==
    CASE w = "-i" -> IF Java THEN "iface" ELSE "interface"
      [] w = "-t" -> "timeout"
      [] w = "-q" -> "attempts"
      [] w = "-m" -> IF Java THEN "hoplimit" ELSE "msg"
      [] w = "-f" -> "file"
      [] w = "-p" -> "port"

Options == [w \in OptionWords |-> OptionField(w)]

Positionals ==
    CASE prog = "collatz" -> <<"start">>
      [] prog = "ethstats" -> <<"frames">>
      [] prog = "trace6" -> <<"dst">>
      [] prog = "asciiclient" -> <<"nick", "dst">>

Defaults(program) ==
    CASE program = "collatz" -> [start |-> 0]
      [] program = "ethstats" -> [interface |-> "eth0", frames |-> 10]
      [] program = "trace6" ->
           [dst |-> None, iface |-> "eth0", timeout |-> 5, hoplimit |-> 15, attempts |-> 3]
      [] program = "asciiclient" ->
           [nick |-> None, dst |-> None, port |-> 1337, msg |-> None, file |-> None]

Numeric == {"start", "frames", "timeout", "hoplimit", "attempts", "port"}

\* (int) of a long.
Int32(n) == ((n + (IntMod \div 2)) % IntMod) - (IntMod \div 2)

\* strtol and its checks, of which only collatz finds that there is no number;
\* Integer.parseInt takes an int and nothing else.
Readable(w) ==
    \/ w \in DOMAIN Number /\ (Java => Number[w] = Int32(Number[w]))
    \/ w = "" /\ prog \in {"ethstats", "asciiclient"}

ReadNumber(w) ==
    IF w \notin DOMAIN Number THEN 0
    ELSE IF prog = "collatz" THEN Number[w] ELSE Int32(Number[w])

-----------------------------------------------------------------------------
ArgInit ==
    /\ \E c \in CommandLines : prog = c.prog /\ argv = c.argv
    /\ at = "start" /\ next = 1 /\ rest = <<>> /\ argNum = 0
    /\ args = Defaults(prog)

\* What is checked before any word.
Start ==
    /\ at = "start"
    /\ at' = CASE argv = <<>> /\ prog = "collatz" -> "failed"
               [] argv = <<>> /\ prog = "trace6" -> "help"
               [] OTHER -> "words"
    /\ UNCHANGED <<prog, argv, next, rest, argNum, args>>

Word == argv[next]
AtWord == at = "words" /\ next <= Len(argv)

\* Variant: the first value stays.
StoreFirst(field, w) ==
    IF field \in Numeric /\ ~Readable(w)
    THEN at' = "failed" /\ UNCHANGED args
    ELSE /\ args' = IF args[field] # Defaults(prog)[field] THEN args
                    ELSE [args EXCEPT ![field] = IF field \in Numeric THEN ReadNumber(w) ELSE w]
         /\ UNCHANGED at

\* parse_opt, and the branches of the switch in trace6.
Store(field, w) ==
    IF field \in Numeric /\ ~Readable(w)
    THEN at' = "failed" /\ UNCHANGED args
    ELSE /\ args' = [args EXCEPT ![field] = IF field \in Numeric THEN ReadNumber(w) ELSE w]
         /\ UNCHANGED at

\* An option and the word behind it, without which argp gives up and argv[++i]
\* throws.
TakeOption ==
    /\ AtWord /\ Word \in DOMAIN Options
    /\ IF next = Len(argv) THEN at' = "failed" /\ UNCHANGED args
       ELSE Store(Options[Word], argv[next + 1])
    /\ next' = next + 2
    /\ UNCHANGED <<prog, argv, rest, argNum>>

Help ==
    /\ AtWord /\ Word = "--help"
    /\ at' = "help"
    /\ UNCHANGED <<prog, argv, next, rest, argNum, args>>

\* argp: the other words are no options.
EndOfOptions ==
    /\ AtWord /\ ~Java /\ Word = "--"
    /\ rest' = rest \o SubSeq(argv, next + 1, Len(argv))
    /\ next' = Len(argv) + 1
    /\ UNCHANGED <<prog, argv, at, argNum, args>>

UnknownOption ==
    /\ AtWord /\ ~Java /\ Word \in Dashed \ (DOMAIN Options \cup {"--help", "--"})
    /\ at' = "failed"
    /\ UNCHANGED <<prog, argv, next, rest, argNum, args>>

\* trace6 has an array of one for them, and takes unknown options for them.
TakeWord ==
    /\ AtWord /\ Word \notin DOMAIN Options \cup {"--help"}
    /\ Java \/ Word \notin Dashed \cup {"--"}
    /\ IF Java /\ rest # <<>>
       THEN at' = "failed" /\ UNCHANGED rest
       ELSE rest' = Append(rest, Word) /\ UNCHANGED at
    /\ next' = next + 1
    /\ UNCHANGED <<prog, argv, argNum, args>>

WordsEnd ==
    /\ at = "words" /\ next > Len(argv)
    /\ at' = "args"
    /\ UNCHANGED <<prog, argv, next, rest, argNum, args>>

\* ARGP_KEY_ARG; dst = fargs[0].
TakeArg ==
    /\ at = "args" /\ argNum < Len(rest)
    /\ IF argNum = Len(Positionals) THEN at' = "failed" /\ UNCHANGED args
       ELSE Store(Positionals[argNum + 1], rest[argNum + 1])
    /\ argNum' = argNum + 1
    /\ UNCHANGED <<prog, argv, next, rest>>

\* Variant: a message is not asked for.
CompleteWithoutMessage == prog \in {"trace6", "asciiclient"} => args.dst # None

\* What parse_args checks in the end.
Complete ==
    CASE prog = "trace6" -> args.dst # None
      [] prog = "asciiclient" ->
           args.dst # None /\ args.nick # None /\ (args.file # None \/ args.msg # None)
      [] OTHER -> TRUE

ArgsEnd ==
    /\ at = "args" /\ argNum = Len(rest)
    /\ at' = IF ~Complete THEN "failed"
             ELSE IF prog = "asciiclient" /\ args.file # None THEN "file" ELSE "run"
    /\ UNCHANGED <<prog, argv, next, rest, argNum, args>>

\* asciiclient's main: open and read may fail.
ReadFile ==
    /\ at = "file"
    /\ \/ at' = "run" /\ args' = [args EXCEPT !.msg = <<"content of", args.file>>]
       \/ at' = "failed" /\ UNCHANGED args
    /\ UNCHANGED <<prog, argv, next, rest, argNum>>

ArgNext ==
    \/ Start \/ TakeOption \/ Help \/ EndOfOptions \/ UnknownOption \/ TakeWord
    \/ WordsEnd \/ TakeArg \/ ArgsEnd \/ ReadFile

-----------------------------------------------------------------------------
(* What a command line means, read at one glance.                          *)

\* The words that are options: not the arguments of others, not behind "--".
OptionAt ==
    CHOOSE S \in SUBSET DOMAIN argv :
        \A k \in DOMAIN argv :
            k \in S <=>
                /\ argv[k] \in DOMAIN Options /\ k - 1 \notin S
                /\ ~\E j \in 1..(k - 1) : ~Java /\ argv[j] = "--" /\ j - 1 \notin S
Valued == {k \in DOMAIN argv : k - 1 \in OptionAt}
Markers == {k \in DOMAIN argv \ Valued : ~Java /\ argv[k] = "--"}
Behind(k) == \E j \in Markers : j < k
Free == {k \in DOMAIN argv \ (OptionAt \cup Valued) : k \in Markers => Behind(k)}
Place(k) == Cardinality({j \in Free : j <= k})

ValueOf(field, k) == IF field \in Numeric THEN ReadNumber(argv[k]) ELSE argv[k]
Given(field) == {k \in OptionAt : Options[argv[k]] = field}
Latest(field) == CHOOSE k \in Given(field) : \A j \in Given(field) : j <= k
Takes(k, field) == Place(k) \in DOMAIN Positionals /\ Positionals[Place(k)] = field

\* The last of an option's values counts, and the other words in order.
Meaning(field) ==
    IF field = "msg" /\ Given("file") # {} THEN <<"content of", argv[Latest("file") + 1]>>
    ELSE IF Given(field) # {} THEN ValueOf(field, Latest(field) + 1)
    ELSE IF \E k \in Free : Takes(k, field)
    THEN ValueOf(field, CHOOSE k \in Free : Takes(k, field))
    ELSE Defaults(prog)[field]

\* What the documentation of the programs asks for: a START for collatz
\* (args_doc, assignment1/src/arguments.c:10), while ethstats has a default for
\* its NUM.
WellFormed ==
    /\ Len(argv) \notin OptionAt
    /\ \A k \in OptionAt : Options[argv[k]] \in Numeric => Readable(argv[k + 1])
    /\ \A k \in Free :
         /\ Place(k) <= Len(Positionals)
         /\ Positionals[Place(k)] \in Numeric => Readable(argv[k])
         /\ Behind(k) \/ (argv[k] # "--help" /\ (Java \/ argv[k] \notin Dashed))
    /\ prog = "collatz" => Free # {}
    /\ prog = "trace6" => Cardinality(Free) = 1
    /\ prog = "asciiclient" => Cardinality(Free) = 2 /\ Given("file") \cup Given("msg") # {}

-----------------------------------------------------------------------------
(* Properties.                                                             *)

Parsed == {"run", "help", "failed"}

\* A program runs with what its command line says, however options and other
\* words are mixed: the last value of each option, the words in their order,
\* the defaults for the others, and a file before a message
\* (assignment4/src/arguments.c:30).
RunsAsMeant == at = "run" => \A field \in DOMAIN args : args[field] = Meaning(field)

\* A word, but no START.
StartIsMissing == prog = "collatz" /\ argv = <<"--">>

\* It refuses every command line with something missing, unreadable, unknown or
\* left over, and no other, unless the file cannot be read.  One slips through:
\* "collatz --" has a word but no START (assignment1/src/arguments.c:65 only
\* counts the words), and runs with 0.
RefusesMalformed ==
    /\ at = "run" => (WellFormed <=> ~StartIsMissing)
    /\ at \in {"help", "failed"} /\ WellFormed => prog = "asciiclient" /\ args.file # None
=============================================================================
