------------------------------ MODULE CliArgs ------------------------------
(***************************************************************************)
(* parseArgs of create-shopify-mcp, and what a command line is meant to    *)
(* say.  An argument is the sequence of its parts between "=" signs, so    *)
(* that <<"--example", "basic">> stands for --example=basic; Null is null. *)
(***************************************************************************)
EXTENDS Integers, Sequences, FiniteSets, SequencesExt

CONSTANT UnknownFlags      \* strings that begin with "-" and are no option

Null == <<>>
Empty == <<"">>

ValueFlags == [f \in {"--example", "-e", "--example-path"} |->
                 IF f = "--example-path" THEN "examplePath" ELSE "example"]
HelpFlags == {"--help", "-h"}
VersionFlags == {"--version", "-v"}
Options == DOMAIN ValueFlags \cup HelpFlags \cup VersionFlags \cup {"--no-git"}

ASSUME UnknownAssumption == UnknownFlags \cap Options = {}

Dashed(argument) == Head(argument) \in Options \cup UnknownFlags

NoArgs == [targetDir |-> Null, example |-> Null, examplePath |-> Null,
           git |-> TRUE, help |-> FALSE, version |-> FALSE]

\* Where the loop is: the options so far, the field of a flag that takes the
\* next argument as its value, and whether an error was thrown.
Begin == [args |-> NoArgs, awaiting |-> "nothing", threw |-> FALSE]

Threw(loop) == [loop EXCEPT !.threw = TRUE]
Value(loop, field, value) ==
    [loop EXCEPT !.args[field] = value, !.awaiting = "nothing"]

\* Fault: whatever follows a flag is its value.
TakeValue_Any(loop, argument) == Value(loop, loop.awaiting, argument)

\* The value of a flag: not empty, and not the next flag.
TakeValue(loop, argument) ==
    IF argument = Empty \/ Dashed(argument) THEN Threw(loop)
    ELSE Value(loop, loop.awaiting, argument)

\* A flag that has a value, after its "=" or in the next argument.
TakeValueFlag(loop, field, inlineValue) ==
    CASE inlineValue = Null  -> [loop EXCEPT !.awaiting = field]
      [] inlineValue = Empty -> Threw(loop)
      [] OTHER               -> Value(loop, field, inlineValue)

\* One round of the loop.
Take(loop, argument) ==
    LET name == Head(argument) IN
    CASE loop.threw                   -> loop
      [] ~loop.threw /\ loop.awaiting # "nothing" -> TakeValue(loop, argument)
      [] OTHER ->
    CASE name \in DOMAIN ValueFlags   -> TakeValueFlag(loop, ValueFlags[name], Tail(argument))
      [] name \in HelpFlags           -> [loop EXCEPT !.args.help = TRUE]
      [] name \in VersionFlags        -> [loop EXCEPT !.args.version = TRUE]
      [] name = "--no-git"            -> [loop EXCEPT !.args.git = FALSE]
      [] name \in UnknownFlags        -> Threw(loop)
      [] ~Dashed(argument) ->
            IF loop.args.targetDir = Null
            THEN [loop EXCEPT !.args.targetDir = argument]
            ELSE Threw(loop)

\* The rounds of the loop.
Loop(argv) ==
    LET loop[i \in 0 .. Len(argv)] ==
            IF i = 0 THEN Begin ELSE Take(loop[i - 1], argv[i])
    IN loop

\* The options, or the error.
ParseArgs(argv) ==
    LET end == Loop(argv)[Len(argv)]
        orphan == end.args.examplePath # Null /\ end.args.example = Null IN
    [args |-> IF end.threw \/ end.awaiting # "nothing" \/ orphan THEN NoArgs ELSE end.args,
     threw |-> end.threw \/ end.awaiting # "nothing" \/ orphan]

-----------------------------------------------------------------------------
(* What a command line is meant to say.                                    *)

Argument == Seq(STRING) \ {<<>>}

\* The argument at i is a flag that has its value in the argument behind it.
Bare(argv, i) == Len(argv[i]) = 1 /\ argv[i][1] \in DOMAIN ValueFlags
IsValue(argv, i) == i - 1 \in DOMAIN argv /\ Bare(argv, i - 1)

ValueOf(argv, i) ==
    IF ~Bare(argv, i) THEN Tail(argv[i])
    ELSE IF i + 1 \in DOMAIN argv THEN argv[i + 1] ELSE Null

FlagsFor(argv, field) ==
    {i \in DOMAIN argv : Head(argv[i]) \in DOMAIN ValueFlags /\ ValueFlags[Head(argv[i])] = field}

\* A flag is repeated: its last value counts.
Meant(argv, field) ==
    LET flags == FlagsFor(argv, field) IN
    IF flags = {} THEN Null ELSE ValueOf(argv, CHOOSE i \in flags : \A j \in flags : j <= i)

Directories(argv) == {i \in DOMAIN argv : ~Dashed(argv[i]) /\ ~IsValue(argv, i)}

\* Nothing is left out or understood twice: every value has its flag, every flag
\* its value, there is one directory, and no flag that means nothing.
WellFormed(argv) ==
    /\ \A i \in FlagsFor(argv, "example") \cup FlagsFor(argv, "examplePath") :
          ValueOf(argv, i) \notin {Null, Empty}
    /\ \A i \in DOMAIN argv : IsValue(argv, i) => ~Dashed(argv[i])
    /\ \A i \in DOMAIN argv : Head(argv[i]) \notin UnknownFlags
    /\ Cardinality(Directories(argv)) <= 1
    /\ FlagsFor(argv, "examplePath") # {} => FlagsFor(argv, "example") # {}

Says(argv, names) == \E i \in DOMAIN argv : Head(argv[i]) \in names

Understood(argv, result) ==
    /\ result.threw <=> ~WellFormed(argv)
    /\ ~result.threw =>
          /\ \A field \in {"example", "examplePath"} : result.args[field] = Meant(argv, field)
          /\ result.args.targetDir =
                IF Directories(argv) = {} THEN Null
                ELSE argv[CHOOSE i \in Directories(argv) : TRUE]
          /\ result.args.git <=> ~Says(argv, {"--no-git"})
          /\ result.args.help <=> Says(argv, HelpFlags)
          /\ result.args.version <=> Says(argv, VersionFlags)
=============================================================================
