--------------------------------- MODULE Cli ---------------------------------
(***************************************************************************)
(* One run of the demo CLI ohcli (cmd/ohcli): the subcommand dispatch,     *)
(* reorderArgs, which moves the flags in front of the positionals, the     *)
(* standard library's flag.Parse, the handlers' checks, the call of the    *)
(* library and the exit code.                                              *)
(***************************************************************************)
EXTENDS Integers, Sequences, FiniteSets

CONSTANTS
    Command,    \* what args[1] is; "none" if it is missing
    Token,      \* what the user may type after it
    Year,       \* words that read as a number in minYear..maxYear
    MaxArgs,    \* bound: tokens after the subcommand
    None        \* no request

Plain(w) == [kind |-> "word", name |-> "", text |-> w]
Bare(n) == [kind |-> "flag", name |-> n, text |-> ""]
Assigned(n, w) == [kind |-> "set", name |-> n, text |-> w]

\* A token is a word, -name or -name=text; "-" and "--" are words.
ASSUME TokenAssumption ==
    \A t \in Token : t \in {Plain(t.text), Bare(t.name), Assigned(t.name, t.text)}
ASSUME ArgsAssumption == MaxArgs \in Nat

Handler == {"public", "school", "countries"}
Format == {"text", "json", "csv"}

BoolFlag == {"json", "csv"}
StringFlag(c) == {"lang", "format"} \union (IF c = "school" THEN {"region"} ELSE {})
FlagSet(c) == BoolFlag \union StringFlag(c)

\* A flag that was not given.
Default == [kind |-> "default", name |-> "", text |-> ""]

IsWord(t) == t.kind = "word"
StartsWithDash(t) == ~IsWord(t) \/ t.text \in {"-", "--"}

VARIABLES
    cmd, argv,              \* args[1], args[2:]
    pc,                     \* where the run is
    i,                      \* loop variable of reorderArgs
    flags, positionals,     \* its two lists
    args,                   \* what flag.Parse has left
    strs, bools,            \* the flags' values
    request,                \* what the library is asked
    sent,                   \* whether an HTTP request was sent
    exit                    \* exit code, -1 while running

line     == <<cmd, argv>>
reorder  == <<i, flags, positionals>>
parsed   == <<args, strs, bools>>
outcome  == <<request, sent, exit>>
vars     == <<line, pc, reorder, parsed, outcome>>

Values == Token \union {Default} \union {Plain(t.text) : t \in Token}
Request == [country : Values, year : Values, region : Values, lang : Values, format : Format]

TypeOK ==
    /\ cmd \in Command
    /\ argv \in Seq(Token) /\ Len(argv) <= MaxArgs
    /\ pc \in {"run", "reorder", "parse", "check", "library", "render", "done"}
    /\ i \in 1..(MaxArgs + 1)
    /\ Len(flags) + Len(positionals) = i - 1
    /\ \A s \in {flags, positionals, args} : \A k \in DOMAIN s : s[k] \in Token
    /\ strs \in [StringFlag("school") -> Values]
    /\ bools \in [BoolFlag -> BOOLEAN]
    /\ request \in Request \union {None}
    /\ sent \in BOOLEAN
    /\ exit \in {-1, 0, 1, 2}

Init ==
    /\ cmd \in Command
    /\ argv \in UNION {[1..n -> Token] : n \in 0..(IF cmd \in Handler THEN MaxArgs ELSE 0)}
    /\ pc = "run"
    /\ i = 1 /\ flags = <<>> /\ positionals = <<>>
    /\ args = <<>>
    /\ strs = [f \in StringFlag("school") |-> Default]
    /\ bools = [f \in BoolFlag |-> FALSE]
    /\ request = None /\ sent = FALSE /\ exit = -1

Exit(code) == pc' = "done" /\ exit' = code

-----------------------------------------------------------------------------
(* run: the dispatch.                                                      *)

RunUsage ==
    /\ pc = "run" /\ cmd \in {"none", "unknown"}
    /\ Exit(2)
    /\ UNCHANGED <<line, reorder, parsed, request, sent>>

RunInfo ==
    /\ pc = "run" /\ cmd \in {"version", "help"}
    /\ Exit(0)
    /\ UNCHANGED <<line, reorder, parsed, request, sent>>

RunHandler ==
    /\ pc = "run" /\ cmd \in Handler
    /\ pc' = "reorder"
    /\ UNCHANGED <<line, reorder, parsed, outcome>>

-----------------------------------------------------------------------------
(* reorderArgs.                                                            *)

InLoop == pc = "reorder" /\ i <= Len(argv)

ToPositionals ==
    /\ positionals' = Append(positionals, argv[i])
    /\ i' = i + 1
    /\ UNCHANGED <<line, pc, flags, parsed, outcome>>

ToFlags(n) ==
    /\ flags' = flags \o SubSeq(argv, i, i + n - 1)
    /\ i' = i + n
    /\ UNCHANGED <<line, pc, positionals, parsed, outcome>>

ReorderWord == InLoop /\ IsWord(argv[i]) /\ ToPositionals

\* -name=value and the Boolean flags stand alone.
Alone(t) == t.kind = "set" \/ t.name \in BoolFlag
ReorderAlone == InLoop /\ ~IsWord(argv[i]) /\ Alone(argv[i]) /\ ToFlags(1)

TakesNext == i < Len(argv) /\ ~StartsWithDash(argv[i + 1]) /\ argv[i + 1].text # ""

ReorderPair_FlagOnly ==
    /\ InLoop /\ ~IsWord(argv[i]) /\ ~Alone(argv[i]) /\ TakesNext
    /\ ToFlags(1)
ReorderPair_DropsValue ==
    /\ InLoop /\ ~IsWord(argv[i]) /\ ~Alone(argv[i]) /\ TakesNext
    /\ flags' = Append(flags, argv[i])
    /\ i' = i + 2
    /\ UNCHANGED <<line, pc, positionals, parsed, outcome>>
ReorderPair ==
    /\ InLoop /\ ~IsWord(argv[i]) /\ ~Alone(argv[i]) /\ TakesNext
    /\ ToFlags(2)

ReorderUnpaired ==
    /\ InLoop /\ ~IsWord(argv[i]) /\ ~Alone(argv[i]) /\ ~TakesNext
    /\ ToFlags(1)

ReorderEnd ==
    /\ pc = "reorder" /\ i > Len(argv)
    /\ pc' = "parse" /\ args' = flags \o positionals
    /\ UNCHANGED <<line, reorder, strs, bools, outcome>>

Reorder == ReorderWord \/ ReorderAlone \/ ReorderPair \/ ReorderUnpaired \/ ReorderEnd

-----------------------------------------------------------------------------
(* External: flag.Parse of the standard library.                           *)

AtFlag == pc = "parse" /\ args # <<>> /\ ~IsWord(Head(args))

ParseEnd ==
    /\ pc = "parse"
    /\ args # <<>> => IsWord(Head(args)) /\ Head(args).text # "--"
    /\ pc' = "check"
    /\ UNCHANGED <<line, reorder, parsed, outcome>>

ParseTerminator ==
    /\ pc = "parse" /\ args # <<>> /\ Head(args) = Plain("--")
    /\ pc' = "check" /\ args' = Tail(args)
    /\ UNCHANGED <<line, reorder, strs, bools, outcome>>

Yes   == {"1", "t", "T", "TRUE", "true", "True"}
No    == {"0", "f", "F", "FALSE", "false", "False"}
Truth == Yes \union No

\* An unknown flag (-h included), a Boolean that is none, a missing value.
ParseError ==
    /\ AtFlag
    /\ LET t == Head(args)
       IN \/ t.name \notin FlagSet(cmd)
          \/ t.name \in BoolFlag /\ t.kind = "set" /\ t.text \notin Truth
          \/ t.name \in StringFlag(cmd) /\ t.kind = "flag" /\ Tail(args) = <<>>
    /\ Exit(2)
    /\ UNCHANGED <<line, reorder, parsed, request, sent>>

ParseBool ==
    /\ AtFlag /\ Head(args).name \in BoolFlag
    /\ Head(args).kind = "set" => Head(args).text \in Truth
    /\ bools' = [bools EXCEPT ![Head(args).name] =
                    Head(args).kind = "flag" \/ Head(args).text \in Yes]
    /\ args' = Tail(args)
    /\ UNCHANGED <<line, pc, reorder, strs, outcome>>

ParseString ==
    /\ AtFlag /\ Head(args).name \in StringFlag(cmd)
    /\ LET t == Head(args)
       IN \/ /\ t.kind = "set"
             /\ strs' = [strs EXCEPT ![t.name] = Plain(t.text)]
             /\ args' = Tail(args)
          \/ /\ t.kind = "flag" /\ Tail(args) # <<>>
             /\ strs' = [strs EXCEPT ![t.name] = args[2]]
             /\ args' = Tail(Tail(args))
    /\ UNCHANGED <<line, pc, reorder, bools, outcome>>

Parse == ParseEnd \/ ParseTerminator \/ ParseError \/ ParseBool \/ ParseString

-----------------------------------------------------------------------------
(* cmdPublic, cmdSchool, cmdCountries.                                     *)

NArg(c) == IF c = "countries" THEN 0 ELSE 2

\* --json wins over --csv, and both over --format.
Chosen(f, b) == CASE b["json"] -> Plain("json")
                  [] ~b["json"] /\ b["csv"] -> Plain("csv")
                  [] OTHER -> IF f = Default THEN Plain("text") ELSE f
Acceptable(c, rest, f, b) ==
    /\ Len(rest) = NArg(c)
    /\ c # "countries" => IsWord(rest[2]) /\ rest[2].text \in Year
    /\ \E x \in Format : Chosen(f, b) = Plain(x)

Asked(c, rest, f, b, s) ==
    [country |-> IF c = "countries" THEN Default ELSE rest[1],
     year    |-> IF c = "countries" THEN Default ELSE rest[2],
     region  |-> s["region"], lang |-> s["lang"], format |-> Chosen(f, b).text]

CheckFails ==
    /\ pc = "check" /\ ~Acceptable(cmd, args, strs["format"], bools)
    /\ Exit(2)
    /\ UNCHANGED <<line, reorder, parsed, request, sent>>

Ask ==
    /\ pc = "check" /\ Acceptable(cmd, args, strs["format"], bools)
    /\ pc' = "library"
    /\ request' = Asked(cmd, args, strs["format"], bools, strs)
    /\ UNCHANGED <<line, reorder, parsed, sent, exit>>

\* What the library rejects before it sends anything, and what else can fail.
Sentinel == {"ErrInvalidCountry", "ErrInvalidLanguage", "ErrInvalidDateRange",
             "ErrDateRangeTooLarge"}
OtherError == {"api", "transport", "empty", "tooLarge", "malformed"}

libErrExitCode_EmptyIsUsage(e) == IF e \in Sentinel \union {"empty"} THEN 2 ELSE 1
libErrExitCode(e) == IF e \in Sentinel THEN 2 ELSE 1

\* Countries takes no country and no window.
Raised(c) == IF c = "countries" THEN {"ErrInvalidLanguage"} ELSE Sentinel

Rejected ==
    /\ pc = "library"
    /\ \E e \in Raised(cmd) : Exit(libErrExitCode(e))
    /\ UNCHANGED <<line, reorder, parsed, request, sent>>

\* A base URL from the environment that no request can be built from.
Unsendable ==
    /\ pc = "library"
    /\ Exit(libErrExitCode("other"))
    /\ UNCHANGED <<line, reorder, parsed, request, sent>>

Failed ==
    /\ pc = "library"
    /\ sent' = TRUE
    /\ \E e \in OtherError : Exit(libErrExitCode(e))
    /\ UNCHANGED <<line, reorder, parsed, request>>

NothingFound ==
    /\ pc = "library"
    /\ sent' = TRUE
    /\ Exit(0)
    /\ UNCHANGED <<line, reorder, parsed, request>>

Found ==
    /\ pc = "library"
    /\ sent' = TRUE
    /\ pc' = "render"
    /\ UNCHANGED <<line, reorder, parsed, request, exit>>

Render ==
    /\ pc = "render"
    /\ \E code \in {0, 1} : Exit(code)
    /\ UNCHANGED <<line, reorder, parsed, request, sent>>

Run == RunUsage \/ RunInfo \/ RunHandler
Handle == CheckFails \/ Ask \/ Rejected \/ Unsendable \/ Failed \/ NothingFound \/ Found \/ Render

Next == Run \/ Reorder \/ Parse \/ Handle

Spec == Init /\ [][Next]_vars

-----------------------------------------------------------------------------
(* What a command line says, read off it as a whole.                       *)

TakesValue(t) == t.kind = "flag" /\ t.name \notin BoolFlag

\* Every flag that takes a value is followed by a word that can be one, and
\* the terminator "--" does not occur.
WellFormed(l) ==
    \A j \in DOMAIN l :
        /\ l[j] # Plain("--")
        /\ TakesValue(l[j]) => /\ j < Len(l)
                               /\ ~StartsWithDash(l[j + 1]) /\ l[j + 1].text # ""

Owned(l, j) == j > 1 /\ TakesValue(l[j - 1])

\* Where the positionals stand.
Free(l) == {j \in DOMAIN l : IsWord(l[j]) /\ ~Owned(l, j)}
FirstFree(l) == CHOOSE j \in Free(l) : \A k \in Free(l) : j <= k
LastFree(l) == CHOOSE j \in Free(l) : \A k \in Free(l) : k <= j

Given(l, f) == {j \in DOMAIN l : ~IsWord(l[j]) /\ l[j].name = f}
LastGiven(l, f) == CHOOSE j \in Given(l, f) : \A k \in Given(l, f) : k <= j

StringOf(l, f) ==
    IF Given(l, f) = {} THEN Default
    ELSE LET t == l[LastGiven(l, f)]
         IN IF t.kind = "set" THEN Plain(t.text) ELSE l[LastGiven(l, f) + 1]
IsOn(l, f) ==
    /\ Given(l, f) # {}
    /\ l[LastGiven(l, f)].kind = "flag" \/ l[LastGiven(l, f)].text \in Yes

BadFlag(c, t) ==
    /\ ~IsWord(t)
    /\ \/ t.name \notin FlagSet(c)
       \/ t.kind = "set" /\ t.name \in BoolFlag /\ t.text \notin Truth

\* The output format a line asks for: json before csv before --format.
FormatOf(l) == IF IsOn(l, "json") THEN "json"
               ELSE IF IsOn(l, "csv") THEN "csv"
               ELSE IF StringOf(l, "format") = Default THEN "text"
               ELSE StringOf(l, "format").text

Reading(c, l) ==
    IF \/ \E j \in DOMAIN l : BadFlag(c, l[j])
       \/ Cardinality(Free(l)) # NArg(c)
       \/ c # "countries" /\ l[LastFree(l)].text \notin Year
       \/ FormatOf(l) \notin Format
    THEN None
    ELSE [country |-> IF c = "countries" THEN Default ELSE l[FirstFree(l)],
          year    |-> IF c = "countries" THEN Default ELSE l[LastFree(l)],
          region  |-> IF c = "school" THEN StringOf(l, "region") ELSE Default,
          lang    |-> StringOf(l, "lang"), format |-> FormatOf(l)]

-----------------------------------------------------------------------------
(* What must be true of it.                                                *)

\* Flags and positionals may be mixed in any order: a well-formed line is
\* accepted, and asks the library, just as if each flag had been read where it
\* stands and each free word counted (main.go:132-135, public.go:56-60).
OrderIsIrrelevant ==
    cmd \in Handler /\ WellFormed(argv) /\ pc \in {"library", "render", "done"} =>
        request = Reading(cmd, argv)

\* The exit-code contract: 2 is for the caller's mistakes, so no run that ends
\* with it has sent anything, and none that got an answer ends with it
\* (public.go:8-18, main.go:210-215).
UsageErrorSendsNothing == exit = 2 => ~sent
=============================================================================
