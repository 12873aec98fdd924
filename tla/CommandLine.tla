---------------------------- MODULE CommandLine ----------------------------
(***************************************************************************)
(* parse_options of programs/rglclock.cpp and what main makes of it: a     *)
(* wrong option ends the program with a failure, --version and --help end  *)
(* it with a message, else the clock is started.                           *)
(***************************************************************************)
EXTENDS Getopt

(***************************************************************************)
(* The option table, and the static variables it points to.                *)
(***************************************************************************)
Entry(name, flag, val) == [name |-> name, flag |-> flag, val |-> val]
HideMenuBar == Entry("hide-menu-bar", "opt_with_menu_bar", FALSE)
Help        == Entry("help", "opt_help", TRUE)
Version     == Entry("version", "opt_version", TRUE)
LongOpts == {HideMenuBar, Help, Version}
ShortOpts == {"m"}
StaticFlags ==
  [f \in {"opt_with_menu_bar", "opt_help", "opt_version"} |-> f = "opt_with_menu_bar"]

CONSTANTS
  Words,     \* words the user may write
  ArgLists   \* command lines the user may write

ASSUME ShortOptionsAssumption == ShortOptions = ShortOpts
ASSUME WordsAssumption ==
  \A w \in Words :
    /\ w.kind \in {"operand", "end", "short", "long"}
    /\ w = EndOfOptions <=> w.kind = "end"
    /\ w.kind = "short" => w.chars \in Seq(STRING) /\ Len(w.chars) > 0
    /\ w.kind = "long" => w.matches \subseteq LongOpts /\ w.value \in BOOLEAN
ASSUME ArgListsAssumption == ArgLists \subseteq Seq(Words)

VARIABLES
  given,    \* history: argv as the program got it
  outcome   \* what main does after parse_options, or "parsing"

lineVars == <<getoptVars, given, outcome>>

LineInit(args, posixlyCorrect) ==
  /\ GetoptInit(args, posixlyCorrect, StaticFlags)
  /\ given = args /\ outcome = "parsing"

Scan == outcome = "parsing" /\ GetoptLong /\ UNCHANGED <<given, outcome>>

(***************************************************************************)
(* The loop of parse_options.                                              *)
(***************************************************************************)
WrongOption ==
  /\ pc = "returned" /\ optc = "?" /\ outcome = "parsing"
  /\ outcome' = "failure"
  /\ UNCHANGED <<getoptVars, given>>

NextOption ==
  /\ pc = "returned" /\ optc \in {"0", "m"} /\ outcome = "parsing"
  /\ flags' = IF optc = "m" THEN [flags EXCEPT !["opt_with_menu_bar"] = FALSE] ELSE flags
  /\ pc' = "call"
  /\ UNCHANGED <<argv, scan, ordering, swap, optc, given, outcome>>

LastOption ==
  /\ pc = "returned" /\ optc = "-1" /\ outcome = "parsing"
  /\ outcome' = IF flags["opt_version"] THEN "version"
                ELSE IF flags["opt_help"] THEN "help" ELSE "run"
  /\ UNCHANGED <<getoptVars, given>>

ParseOptions == Scan \/ WrongOption \/ NextOption \/ LastOption

-----------------------------------------------------------------------------
(***************************************************************************)
(* What a user may expect of a command line, without a scan.               *)
(***************************************************************************)
IsOption(w) == w.kind \in {"short", "long"}
Stops(w) == w = EndOfOptions \/ (ordering = "REQUIRE_ORDER" /\ ~IsOption(w))

\* The words before the one that ends the options.
Before == {i \in 1..Len(given) : \A j \in 1..i : ~Stops(given[j])}

Wrong(w) ==
  \/ w.kind = "short" /\ \E i \in 1..Len(w.chars) : w.chars[i] \notin ShortOpts
  \/ w.kind = "long" /\ (Cardinality(w.matches) # 1 \/ w.value)
Names(w, flag) == w.kind = "long" /\ \E o \in w.matches : o.flag = flag
Asks(flag) == \E i \in Before : Names(given[i], flag)

Declared ==
  IF \E i \in Before : Wrong(given[i]) THEN "failure"
  ELSE IF Asks("opt_version") THEN "version"
  ELSE IF Asks("opt_help") THEN "help" ELSE "run"

(* What main does depends on the words before "--" alone (or before the    *)
(* first operand, for POSIX), wherever the operands stand between them.    *)
OutcomeAsDeclared == outcome # "parsing" => outcome = Declared

\* Those words, and "--" if that is what ends the options.
Sifted ==
  {i \in 1..Len(given) :
     \A j \in 1..i : Stops(given[j]) => j = i /\ given[i] = EndOfOptions}

\* How many of the first i words go to the front, and where word i goes.
Ahead(i) == Cardinality({j \in Sifted : j <= i /\ given[j].kind # "operand"})
Place(i) ==
  IF i \notin Sifted THEN i
  ELSE IF given[i].kind # "operand" THEN Ahead(i)
  ELSE Ahead(Len(given)) + (i - Ahead(i))

(* When getopt has returned -1, the options come first, then "--", then    *)
(* the operands, each in the order given, and optind is the first operand. *)
OperandsLast ==
  outcome \notin {"parsing", "failure"} =>
    /\ Len(argv) = Len(given) /\ \A i \in 1..Len(given) : argv[Place(i)] = given[i]
    /\ optind = 1 + Ahead(Len(given))
=============================================================================
