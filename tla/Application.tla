---------------------------- MODULE Application ----------------------------
(***************************************************************************)
(* programs/rglclock.cpp and about.cpp, run after run of the program: main *)
(* parses the command line, builds the application object, which restores  *)
(* the options, and runs the main loop.  The loop's one activation opens   *)
(* the window, the popup menu's items show the About dialog, in a main     *)
(* loop of its own, or quit; then the object is destroyed, which saves the *)
(* options.  A run may be killed at any moment; the next one finds the     *)
(* files as they are.                                                      *)
(*                                                                         *)
(* There is one instance of the program at a time (Profile is checked with *)
(* two).  GTK is external: while the About dialog runs it has the grab, so *)
(* neither the menu nor the window's close button can be reached; and a    *)
(* dialog that is no longer run stays on the screen, because nothing hides *)
(* or destroys it and GTK keeps its own reference, until the user closes   *)
(* it or the program ends.                                                 *)
(***************************************************************************)
EXTENDS CommandLine

CONSTANTS
  MaxDialogs,   \* bound on the About dialogs left on the screen
  Proc,         \* the process
  Inodes, InitDocs, UserRates, HaveXml, WritesMayFail,
  NoValue, Torn, NoFile   \* those of Profile

VARIABLES
  phase,     \* where main is
  home,      \* HOME is in the environment
  window,    \* the main window is open
  dialogs,   \* About dialogs that are no longer run, but still there
  quitting,  \* g_application_quit was called
  options, tmp, data, stage, rate, changed, doc, fd, edited, saved   \* those of Profile

\* What Profile assumes of its constants.
ASSUME ProfileAssumption ==
  /\ UserRates \subseteq 1..100
  /\ NoValue \notin Int /\ InitDocs \subseteq Seq(Int \cup {NoValue})
  /\ Torn \notin Seq(Int \cup {NoValue}) /\ NoFile \notin Inodes
  /\ {HaveXml, WritesMayFail} \subseteq BOOLEAN

P == INSTANCE Profile WITH Procs <- {Proc}, pc <- stage, Nothing <- NoFile

profileVars == <<options, tmp, data, stage, rate, changed, doc, fd, edited, saved>>
screenVars  == <<window, dialogs, quitting>>
appVars     == <<lineVars, phase, home, screenVars, profileVars>>

Over == {"returned", "uncaught", "killed"}

\* The first run has any command line, the later ones one without a word.
AppInit ==
  /\ \E args \in ArgLists, posixlyCorrect \in BOOLEAN : LineInit(args, posixlyCorrect)
  /\ phase = "parse" /\ home = TRUE
  /\ window = FALSE /\ dialogs = 0 /\ quitting = FALSE
  /\ P!Init

(***************************************************************************)
(* What parse_options used is not looked at again: it is put as after a    *)
(* command line without a word.                                            *)
(***************************************************************************)
LineForgotten ==
  /\ argv' = <<>> /\ given' = <<>> /\ unswapped' = Nothing
  /\ optind' = 1 /\ firstNonopt' = 1 /\ lastNonopt' = 1 /\ nextchar' = 0
  /\ bottom' = 0 /\ middle' = 0 /\ top' = 0 /\ resume' = "none"
  /\ ordering' = "PERMUTE" /\ pc' = "returned" /\ optc' = "-1"
  /\ flags' = StaticFlags /\ outcome' = "run"

-----------------------------------------------------------------------------
Parse ==
  /\ phase = "parse" /\ ParseOptions
  /\ UNCHANGED <<phase, home, screenVars, profileVars>>

MainReturns ==
  /\ phase = "parse" /\ outcome \in {"failure", "version", "help"}
  /\ phase' = "returned"
  /\ UNCHANGED <<lineVars, home, screenVars, profileVars>>

MainGoesOn ==
  /\ phase = "parse" /\ outcome = "run"
  /\ phase' = "construct" /\ home' \in BOOLEAN
  /\ LineForgotten
  /\ UNCHANGED <<screenVars, profileVars>>

(***************************************************************************)
(* The constructor of rglclock_app.  Nobody catches what the string of a   *)
(* null pointer, or restore, throws.                                       *)
(***************************************************************************)
ConstructWithoutHome ==
  /\ phase = "construct" /\ ~home
  /\ phase' = "uncaught"
  /\ UNCHANGED <<lineVars, home, screenVars, profileVars>>

Construct ==
  /\ phase = "construct" /\ home
  /\ \/ P!Start(Proc) /\ phase' = "activate"
     \/ P!StartThrows(Proc) /\ phase' = "uncaught"
  /\ UNCHANGED <<lineVars, home, screenVars>>

(***************************************************************************)
(* g_application_run: it activates the application once, iterates its main *)
(* context, and returns when told to quit or when the last window is gone. *)
(***************************************************************************)
Activate ==
  /\ phase = "activate"
  /\ window' = TRUE
  /\ phase' = "loop"
  /\ UNCHANGED <<lineVars, home, dialogs, quitting, profileVars>>

LoopEnds ==
  /\ phase = "loop" /\ (quitting \/ ~window)
  /\ phase' = "destroy"
  /\ UNCHANGED <<lineVars, home, screenVars, profileVars>>

Responsive == phase = "loop" /\ window /\ ~quitting

\* Mutant: it calls exit instead of g_application_quit.
StopAtOnce ==
  /\ Responsive
  /\ phase' = "returned"
  /\ UNCHANGED <<lineVars, home, screenVars, profileVars>>

\* stop, of the action "exit".
Stop ==
  /\ Responsive
  /\ quitting' = TRUE
  /\ UNCHANGED <<lineVars, phase, home, window, dialogs, profileVars>>

CloseWindow ==
  /\ Responsive
  /\ window' = FALSE
  /\ UNCHANGED <<lineVars, phase, home, dialogs, quitting, profileVars>>

(***************************************************************************)
(* show_about_dialog, of the action "about": it returns when the user has  *)
(* responded, and leaves the dialog behind.                                *)
(***************************************************************************)
ShowAboutDialog ==
  /\ Responsive /\ dialogs < MaxDialogs
  /\ phase' = "about"
  /\ UNCHANGED <<lineVars, home, screenVars, profileVars>>

AboutResponse ==
  /\ phase = "about"
  /\ phase' = "loop" /\ dialogs' = dialogs + 1
  /\ UNCHANGED <<lineVars, home, window, quitting, profileVars>>

CloseDialog ==
  /\ Responsive /\ dialogs > 0
  /\ dialogs' = dialogs - 1
  /\ UNCHANGED <<lineVars, phase, home, window, quitting, profileVars>>

\* The options are changed while the clock runs, from the main loop or a dialog's.
ChangeOptions ==
  /\ phase \in {"loop", "about"}
  /\ \E r \in UserRates : P!ChangeRate(Proc, r)
  /\ UNCHANGED <<lineVars, phase, home, screenVars>>

(***************************************************************************)
(* The destructor of rglclock_app, and the end of main.                    *)
(***************************************************************************)
Destroy ==
  /\ phase = "destroy"
  /\ P!ExitUnsaved(Proc) \/ P!Save(Proc)
  /\ phase' = IF stage'[Proc] = "exited" THEN "returned" ELSE "destroy"
  /\ UNCHANGED <<lineVars, home, screenVars>>

Kill ==
  /\ P!Kill(Proc)
  /\ phase' = "killed"
  /\ UNCHANGED <<lineVars, home, screenVars>>

RunAgain ==
  /\ phase \in Over
  /\ phase' = "construct" /\ home' \in BOOLEAN
  /\ window' = FALSE /\ dialogs' = 0 /\ quitting' = FALSE
  /\ LineForgotten
  /\ UNCHANGED profileVars

Proceed ==
  \/ Parse \/ MainReturns \/ MainGoesOn
  \/ ConstructWithoutHome \/ Construct
  \/ Activate \/ LoopEnds \/ Destroy

AppNext ==
  \/ Proceed
  \/ Stop \/ CloseWindow \/ ShowAboutDialog \/ AboutResponse \/ CloseDialog
  \/ ChangeOptions
  \/ Kill \/ RunAgain

(***************************************************************************)
(* The program goes on by itself where it does not wait for the user.      *)
(***************************************************************************)
AppFairness == WF_appVars(Proceed)

AppSpec == AppInit /\ [][AppNext]_appVars

-----------------------------------------------------------------------------
(***************************************************************************)
(* Properties.                                                             *)
(***************************************************************************)
(* After a save that went through, the next run gets the rate back, after  *)
(* whatever runs that ended at once, threw or were killed in between.      *)
RestoresWhatWasSaved == P!RestoresWhatWasSaved

(* Killed at any moment of a save, a run leaves the old document or the    *)
(* new one.                                                                *)
ReplacedAsAWhole == P!ReplacedAsAWhole

(* NEWS 1.3.1: options changed at run time are saved as an XML document,   *)
(* and not without libxml.  A run that was told of a change and came to    *)
(* its end by the menu or by the window's button has, with the XML code    *)
(* and writes that did not fail, saved the rate last chosen, if the        *)
(* document has an element to hold it; without the XML code it has left    *)
(* the document as it always was.                                          *)
SavedAtTheEnd ==
  phase = "returned" /\ edited[Proc] =>
    IF HaveXml THEN P!Parsed # <<>> => P!Restores(P!Parsed, rate[Proc])
    ELSE P!Parsed \in InitDocs \cup {Torn}

(* Each run gets somewhere: it shows the window, returns, or dies.         *)
LaunchSettles == phase \in {"parse", "construct"} ~> window \/ phase \in Over

(* Once the user has quit or closed the window the program ends, saving    *)
(* and all, even if dialogs were left on the screen.                       *)
QuitEnds == (phase = "loop" /\ (quitting \/ ~window)) ~> phase \in Over
=============================================================================
