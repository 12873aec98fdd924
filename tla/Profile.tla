------------------------------- MODULE Profile -------------------------------
(***************************************************************************)
(* Class profile of programs/profile.cpp, as programs/rglclock.cpp uses    *)
(* it: the options are restored when the application object is built and   *)
(* saved when it is destroyed.  Saving parses the old document, sets the   *)
(* update rate in it, writes it to a temporary file and renames that over  *)
(* the old one, ignoring every error.                                      *)
(*                                                                         *)
(* The program may be killed between any two system calls, and several     *)
(* instances of it may run at once (its GtkApplication has no identifier,  *)
(* so it is not unique): they share the options file AND the name of the   *)
(* temporary one.  The file system is modelled by names and inodes.        *)
(*                                                                         *)
(* Data abstraction: of a document only its "misc" elements are kept, each *)
(* as what atoi makes of its "update" attribute, or NoValue when that is   *)
(* missing or empty.                                                       *)
(***************************************************************************)
EXTENDS Integers, Sequences

CONSTANTS
  Procs,           \* processes running the program
  Inodes,          \* identities of files
  InitDocs,        \* documents the options file may hold at the beginning
  UserRates,       \* rates users choose
  HaveXml,         \* HAVE_GNOME_XML_PARSER_H: the XML code is compiled in
  WritesMayFail,   \* the disk may be full, the directory missing, ...
  NoValue, Torn, Nothing

ASSUME UserRateAssumption == UserRates \subseteq 1..100
ASSUME DocAssumption ==
  /\ NoValue \notin Int /\ InitDocs \subseteq Seq(Int \cup {NoValue})
  /\ Torn \notin Seq(Int \cup {NoValue}) /\ Nothing \notin Inodes
ASSUME BuildAssumption == {HaveXml, WritesMayFail} \subseteq BOOLEAN

VARIABLES
  options, tmp,    \* inode of ~/.rglclock/options and of its .tmp, or Nothing
  data,            \* content of each inode: a document, or Torn
  pc,              \* where each process is
  rate,            \* its movement's update rate
  changed,         \* its profile's `changed'
  doc,             \* the document it is saving
  fd,              \* the inode it is writing, or Nothing
  edited,          \* history: options_changed was called since it started
  saved            \* history: the rate the last undisturbed save left, or Nothing

files == <<options, tmp, data>>
procs == <<pc, rate, changed, doc, fd, edited>>
vars  == <<files, procs, saved>>

Down == {"off", "exited", "killed", "uncaught"}
Stages == Down \cup {"running", "parsed", "writing", "written"}
DefaultUpdateRate == 20
LegalRates == 1..100

-----------------------------------------------------------------------------
(***************************************************************************)
(* xmlParseFile(options): Torn stands for the NULL it returns for a file   *)
(* that is missing or malformed.                                           *)
(***************************************************************************)
Parsed == IF options = Nothing THEN Torn ELSE data[options]

(***************************************************************************)
(* restore: each update attribute with a value is handed to                *)
(* set_update_rate in document order, which throws when out of range.      *)
(***************************************************************************)
Throws(d) == d # Torn /\ \E i \in 1..Len(d) : d[i] # NoValue /\ d[i] \notin LegalRates

\* Otherwise the last one stays in force, or without any the default.
Restores(d, r) ==
  IF d = Torn \/ (\A i \in 1..Len(d) : d[i] = NoValue) THEN r = DefaultUpdateRate
  ELSE \E i \in 1..Len(d) : d[i] = r /\ \A j \in (i + 1)..Len(d) : d[j] = NoValue

Init ==
  /\ \/ options = Nothing /\ data = [i \in Inodes |-> Torn]
     \/ \E i \in Inodes, d \in InitDocs :
          options = i /\ data = [j \in Inodes |-> IF j = i THEN d ELSE Torn]
  /\ tmp = Nothing
  /\ pc = [p \in Procs |-> "off"]
  /\ rate = [p \in Procs |-> DefaultUpdateRate]
  /\ changed = [p \in Procs |-> FALSE]
  /\ doc = [p \in Procs |-> Torn]
  /\ fd = [p \in Procs |-> Nothing]
  /\ edited = [p \in Procs |-> FALSE]
  /\ saved = Nothing

(***************************************************************************)
(* The constructor of rglclock_app: open and restore.  What restore throws *)
(* nobody catches.                                                         *)
(***************************************************************************)
Start(p) ==
  /\ pc[p] \in Down
  /\ ~(HaveXml /\ Throws(Parsed))
  /\ pc' = [pc EXCEPT ![p] = "running"]
  /\ \E r \in LegalRates :
       /\ IF HaveXml THEN Restores(Parsed, r) ELSE r = DefaultUpdateRate
       /\ rate' = [rate EXCEPT ![p] = r]
  /\ changed' = [changed EXCEPT ![p] = FALSE]
  /\ edited' = [edited EXCEPT ![p] = FALSE]
  /\ UNCHANGED <<files, doc, fd, saved>>

\* Mutant: the exception is caught and the clock starts with its default.
StartCatches(p) ==
  /\ pc[p] \in Down
  /\ HaveXml /\ Throws(Parsed)
  /\ pc' = [pc EXCEPT ![p] = "running"]
  /\ UNCHANGED <<files, rate, changed, doc, fd, edited, saved>>

StartThrows(p) ==
  /\ pc[p] \in Down
  /\ HaveXml /\ Throws(Parsed)
  /\ pc' = [pc EXCEPT ![p] = "uncaught"]
  /\ UNCHANGED <<files, rate, changed, doc, fd, edited, saved>>

(***************************************************************************)
(* The user changes the rate while the clock runs, and whoever changes it  *)
(* tells the profile, or does not (external: the options dialog, which did *)
(* both, is compiled out of this version).                                 *)
(***************************************************************************)
OptionsChanged(p) ==
  /\ changed' = [changed EXCEPT ![p] = TRUE]
  /\ edited' = [edited EXCEPT ![p] = TRUE]

ChangeRate(p, r) ==
  /\ pc[p] = "running" /\ r # rate[p]
  /\ rate' = [rate EXCEPT ![p] = r]
  /\ OptionsChanged(p) \/ UNCHANGED <<changed, edited>>
  /\ UNCHANGED <<files, pc, doc, fd, saved>>

(***************************************************************************)
(* The destructor of rglclock_app: save.  Nothing to do without changes,   *)
(* or without the XML code.                                                *)
(***************************************************************************)
ExitUnsaved(p) ==
  /\ pc[p] = "running" /\ ~(changed[p] /\ HaveXml)
  /\ pc' = [pc EXCEPT ![p] = "exited"]
  /\ changed' = [changed EXCEPT ![p] = FALSE]
  /\ UNCHANGED <<files, rate, doc, fd, edited, saved>>

(***************************************************************************)
(* A missing or malformed file makes a new document with one misc element; *)
(* every misc element of the document then gets the rate.                  *)
(***************************************************************************)
\* Mutant: elements that already have a value keep it.
WithRateIfMissing(d, r) ==
  IF d = Torn THEN <<r>> ELSE [i \in DOMAIN d |-> IF d[i] = NoValue THEN r ELSE d[i]]

WithRate(d, r) == IF d = Torn THEN <<r>> ELSE [i \in DOMAIN d |-> r]

\* Mutant: saves whether or not anything was changed.
SaveParseAlways(p) ==
  /\ pc[p] = "running" /\ HaveXml
  /\ pc' = [pc EXCEPT ![p] = "parsed"]
  /\ changed' = [changed EXCEPT ![p] = FALSE]
  /\ doc' = [doc EXCEPT ![p] = WithRate(Parsed, rate[p])]
  /\ UNCHANGED <<files, rate, fd, edited, saved>>

SaveParse(p) ==
  /\ pc[p] = "running" /\ changed[p] /\ HaveXml
  /\ pc' = [pc EXCEPT ![p] = "parsed"]
  /\ changed' = [changed EXCEPT ![p] = FALSE]
  /\ doc' = [doc EXCEPT ![p] = WithRate(Parsed, rate[p])]
  /\ UNCHANGED <<files, rate, fd, edited, saved>>

(***************************************************************************)
(* xmlSaveFile(tmp), in two steps: it opens the file, truncating the one   *)
(* that is there, and writes the document.  The error it may return, of    *)
(* either step, is ignored.  Writing over what another process wrote into  *)
(* the same file may leave a tail of it behind.                            *)
(***************************************************************************)
\* Mutant: the options file itself is opened for writing.
SaveOpenInPlace(p) ==
  /\ pc[p] = "parsed"
  /\ \E i \in IF options # Nothing THEN {options} ELSE Inodes \ {fd[q] : q \in Procs} :
       /\ options' = i
       /\ data' = [data EXCEPT ![i] = Torn]
       /\ fd' = [fd EXCEPT ![p] = i]
  /\ pc' = [pc EXCEPT ![p] = "writing"]
  /\ UNCHANGED <<tmp, rate, changed, doc, edited, saved>>

\* Mutant: waits for a temporary file left by an earlier save to disappear.
SaveOpenExclusive(p) ==
  /\ pc[p] = "parsed" /\ tmp = Nothing
  /\ \E i \in Inodes \ ({options} \cup {fd[q] : q \in Procs}) :
       /\ tmp' = i
       /\ data' = [data EXCEPT ![i] = Torn]
       /\ fd' = [fd EXCEPT ![p] = i]
  /\ pc' = [pc EXCEPT ![p] = "writing"]
  /\ UNCHANGED <<options, rate, changed, doc, edited, saved>>

SaveOpen(p) ==
  /\ pc[p] = "parsed"
  /\ \E i \in IF tmp # Nothing THEN {tmp} ELSE Inodes \ ({options} \cup {fd[q] : q \in Procs}) :
       /\ tmp' = i
       /\ data' = [data EXCEPT ![i] = Torn]
       /\ fd' = [fd EXCEPT ![p] = i]
  /\ pc' = [pc EXCEPT ![p] = "writing"]
  /\ UNCHANGED <<options, rate, changed, doc, edited, saved>>

SaveOpenFails(p) ==
  /\ pc[p] = "parsed" /\ WritesMayFail
  /\ pc' = [pc EXCEPT ![p] = "written"]
  /\ UNCHANGED <<files, rate, changed, doc, fd, edited, saved>>

SaveWrite(p) ==
  /\ pc[p] = "writing"
  /\ \E result \in IF data[fd[p]] = Torn THEN {doc[p]} ELSE {doc[p], Torn} :
       data' = [data EXCEPT ![fd[p]] = result]
  /\ fd' = [fd EXCEPT ![p] = Nothing]
  /\ pc' = [pc EXCEPT ![p] = "written"]
  /\ UNCHANGED <<options, tmp, rate, changed, doc, edited, saved>>

SaveWriteFails(p) ==
  /\ pc[p] = "writing" /\ WritesMayFail
  /\ fd' = [fd EXCEPT ![p] = Nothing]
  /\ pc' = [pc EXCEPT ![p] = "written"]
  /\ UNCHANGED <<files, rate, changed, doc, edited, saved>>

(***************************************************************************)
(* rename(tmp, options): whatever the temporary name stands for now, be it *)
(* the remains of an earlier save or the file another process is writing.  *)
(* Without a temporary file it fails, unnoticed.                           *)
(***************************************************************************)
SaveRename(p) ==
  /\ pc[p] = "written"
  /\ options' = IF tmp = Nothing THEN options ELSE tmp
  /\ tmp' = Nothing
  /\ saved' = IF tmp # Nothing /\ data[tmp] = doc[p] THEN rate[p] ELSE Nothing
  /\ pc' = [pc EXCEPT ![p] = "exited"]
  /\ doc' = [doc EXCEPT ![p] = Torn]
  /\ UNCHANGED <<data, rate, changed, fd, edited>>

(***************************************************************************)
(* A signal or a crash of the process, between any two system calls.       *)
(***************************************************************************)
Kill(p) ==
  /\ pc[p] \notin Down
  /\ pc' = [pc EXCEPT ![p] = "killed"]
  /\ fd' = [fd EXCEPT ![p] = Nothing]
  /\ doc' = [doc EXCEPT ![p] = Torn]
  /\ UNCHANGED <<files, rate, changed, edited, saved>>

Save(p) == SaveParse(p) \/ SaveOpen(p) \/ SaveOpenFails(p) \/ SaveWrite(p)
           \/ SaveWriteFails(p) \/ SaveRename(p)

Next ==
  \E p \in Procs :
    \/ Start(p) \/ StartThrows(p)
    \/ \E r \in UserRates : ChangeRate(p, r)
    \/ ExitUnsaved(p) \/ Save(p) \/ Kill(p)

Spec == Init /\ [][Next]_vars

-----------------------------------------------------------------------------
(***************************************************************************)
(* Properties.                                                             *)
(***************************************************************************)
Docs == Seq(Int \cup {NoValue})

TypeOK ==
  /\ {options, tmp} \subseteq Inodes \cup {Nothing}
  /\ data \in [Inodes -> Docs \cup {Torn}]
  /\ pc \in [Procs -> Stages]
  /\ rate \in [Procs -> LegalRates]
  /\ changed \in [Procs -> BOOLEAN] /\ edited \in [Procs -> BOOLEAN]
  /\ doc \in [Procs -> Docs \cup {Torn}]
  /\ fd \in [Procs -> Inodes \cup {Nothing}]
  /\ saved \in LegalRates \cup {Nothing}

(* A lone instance replaces the options file as a whole: killed at any     *)
(* moment of a save, it leaves the old document or the new one.            *)
OneFile == INSTANCE OptionsFile WITH content <- Parsed
ReplacedAsAWhole == OneFile!FileSpec

(* After a save that went through, the next start of a lone instance gets  *)
(* the rate back, whatever the document looked like and whatever kills     *)
(* interrupted earlier saves.  Only a document without a misc element has  *)
(* no place for the rate, and save makes none.                             *)
RestoresWhatWasSaved ==
  saved # Nothing /\ Parsed # <<>> => ~Throws(Parsed) /\ Restores(Parsed, saved)

(* An options file with a rate out of range stops the program before it    *)
(* could ever save a better one, so the file stays as bad as it is.        *)
BadFileIsForEver == [][ Throws(Parsed) => Throws(Parsed)' ]_vars

(* An instance that was not told of a change leaves the files alone; and   *)
(* every instance does without the XML code (NEWS 1.3.1: `options will not *)
(* be saved without libxml').                                              *)
OnlyEditorsWrite ==
  [][ files' # files => HaveXml /\ \E p \in Procs : edited[p] /\ pc'[p] # pc[p] ]_vars

(* profile.h: the object keeps the options in a file.  A file that could   *)
(* be read does not become unreadable.                                     *)
StaysReadable == [][ Parsed # Torn => Parsed' # Torn ]_vars
=============================================================================
