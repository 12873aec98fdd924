---------------------------- MODULE ProfileProofs ----------------------------
(***************************************************************************)
(* What holds of the options file for any number of processes, and what    *)
(* holds when there is only one.                                           *)
(*                                                                         *)
(* The invariant of any number says what a process that is saving has in   *)
(* its hands: a document in which every rate is its own, because it was    *)
(* told of a change.  So a rate out of range is never written, and where   *)
(* one is in the options file at the beginning nobody gets as far as       *)
(* saving.  The invariant of a lone process adds that the temporary file   *)
(* is its own.                                                             *)
(***************************************************************************)
EXTENDS Profile, TLAPS

Saving == {"parsed", "writing", "written"}

\* Every rate in d is r.
Uniform(d, r) == d \in Docs /\ \A i \in 1..Len(d) : d[i] = r

EditorsSave ==
  \A p \in Procs :
    /\ pc[p] \in Saving => edited[p] /\ HaveXml /\ Uniform(doc[p], rate[p])
    /\ pc[p] = "running" /\ changed[p] => edited[p]

BadIsOld ==
  \A i \in Inodes :
    Throws(data[i]) =>
      /\ options = i
      /\ \A p \in Procs : pc[p] \notin Saving /\ (HaveXml => pc[p] # "running")

TmpIsNew == tmp # Nothing => tmp # options

IInv == TypeOK /\ EditorsSave /\ BadIsOld /\ TmpIsNew

-----------------------------------------------------------------------------
(* A document with one legal rate can be restored, and restores that.      *)
LEMMA UniformIsLegal ==
  ASSUME NEW d, NEW r \in LegalRates, Uniform(d, r)
  PROVE  /\ ~Throws(d) /\ d # Torn
         /\ d # <<>> => Restores(d, r)
<1>1. ~Throws(d) /\ d # Torn
  BY DocAssumption DEF Uniform, Throws, Docs
<1>2. ASSUME d # <<>> PROVE Restores(d, r)
  <2>1. Len(d) \in Nat /\ Len(d) >= 1
    BY <1>2 DEF Uniform, Docs
  <2>2. d[Len(d)] = r /\ r # NoValue
    BY <2>1, DocAssumption DEF Uniform, LegalRates
  <2>3. \A j \in (Len(d) + 1)..Len(d) : d[j] = NoValue
    BY <2>1
  <2> QED
    BY <1>1, <2>1, <2>2, <2>3 DEF Restores
<1> QED
  BY <1>1, <1>2

(* What save makes of a document is uniform.                               *)
LEMMA WithRateIsUniform ==
  ASSUME NEW d \in Docs \cup {Torn}, NEW r \in LegalRates
  PROVE  Uniform(WithRate(d, r), r)
<1>1. CASE d = Torn
  BY <1>1 DEF WithRate, Uniform, Docs, LegalRates
<1>2. CASE d # Torn
  <2>1. d \in Docs /\ WithRate(d, r) = [i \in 1..Len(d) |-> r] /\ Len(d) \in Nat
    BY <1>2 DEF WithRate, Docs
  <2>2. WithRate(d, r) \in Docs /\ Len(WithRate(d, r)) = Len(d)
    BY <2>1 DEF Docs, LegalRates
  <2> QED
    BY <2>1, <2>2 DEF Uniform
<1> QED
  BY <1>1, <1>2

LEMMA ParsedType == TypeOK => Parsed \in Docs \cup {Torn}
BY DEF TypeOK, Parsed

LEMMA InitHolds == Init => IInv
<1> SUFFICES ASSUME Init
             PROVE  IInv
  OBVIOUS
<1>1. TypeOK
  BY DocAssumption DEF Init, TypeOK, Stages, Down, Docs, LegalRates, DefaultUpdateRate
<1>2. EditorsSave /\ TmpIsNew
  BY DEF Init, EditorsSave, Saving, TmpIsNew
<1>3. BadIsOld
  BY DEF Init, BadIsOld, Throws, Saving
<1> QED
  BY <1>1, <1>2, <1>3 DEF IInv

(* The steps that do not touch the files.                                  *)
LEMMA StartStep ==
  ASSUME IInv, NEW p \in Procs, Start(p)
  PROVE  IInv'
<1>1. TypeOK'
  BY DEF IInv, TypeOK, Start, files, Stages
<1>2. EditorsSave' /\ TmpIsNew'
  BY DEF IInv, TypeOK, EditorsSave, TmpIsNew, Saving, Start, files, Down
<1>3. BadIsOld'
  <2>1. ASSUME NEW i \in Inodes, Throws(data[i])
        PROVE  options = i /\ ~HaveXml
    BY <2>1, DocAssumption DEF IInv, BadIsOld, Start, Parsed, TypeOK
  <2> QED
    BY <2>1 DEF IInv, TypeOK, BadIsOld, Saving, Start, files
<1> QED
  BY <1>1, <1>2, <1>3 DEF IInv

LEMMA RunningStep ==
  ASSUME IInv, NEW p \in Procs,
         StartThrows(p) \/ (\E r \in UserRates : ChangeRate(p, r)) \/ ExitUnsaved(p) \/ Kill(p)
  PROVE  IInv'
<1>1. CASE StartThrows(p)
  <2>1. TypeOK'
    BY <1>1 DEF IInv, TypeOK, StartThrows, files, Stages, Down
  <2>2. EditorsSave' /\ TmpIsNew' /\ BadIsOld'
    BY <1>1 DEF IInv, TypeOK, EditorsSave, TmpIsNew, BadIsOld, Saving, StartThrows, files
  <2> QED
    BY <2>1, <2>2 DEF IInv
<1>2. CASE \E r \in UserRates : ChangeRate(p, r)
  <2>0. PICK r \in UserRates : ChangeRate(p, r)
    BY <1>2
  <2>1. TypeOK'
    BY <2>0, UserRateAssumption, BuildAssumption
       DEF IInv, TypeOK, ChangeRate, OptionsChanged, files, LegalRates
  <2>2. EditorsSave'
    BY <2>0 DEF IInv, TypeOK, EditorsSave, Saving, ChangeRate, OptionsChanged
  <2>3. TmpIsNew' /\ BadIsOld'
    BY <2>0 DEF IInv, TypeOK, TmpIsNew, BadIsOld, Saving, ChangeRate, files
  <2> QED
    BY <2>1, <2>2, <2>3 DEF IInv
<1>3. CASE ExitUnsaved(p)
  <2>1. TypeOK'
    BY <1>3 DEF IInv, TypeOK, ExitUnsaved, files, Stages, Down
  <2>2. EditorsSave' /\ TmpIsNew' /\ BadIsOld'
    BY <1>3 DEF IInv, TypeOK, EditorsSave, TmpIsNew, BadIsOld, Saving, ExitUnsaved, files
  <2> QED
    BY <2>1, <2>2 DEF IInv
<1>4. CASE Kill(p)
  <2>1. TypeOK'
    BY <1>4 DEF IInv, TypeOK, Kill, files, Stages, Down
  <2>2. EditorsSave' /\ TmpIsNew' /\ BadIsOld'
    BY <1>4 DEF IInv, TypeOK, EditorsSave, TmpIsNew, BadIsOld, Saving, Kill, files
  <2> QED
    BY <2>1, <2>2 DEF IInv
<1> QED
  BY <1>1, <1>2, <1>3, <1>4

(* A process that comes to save has read a document without bad rates, or  *)
(* it would not have got so far.                                           *)
LEMMA SaveParseStep ==
  ASSUME IInv, NEW p \in Procs, SaveParse(p)
  PROVE  IInv'
<1> DEFINE d == WithRate(Parsed, rate[p])
<1>1. Uniform(d, rate[p])
  BY WithRateIsUniform, ParsedType DEF IInv, TypeOK
<1>2. d \in Docs
  BY <1>1 DEF Uniform
<1> HIDE DEF d
<1>3. TypeOK'
  BY <1>2 DEF IInv, TypeOK, SaveParse, d, files, Stages
<1>4. EditorsSave'
  BY <1>1 DEF IInv, TypeOK, EditorsSave, Saving, SaveParse, d
<1>5. TmpIsNew' /\ BadIsOld'
  BY DEF IInv, TypeOK, TmpIsNew, BadIsOld, Saving, SaveParse, files
<1> QED
  BY <1>3, <1>4, <1>5 DEF IInv

LEMMA SaveOpenStep ==
  ASSUME IInv, NEW p \in Procs, SaveOpen(p) \/ SaveOpenFails(p)
  PROVE  IInv'
<1>1. CASE SaveOpen(p)
  <2>1. PICK i \in Inodes :
          /\ i # options /\ tmp' = i /\ data' = [data EXCEPT ![i] = Torn]
          /\ fd' = [fd EXCEPT ![p] = i]
    BY <1>1 DEF SaveOpen, IInv, TypeOK, TmpIsNew
  <2>2. TypeOK'
    BY <1>1, <2>1 DEF IInv, TypeOK, SaveOpen, Stages
  <2>3. EditorsSave' /\ TmpIsNew'
    BY <1>1, <2>1 DEF IInv, TypeOK, EditorsSave, TmpIsNew, Saving, SaveOpen
  <2>4. BadIsOld'
    BY <1>1, <2>1 DEF IInv, TypeOK, BadIsOld, Throws, Saving, SaveOpen
  <2> QED
    BY <2>2, <2>3, <2>4 DEF IInv
<1>2. CASE SaveOpenFails(p)
  <2>1. TypeOK'
    BY <1>2 DEF IInv, TypeOK, SaveOpenFails, files, Stages
  <2>2. EditorsSave' /\ TmpIsNew' /\ BadIsOld'
    BY <1>2 DEF IInv, TypeOK, EditorsSave, TmpIsNew, BadIsOld, Saving, SaveOpenFails, files
  <2> QED
    BY <2>1, <2>2 DEF IInv
<1> QED
  BY <1>1, <1>2

LEMMA SaveWriteStep ==
  ASSUME IInv, NEW p \in Procs, SaveWrite(p) \/ SaveWriteFails(p)
  PROVE  IInv'
<1>1. CASE SaveWrite(p)
  <2>1. PICK d \in {doc[p], Torn} : data' = [data EXCEPT ![fd[p]] = d]
    BY <1>1 DEF SaveWrite
  <2>2. Uniform(doc[p], rate[p]) /\ rate[p] \in LegalRates
    BY <1>1 DEF SaveWrite, IInv, TypeOK, EditorsSave, Saving
  <2>3. ~Throws(d) /\ d \in Docs \cup {Torn}
    BY <2>1, <2>2, UniformIsLegal DEF Throws, Uniform
  <2>4. TypeOK'
    BY <1>1, <2>1, <2>3 DEF IInv, TypeOK, SaveWrite, Stages
  <2>5. EditorsSave' /\ TmpIsNew'
    BY <1>1 DEF IInv, TypeOK, EditorsSave, TmpIsNew, Saving, SaveWrite
  <2>6. BadIsOld'
    <3>1. ASSUME NEW i \in Inodes, Throws(data'[i])
          PROVE  data'[i] = data[i]
      BY <2>1, <2>3, <3>1 DEF IInv, TypeOK
    <3> QED
      BY <1>1, <3>1 DEF IInv, TypeOK, BadIsOld, Saving, SaveWrite
  <2> QED
    BY <2>4, <2>5, <2>6 DEF IInv
<1>2. CASE SaveWriteFails(p)
  <2>1. TypeOK'
    BY <1>2 DEF IInv, TypeOK, SaveWriteFails, files, Stages
  <2>2. EditorsSave' /\ TmpIsNew' /\ BadIsOld'
    BY <1>2 DEF IInv, TypeOK, EditorsSave, TmpIsNew, BadIsOld, Saving, SaveWriteFails, files
  <2> QED
    BY <2>1, <2>2 DEF IInv
<1> QED
  BY <1>1, <1>2

LEMMA SaveRenameStep ==
  ASSUME IInv, NEW p \in Procs, SaveRename(p)
  PROVE  IInv'
<1>1. TypeOK'
  BY DEF IInv, TypeOK, SaveRename, Stages, Down
<1>2. EditorsSave' /\ TmpIsNew'
  BY DEF IInv, TypeOK, EditorsSave, TmpIsNew, Saving, SaveRename
<1>3. BadIsOld'
  <2>1. \A i \in Inodes : ~Throws(data[i])
    BY DEF IInv, BadIsOld, Saving, SaveRename
  <2> QED
    BY <2>1 DEF BadIsOld, SaveRename
<1> QED
  BY <1>1, <1>2, <1>3 DEF IInv

LEMMA NextHolds == IInv /\ [Next]_vars => IInv'
<1> SUFFICES ASSUME IInv, [Next]_vars
             PROVE  IInv'
  OBVIOUS
<1>1. CASE UNCHANGED vars
  BY <1>1 DEF vars, files, procs, IInv, TypeOK, EditorsSave, BadIsOld, TmpIsNew
<1>2. CASE Next
  BY <1>2, StartStep, RunningStep, SaveParseStep, SaveOpenStep, SaveWriteStep, SaveRenameStep
     DEF Next, Save
<1> QED
  BY <1>1, <1>2

LEMMA Invariant == Spec => []IInv
BY InitHolds, NextHolds, PTL DEF Spec

-----------------------------------------------------------------------------
(* The state of any number of processes and their files keeps its types;   *)
(* in particular nobody ever runs with a rate out of range.                *)
THEOREM TypeCorrect == Spec => []TypeOK
<1>1. IInv => TypeOK
  BY DEF IInv
<1> QED
  BY <1>1, Invariant, PTL

(* Whoever changes a file is saving, and whoever saves was told of a       *)
(* change and has the XML code.                                            *)
LEMMA WritersEdited ==
  ASSUME IInv, [Next]_vars, files' # files
  PROVE  HaveXml /\ \E p \in Procs : pc[p] \in Saving /\ edited[p] /\ pc'[p] # pc[p]
<1>1. PICK p \in Procs : SaveOpen(p) \/ SaveWrite(p) \/ SaveRename(p)
  BY DEF Next, vars, Save, Start, StartThrows, ChangeRate, ExitUnsaved, SaveParse, SaveOpenFails,
         SaveWriteFails, Kill
<1>2. pc[p] \in Saving /\ pc'[p] # pc[p]
  BY <1>1 DEF SaveOpen, SaveWrite, SaveRename, Saving, IInv, TypeOK
<1> QED
  BY <1>2 DEF IInv, EditorsSave

THEOREM EditorsAlone == Spec => OnlyEditorsWrite
<1>1. IInv /\ [Next]_vars => [files' # files => HaveXml /\ \E p \in Procs : edited[p] /\ pc'[p] # pc[p]]_vars
  BY WritersEdited
<1> QED
  BY <1>1, Invariant, PTL DEF Spec, OnlyEditorsWrite

(* A rate out of range stays in the options file for ever.                 *)
THEOREM BadForEver == Spec => BadFileIsForEver
<1>1. ASSUME IInv, [Next]_vars, Throws(Parsed)
      PROVE  Throws(Parsed)'
  <2>1. options # Nothing /\ Throws(data[options]) /\ options \in Inodes
    BY <1>1 DEF Parsed, Throws, IInv, TypeOK
  <2>2. \A p \in Procs : pc[p] \notin Saving
    BY <1>1, <2>1 DEF IInv, BadIsOld
  <2>3. files' = files
    BY <1>1, <2>2, WritersEdited
  <2> QED
    BY <1>1, <2>3 DEF files, Parsed, Throws
<1>2. IInv /\ [Next]_vars => [Throws(Parsed) => Throws(Parsed)']_vars
  BY <1>1
<1> QED
  BY <1>2, Invariant, PTL DEF Spec, BadFileIsForEver

-----------------------------------------------------------------------------
(***************************************************************************)
(* One process.  What it is writing is the temporary file, and nobody else *)
(* changes what it has written.                                            *)
(***************************************************************************)
OwnTmp ==
  \A p \in Procs :
    /\ pc[p] = "writing" => fd[p] \in Inodes /\ fd[p] = tmp
    /\ ~WritesMayFail =>
         /\ pc[p] = "writing" => data[tmp] = Torn
         /\ pc[p] = "written" => tmp \in Inodes /\ data[tmp] = doc[p]

SavedIsThere ==
  saved # Nothing => saved \in LegalRates /\ options \in Inodes /\ Uniform(data[options], saved)

LoneInv == IInv /\ OwnTmp /\ SavedIsThere

LEMMA LoneStep ==
  ASSUME NEW q, Procs = {q}, LoneInv, [Next]_vars
  PROVE  /\ OwnTmp' /\ SavedIsThere'
         /\ Parsed' # Parsed /\ ~WritesMayFail => Uniform(Parsed', rate[q])
<1>1. CASE files' = files /\ saved' = saved /\ pc'[q] \notin {"writing", "written"}
  BY <1>1 DEF files, Parsed, OwnTmp, SavedIsThere, Uniform, LoneInv
<1>2. CASE UNCHANGED vars
  BY <1>2 DEF vars, files, procs, Parsed, OwnTmp, SavedIsThere, Uniform, LoneInv
<1>3. CASE SaveOpen(q)
  <2>1. PICK i \in Inodes :
          /\ i # options /\ tmp' = i /\ data' = [data EXCEPT ![i] = Torn]
          /\ fd' = [fd EXCEPT ![q] = i]
    BY <1>3 DEF SaveOpen, LoneInv, IInv, TypeOK, TmpIsNew
  <2>2. OwnTmp'
    BY <1>3, <2>1 DEF OwnTmp, SaveOpen, LoneInv, IInv, TypeOK
  <2>3. SavedIsThere' /\ Parsed' = Parsed
    BY <1>3, <2>1 DEF SavedIsThere, Uniform, Parsed, SaveOpen, LoneInv, IInv, TypeOK
  <2> QED
    BY <2>2, <2>3
<1>4. CASE SaveWrite(q)
  <2>1. PICK d \in {doc[q], Torn} :
          data' = [data EXCEPT ![fd[q]] = d] /\ (data[fd[q]] = Torn => d = doc[q])
    BY <1>4 DEF SaveWrite
  <2>2. fd[q] \in Inodes /\ fd[q] = tmp /\ tmp # options
    BY <1>4, DocAssumption DEF SaveWrite, LoneInv, IInv, TmpIsNew, OwnTmp
  <2>3. OwnTmp'
    BY <1>4, <2>1, <2>2 DEF OwnTmp, SaveWrite, LoneInv, IInv, TypeOK
  <2>4. SavedIsThere' /\ Parsed' = Parsed
    BY <1>4, <2>1, <2>2 DEF SavedIsThere, Uniform, Parsed, SaveWrite, LoneInv, IInv, TypeOK
  <2> QED
    BY <2>3, <2>4
<1>5. CASE SaveOpenFails(q) \/ SaveWriteFails(q)
  BY <1>5, BuildAssumption
     DEF SaveOpenFails, SaveWriteFails, files, Parsed, OwnTmp, SavedIsThere, Uniform, LoneInv, IInv, TypeOK
<1>6. CASE SaveRename(q)
  <2>1. Uniform(doc[q], rate[q]) /\ rate[q] \in LegalRates
    BY <1>6 DEF SaveRename, LoneInv, IInv, TypeOK, EditorsSave, Saving
  <2>2. OwnTmp'
    BY <1>6 DEF OwnTmp, SaveRename, LoneInv, IInv, TypeOK
  <2>3. SavedIsThere'
    BY <1>6, <2>1 DEF SavedIsThere, Uniform, SaveRename, LoneInv, IInv, TypeOK
  <2>4. ~WritesMayFail => Parsed' = doc[q]
    BY <1>6, DocAssumption DEF Parsed, SaveRename, OwnTmp, LoneInv, IInv, TypeOK
  <2> QED
    BY <2>1, <2>2, <2>3, <2>4
<1>7. CASE Start(q) \/ StartThrows(q) \/ (\E r \in UserRates : ChangeRate(q, r))
           \/ ExitUnsaved(q) \/ SaveParse(q) \/ Kill(q)
  <2>1. files' = files /\ saved' = saved /\ pc'[q] \notin {"writing", "written"}
    BY <1>7 DEF Start, StartThrows, ChangeRate, ExitUnsaved, SaveParse, Kill, LoneInv, IInv, TypeOK
  <2> QED
    BY <2>1, <1>1
<1> QED
  BY <1>2, <1>3, <1>4, <1>5, <1>6, <1>7 DEF Next, Save

LEMMA LoneInvariant ==
  ASSUME NEW q, Procs = {q}
  PROVE  Spec => []LoneInv
<1>1. Init => LoneInv
  BY InitHolds DEF Init, LoneInv, OwnTmp, SavedIsThere
<1>2. LoneInv /\ [Next]_vars => LoneInv'
  BY NextHolds, LoneStep DEF LoneInv
<1> QED
  BY <1>1, <1>2, PTL DEF Spec

(* A lone process gets back the rate it saved last, whatever the document  *)
(* looked like, whichever writes failed, and whatever kills interrupted    *)
(* other saves.                                                            *)
THEOREM LoneRestores ==
  ASSUME NEW q, Procs = {q}
  PROVE  Spec => []RestoresWhatWasSaved
<1>1. LoneInv => RestoresWhatWasSaved
  <2> SUFFICES ASSUME LoneInv, saved # Nothing, Parsed # <<>>
               PROVE  ~Throws(Parsed) /\ Restores(Parsed, saved)
    BY DEF RestoresWhatWasSaved
  <2>1. saved \in LegalRates /\ Uniform(Parsed, saved)
    BY DocAssumption DEF LoneInv, SavedIsThere, Parsed
  <2> QED
    BY <2>1, UniformIsLegal
<1> QED
  BY <1>1, LoneInvariant, PTL

(* If writing does not fail, a lone process implements the abstract        *)
(* options file: a reader finds the old document or the new one.           *)
THEOREM LoneReplacesAsAWhole ==
  ASSUME NEW q, Procs = {q}, ~WritesMayFail
  PROVE  Spec => ReplacedAsAWhole
<1>1. Init => OneFile!FileInit
  BY DocAssumption DEF Init, OneFile!FileInit, Parsed
<1>2. LoneInv /\ [Next]_vars => [OneFile!Replace]_Parsed
  <2> SUFFICES ASSUME LoneInv, [Next]_vars, Parsed' # Parsed
               PROVE  OneFile!Replace
    OBVIOUS
  <2>1. Uniform(Parsed', rate[q]) /\ rate[q] \in LegalRates
    BY LoneStep DEF LoneInv, IInv, TypeOK
  <2>2. Parsed' # Torn
    BY <2>1, UniformIsLegal
  <2>3. Parsed' \in Seq({rate[q]})
    BY <2>1 DEF Uniform, Docs
  <2> QED
    BY <2>1, <2>2, <2>3 DEF OneFile!Replace
<1> QED
  BY <1>1, <1>2, LoneInvariant, PTL DEF Spec, ReplacedAsAWhole, OneFile!FileSpec
=============================================================================
