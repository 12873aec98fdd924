----------------------------- MODULE OptionsFile -----------------------------
(***************************************************************************)
(* What class profile of programs/profile.h promises of the options file:  *)
(* "this object keeps the options setting in a file".  A reader finds what *)
(* was there at the start until a save replaces it, as a whole, by a       *)
(* document whose every setting is one rate that was in force.             *)
(***************************************************************************)
EXTENDS Integers, Sequences

CONSTANTS LegalRates,  \* update rates a movement can have
          InitDocs,    \* documents that may be there at the start
          Torn         \* a file that is missing or does not parse

VARIABLE content       \* what a reader of the options file finds

FileInit == content \in InitDocs \cup {Torn}

Replace == \E r \in LegalRates : content' # Torn /\ content' \in Seq({r})

FileSpec == FileInit /\ [][Replace]_content
=============================================================================
