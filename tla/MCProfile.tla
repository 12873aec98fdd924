------------------------------ MODULE MCProfile ------------------------------
(***************************************************************************)
(* Small instances of Profile.                                             *)
(***************************************************************************)
EXTENDS Profile

LegalDocs  == {<<NoValue>>, <<30>>}
\* A value out of range behind a legal one, or none at all.
SharedDocs == {<<30, 101>>, <<0>>, <<NoValue>>}
=============================================================================
