-------------------------------- MODULE GPtr --------------------------------
(***************************************************************************)
(* The smart pointer g_ptr of lib/g_ptr.h, over the reference counts of    *)
(* GObject.  A new object has one reference, which is floating if it is a  *)
(* widget and belongs to its maker if it is not; g_object_ref_sink turns a *)
(* floating reference into one of the caller's, and is g_object_ref for    *)
(* other objects.  At zero an object is freed, and its place in memory may *)
(* be a new object's.                                                      *)
(*                                                                         *)
(* Each member function is one action, with its calls of GObject in their  *)
(* order.  The move assignment is left out: it lacks its return statement, *)
(* and nothing in the program instantiates it.                             *)
(***************************************************************************)
EXTENDS Integers, FiniteSets

CONSTANTS
  Slots,      \* places of variables of type g_ptr
  Objects,    \* places of objects
  MaxOthers,  \* bound on the references others have to an object
  Null, Unmade

ASSUME SlotsAssumption == IsFiniteSet(Slots)
ASSUME PlacesAssumption == Null \notin Objects /\ Unmade \notin Objects /\ Null # Unmade
ASSUME OthersAssumption == MaxOthers \in Nat

VARIABLES
  ptr,       \* _ptr of each variable, or Unmade where none lives
  refs,      \* references counted for each object; without any it is freed
  floating,  \* the one reference of the object is floating
  others,    \* history: references that are not g_ptr's: GTK's, or a caller's
  safe       \* history: GObject was never handed a freed object

vars == <<ptr, refs, floating, others, safe>>

Alive(r, o) == IF o = Null THEN TRUE ELSE r[o] > 0

Ref(r, o)   == IF o = Null THEN r ELSE [r EXCEPT ![o] = @ + 1]
Unref(r, o) == IF o = Null THEN r ELSE [r EXCEPT ![o] = @ - 1]

\* ref_sink: the references, and what still floats.
RefSink(r, o) == IF o = Null THEN r ELSE IF floating[o] THEN r ELSE Ref(r, o)
Sunk(o) == IF o = Null THEN floating ELSE [floating EXCEPT ![o] = FALSE]

Init ==
  /\ ptr = [s \in Slots |-> Unmade]
  /\ refs = [o \in Objects |-> 0]
  /\ floating = [o \in Objects |-> FALSE]
  /\ others = [o \in Objects |-> 0]
  /\ safe = TRUE

-----------------------------------------------------------------------------
(***************************************************************************)
(* The constructors: of nothing, of a plain pointer to a living object, of *)
(* another g_ptr, copied or moved.  And the destructor.                    *)
(***************************************************************************)
Lives(s) == ptr[s] # Unmade

MakeNull(s) ==
  /\ ~Lives(s)
  /\ ptr' = [ptr EXCEPT ![s] = Null]
  /\ UNCHANGED <<refs, floating, others, safe>>

\* Mutant: a floating reference is left floating.
MakeUnsunk(s, o) ==
  /\ ~Lives(s) /\ Alive(refs, o)
  /\ ptr' = [ptr EXCEPT ![s] = o]
  /\ refs' = Ref(refs, o)
  /\ UNCHANGED <<floating, others, safe>>

Make(s, o) ==
  /\ ~Lives(s) /\ Alive(refs, o)
  /\ ptr' = [ptr EXCEPT ![s] = o]
  /\ refs' = RefSink(refs, o) /\ floating' = Sunk(o)
  /\ UNCHANGED <<others, safe>>

CopyMake(s, other) ==
  /\ ~Lives(s) /\ Lives(other)
  /\ ptr' = [ptr EXCEPT ![s] = ptr[other]]
  /\ refs' = Ref(refs, ptr[other])
  /\ safe' = (safe /\ Alive(refs, ptr[other]))
  /\ UNCHANGED <<floating, others>>

MoveMake(s, other) ==
  /\ ~Lives(s) /\ Lives(other)
  /\ ptr' = [ptr EXCEPT ![other] = Null, ![s] = ptr[other]]
  /\ UNCHANGED <<refs, floating, others, safe>>

Destroy(s) ==
  /\ Lives(s)
  /\ ptr' = [ptr EXCEPT ![s] = Unmade]
  /\ refs' = Unref(refs, ptr[s])
  /\ safe' = (safe /\ Alive(refs, ptr[s]))
  /\ UNCHANGED <<floating, others>>

-----------------------------------------------------------------------------
(***************************************************************************)
(* Copying over a g_ptr, possibly itself; swap, reset and release.         *)
(***************************************************************************)
\* Mutant: no test for an assignment to itself.
CopyAssignUntested(s, other) ==
  /\ Lives(s) /\ Lives(other)
  /\ ptr' = [ptr EXCEPT ![s] = ptr[other]]
  /\ refs' = Ref(Unref(refs, ptr[s]), ptr[other])
  /\ safe' = (safe /\ Alive(refs, ptr[s]) /\ Alive(Unref(refs, ptr[s]), ptr[other]))
  /\ UNCHANGED <<floating, others>>

\* Mutant: the reference to the object it had is forgotten.
CopyAssignForgets(s, other) ==
  /\ Lives(s) /\ Lives(other)
  /\ s # other
  /\ ptr' = [ptr EXCEPT ![s] = ptr[other]]
  /\ refs' = Ref(refs, ptr[other])
  /\ safe' = (safe /\ Alive(refs, ptr[other]))
  /\ UNCHANGED <<floating, others>>

CopyAssign(s, other) ==
  /\ Lives(s) /\ Lives(other)
  /\ s # other
  /\ ptr' = [ptr EXCEPT ![s] = ptr[other]]
  /\ refs' = Ref(Unref(refs, ptr[s]), ptr[other])
  /\ safe' = (safe /\ Alive(refs, ptr[s]) /\ Alive(Unref(refs, ptr[s]), ptr[other]))
  /\ UNCHANGED <<floating, others>>

Swap(s, other) ==
  /\ Lives(s) /\ Lives(other)
  /\ ptr' = [ptr EXCEPT ![s] = ptr[other], ![other] = ptr[s]]
  /\ UNCHANGED <<refs, floating, others, safe>>

\* reset, for another object than it has; with its own it does nothing.
Reset(s, o) ==
  /\ Lives(s) /\ Alive(refs, o)
  /\ ptr[s] # o
  /\ ptr' = [ptr EXCEPT ![s] = o]
  /\ refs' = RefSink(Unref(refs, ptr[s]), o) /\ floating' = Sunk(o)
  /\ safe' = (safe /\ Alive(refs, ptr[s]) /\ Alive(Unref(refs, ptr[s]), o))
  /\ UNCHANGED others

\* Its reference is the caller's from now on.
Release(s) ==
  /\ Lives(s)
  /\ ptr[s] # Null => others[ptr[s]] < MaxOthers
  /\ others' = Ref(others, ptr[s])
  /\ ptr' = [ptr EXCEPT ![s] = Null]
  /\ UNCHANGED <<refs, floating, safe>>

-----------------------------------------------------------------------------
(***************************************************************************)
(* GObject and GTK.                                                        *)
(***************************************************************************)
\* A widget, or an object that is its maker's.
New(o, isWidget) ==
  /\ refs[o] = 0
  /\ isWidget \/ MaxOthers > 0
  /\ refs' = [refs EXCEPT ![o] = 1]
  /\ floating' = [floating EXCEPT ![o] = isWidget]
  /\ others' = [others EXCEPT ![o] = IF isWidget THEN 0 ELSE 1]
  /\ UNCHANGED <<ptr, safe>>

\* gtk_container_add, g_action_map_add_action, ...
OtherTakes(o) ==
  /\ refs[o] > 0 /\ others[o] < MaxOthers
  /\ refs' = RefSink(refs, o) /\ floating' = Sunk(o)
  /\ others' = [others EXCEPT ![o] = @ + 1]
  /\ UNCHANGED <<ptr, safe>>

OtherDrops(o) ==
  /\ others[o] > 0
  /\ refs' = Unref(refs, o)
  /\ safe' = (safe /\ Alive(refs, o))
  /\ others' = [others EXCEPT ![o] = @ - 1]
  /\ UNCHANGED <<ptr, floating>>

Next ==
  \/ \E s \in Slots :
       \/ MakeNull(s) \/ Destroy(s) \/ Release(s)
       \/ \E o \in Objects \cup {Null} : Make(s, o) \/ Reset(s, o)
       \/ \E other \in Slots :
            CopyMake(s, other) \/ MoveMake(s, other) \/ CopyAssign(s, other) \/ Swap(s, other)
  \/ \E o \in Objects :
       OtherTakes(o) \/ OtherDrops(o) \/ \E isWidget \in BOOLEAN : New(o, isWidget)

Spec == Init /\ [][Next]_vars

-----------------------------------------------------------------------------
(***************************************************************************)
(* Properties.                                                             *)
(***************************************************************************)
TypeOK ==
  /\ ptr \in [Slots -> Objects \cup {Null, Unmade}]
  /\ refs \in [Objects -> Nat] /\ others \in [Objects -> Nat]
  /\ floating \in [Objects -> BOOLEAN]
  /\ safe \in BOOLEAN

Holders(o) == {s \in Slots : ptr[s] = o}

(* The references counted for an object are those that g_ptr variables and *)
(* others have, and the floating one: no g_ptr drops a reference it does   *)
(* not have, or forgets one it has.                                        *)
CountsAreRight ==
  \A o \in Objects :
    refs[o] = Cardinality(Holders(o)) + others[o] + (IF floating[o] THEN 1 ELSE 0)

(* No member function hands GObject an object that is freed, be it by the  *)
(* call just before.                                                       *)
NeverTouchesFreed == safe

(* What a g_ptr has does not float: the next container it is put into does *)
(* not take the reference of the g_ptr for its own.                        *)
HeldIsSunk == \A s \in Slots : ptr[s] \in Objects => ~floating[ptr[s]]
=============================================================================
