----------------------------- MODULE GPtrProofs -----------------------------
(***************************************************************************)
(* g_ptr counts right, for any number of variables and objects.            *)
(*                                                                         *)
(* That a freed object is never touched needs the counts: a variable that  *)
(* holds an object is counted, so the object lives.  And the counts need   *)
(* what the code does one call after the other, so the invariant has both, *)
(* and that nothing held floats, or else ref_sink would not count.         *)
(***************************************************************************)
EXTENDS GPtr, FiniteSetTheorems, TLAPS

IInv == TypeOK /\ CountsAreRight /\ NeverTouchesFreed /\ HeldIsSunk

-----------------------------------------------------------------------------
(***************************************************************************)
(* Counting holders.  In p, the variables that hold o:                     *)
(***************************************************************************)
In(p, o) == {s \in Slots : p[s] = o}
One(a, o) == IF a = o THEN 1 ELSE 0

\* From p to q, a variable that held a comes to hold v.
Shifts(p, q, a, v, o) ==
  Cardinality(In(q, o)) = Cardinality(In(p, o)) - One(a, o) + One(v, o)

\* And another one that held b comes to hold w.
ShiftsTwo(p, q, a, v, b, w, o) ==
  Cardinality(In(q, o)) = Cardinality(In(p, o)) - One(a, o) + One(v, o) - One(b, o) + One(w, o)

(* There are finitely many, and none only if nobody holds o.               *)
LEMMA CountType ==
  ASSUME NEW p, NEW o
  PROVE  /\ IsFiniteSet(In(p, o)) /\ Cardinality(In(p, o)) \in Nat
         /\ \A s \in Slots : p[s] = o => Cardinality(In(p, o)) >= 1
<1>1. IsFiniteSet(In(p, o))
  BY SlotsAssumption, FS_Subset DEF In
<1>2. Cardinality(In(p, o)) \in Nat
  BY <1>1, FS_CardinalityType
<1>3. ASSUME NEW s \in Slots, p[s] = o
      PROVE  Cardinality(In(p, o)) >= 1
  <2>1. In(p, o) # {}
    BY <1>3 DEF In
  <2>2. Cardinality(In(p, o)) # 0
    BY <2>1, <1>1, FS_EmptySet
  <2> QED
    BY <2>2, <1>2
<1> QED
  BY <1>1, <1>2, <1>3

(* A variable that changes what it holds changes two counts.               *)
LEMMA CountChange ==
  ASSUME NEW p, p \in [Slots -> Objects \cup {Null, Unmade}],
         NEW s \in Slots, NEW v \in Objects \cup {Null, Unmade}, NEW o,
         NEW q, q = [p EXCEPT ![s] = v]
  PROVE  Shifts(p, q, p[s], v, o)
<1>1. IsFiniteSet(In(p, o)) /\ Cardinality(In(p, o)) \in Nat
  BY CountType
<1>2. CASE v = o
  <2>1. In(q, o) = In(p, o) \cup {s}
    BY <1>2 DEF In
  <2>2. Cardinality(In(q, o)) = IF s \in In(p, o) THEN Cardinality(In(p, o)) ELSE Cardinality(In(p, o)) + 1
    BY <2>1, <1>1, FS_AddElement
  <2>3. s \in In(p, o) <=> p[s] = o
    BY DEF In
  <2> QED
    BY <2>2, <2>3, <1>1, <1>2 DEF One, Shifts
<1>3. CASE v # o
  <2>1. In(q, o) = In(p, o) \ {s}
    BY <1>3 DEF In
  <2>2. Cardinality(In(q, o)) = IF s \in In(p, o) THEN Cardinality(In(p, o)) - 1 ELSE Cardinality(In(p, o))
    BY <2>1, <1>1, FS_RemoveElement
  <2>3. s \in In(p, o) <=> p[s] = o
    BY DEF In
  <2> QED
    BY <2>2, <2>3, <1>1, <1>3 DEF One, Shifts
<1> QED
  BY <1>2, <1>3

(* Two of them that change places change none.                             *)
LEMMA CountTwoChanges ==
  ASSUME NEW p, p \in [Slots -> Objects \cup {Null, Unmade}],
         NEW s \in Slots, NEW t \in Slots, s # t,
         NEW v \in Objects \cup {Null, Unmade}, NEW w \in Objects \cup {Null, Unmade}, NEW o,
         NEW q, q = [p EXCEPT ![s] = v, ![t] = w]
  PROVE  ShiftsTwo(p, q, p[s], v, p[t], w, o)
<1>1. PICK r : r = [p EXCEPT ![s] = v]
  OBVIOUS
<1>2. r \in [Slots -> Objects \cup {Null, Unmade}] /\ r[t] = p[t] /\ q = [r EXCEPT ![t] = w]
  BY <1>1
<1>3. Shifts(p, r, p[s], v, o)
  BY <1>1, CountChange
<1>4. Shifts(r, q, p[t], w, o)
  BY <1>2, CountChange
<1> QED
  BY <1>3, <1>4, CountType DEF Shifts, ShiftsTwo, One

(* An object held by two has at least two references.                      *)
LEMMA HeldTwice ==
  ASSUME IInv, NEW s \in Slots, NEW t \in Slots, s # t,
         ptr[s] \in Objects, ptr[s] = ptr[t]
  PROVE  refs[ptr[s]] >= 2
<1> DEFINE o == ptr[s]
<1>1. PICK r : r = [ptr EXCEPT ![s] = Unmade]
  OBVIOUS
<1>2. r[t] = o
  BY <1>1 DEF IInv, TypeOK
<1>3. Cardinality(In(r, o)) \in Nat /\ Cardinality(In(r, o)) >= 1
  BY <1>2, CountType
<1>4. Shifts(ptr, r, o, Unmade, o)
  BY <1>1, CountChange DEF IInv, TypeOK
<1>5. Cardinality(In(ptr, o)) \in Nat /\ Cardinality(In(ptr, o)) >= 2
  BY <1>3, <1>4, CountType, PlacesAssumption DEF Shifts, One
<1>6. refs[o] = Cardinality(In(ptr, o)) + others[o] + (IF floating[o] THEN 1 ELSE 0)
  BY DEF IInv, CountsAreRight, Holders, In
<1> QED
  BY <1>5, <1>6 DEF IInv, TypeOK

(* What is held is alive.                                                  *)
LEMMA HeldIsAlive ==
  ASSUME IInv, NEW s \in Slots, ptr[s] \in Objects
  PROVE  refs[ptr[s]] >= 1 /\ ~floating[ptr[s]]
<1>1. Holders(ptr[s]) = In(ptr, ptr[s])
  BY DEF Holders, In
<1>2. Cardinality(In(ptr, ptr[s])) \in Nat /\ Cardinality(In(ptr, ptr[s])) >= 1
  BY CountType
<1> QED
  BY <1>1, <1>2 DEF IInv, CountsAreRight, HeldIsSunk, TypeOK

(* The count of an object, in the words of the lemmas above.               *)
LEMMA Counted ==
  ASSUME IInv, NEW o \in Objects
  PROVE  /\ refs[o] = Cardinality(In(ptr, o)) + others[o] + (IF floating[o] THEN 1 ELSE 0)
         /\ Cardinality(In(ptr, o)) \in Nat
<1>1. Holders(o) = In(ptr, o)
  BY DEF Holders, In
<1> QED
  BY <1>1, CountType DEF IInv, CountsAreRight, One

(* So GObject may be handed what a variable has.                           *)
LEMMA LivesIsAlive ==
  ASSUME IInv, NEW s \in Slots, Lives(s)
  PROVE  Alive(refs, ptr[s])
<1>1. CASE ptr[s] = Null
  BY <1>1 DEF Alive
<1>2. CASE ptr[s] \in Objects
  <2>1. refs[ptr[s]] >= 1 /\ refs[ptr[s]] \in Nat
    BY <1>2, HeldIsAlive DEF IInv, TypeOK
  <2> QED
    BY <2>1 DEF Alive
<1> QED
  BY <1>1, <1>2 DEF Lives, IInv, TypeOK

(* Even after another variable has dropped its reference.                  *)
LEMMA LivesAfterUnref ==
  ASSUME IInv, NEW s \in Slots, NEW t \in Slots, s # t, Lives(s), Lives(t)
  PROVE  Alive(Unref(refs, ptr[s]), ptr[t])
<1>1. CASE ptr[s] \notin Objects \/ ptr[t] # ptr[s]
  <2>1. ptr[t] # Null => Unref(refs, ptr[s])[ptr[t]] = refs[ptr[t]]
    BY <1>1 DEF Unref, Lives, IInv, TypeOK
  <2> QED
    BY <2>1, LivesIsAlive DEF Alive
<1>2. CASE ptr[s] \in Objects /\ ptr[t] = ptr[s]
  <2>1. refs[ptr[s]] >= 2 /\ refs[ptr[s]] \in Nat
    BY <1>2, HeldTwice DEF IInv, TypeOK
  <2>2. Unref(refs, ptr[s])[ptr[t]] = refs[ptr[s]] - 1
    BY <1>2, PlacesAssumption DEF Unref, IInv, TypeOK
  <2> QED
    BY <2>1, <2>2 DEF Alive
<1> QED
  BY <1>1, <1>2

\* The same after a step.
CountedNext(o) ==
  refs'[o] = Cardinality(In(ptr', o)) + others'[o] + (IF floating'[o] THEN 1 ELSE 0)

LEMMA CountsNext ==
  ASSUME \A o \in Objects : CountedNext(o)
  PROVE  CountsAreRight'
BY DEF CountedNext, CountsAreRight, Holders, In

-----------------------------------------------------------------------------
(***************************************************************************)
(* What each step does to a variable is a change of what one or two hold,  *)
(* and GObject does the same change to the counts.                         *)
(***************************************************************************)
LEMMA InitHolds == Init => IInv
<1> SUFFICES ASSUME Init
             PROVE  IInv
  OBVIOUS
<1>1. TypeOK /\ NeverTouchesFreed
  BY DEF Init, TypeOK, NeverTouchesFreed
<1>2. HeldIsSunk
  BY DEF Init, HeldIsSunk
<1>3. CountsAreRight
  <2> SUFFICES ASSUME NEW o \in Objects
               PROVE  Cardinality(Holders(o)) = 0
    BY DEF Init, CountsAreRight
  <2>1. Holders(o) = {}
    BY PlacesAssumption DEF Init, Holders
  <2> QED
    BY <2>1, FS_EmptySet
<1> QED
  BY <1>1, <1>2, <1>3 DEF IInv

LEMMA MakeNullStep ==
  ASSUME IInv, NEW s \in Slots, MakeNull(s)
  PROVE  IInv'
<1>1. TypeOK' /\ NeverTouchesFreed' /\ HeldIsSunk'
  BY PlacesAssumption DEF IInv, TypeOK, NeverTouchesFreed, HeldIsSunk, MakeNull
<1>2. ASSUME NEW o \in Objects PROVE CountedNext(o)
  <2>1. Shifts(ptr, ptr', ptr[s], Null, o)
    BY CountChange DEF MakeNull, IInv, TypeOK
  <2> QED
    BY <2>1, Counted, PlacesAssumption DEF Shifts, One, CountedNext, MakeNull, Lives
<1> QED
  BY <1>1, <1>2, CountsNext DEF IInv

LEMMA MakeStep ==
  ASSUME IInv, NEW s \in Slots, NEW o \in Objects \cup {Null}, Make(s, o)
  PROVE  IInv'
<1>1. TypeOK' /\ NeverTouchesFreed' /\ HeldIsSunk'
  BY PlacesAssumption
     DEF IInv, TypeOK, NeverTouchesFreed, HeldIsSunk, Make, RefSink, Ref, Sunk, Alive
<1>2. ASSUME NEW x \in Objects PROVE CountedNext(x)
  <2>1. Shifts(ptr, ptr', ptr[s], o, x)
    BY CountChange DEF Make, IInv, TypeOK
  <2> QED
    BY <2>1, Counted, PlacesAssumption
       DEF Shifts, One, CountedNext, Make, Lives, RefSink, Ref, Sunk, IInv, TypeOK
<1> QED
  BY <1>1, <1>2, CountsNext DEF IInv

LEMMA CopyMakeStep ==
  ASSUME IInv, NEW s \in Slots, NEW other \in Slots, CopyMake(s, other)
  PROVE  IInv'
<1>1. TypeOK' /\ HeldIsSunk'
  BY HeldIsAlive, PlacesAssumption
     DEF IInv, TypeOK, HeldIsSunk, CopyMake, Ref, Lives
<1>3. NeverTouchesFreed'
  BY LivesIsAlive, Zenon DEF IInv, NeverTouchesFreed, CopyMake
<1>2. ASSUME NEW o \in Objects PROVE CountedNext(o)
  <2>1. Shifts(ptr, ptr', ptr[s], ptr[other], o)
    BY CountChange DEF CopyMake, IInv, TypeOK
  <2> QED
    BY <2>1, Counted, PlacesAssumption
       DEF Shifts, One, CountedNext, CopyMake, Lives, Ref, IInv, TypeOK
<1> QED
  BY <1>1, <1>2, <1>3, CountsNext DEF IInv

LEMMA MoveMakeStep ==
  ASSUME IInv, NEW s \in Slots, NEW other \in Slots, MoveMake(s, other)
  PROVE  IInv'
<1>1. TypeOK' /\ NeverTouchesFreed' /\ HeldIsSunk'
  BY PlacesAssumption DEF IInv, TypeOK, NeverTouchesFreed, HeldIsSunk, MoveMake
<1>2. ASSUME NEW o \in Objects PROVE CountedNext(o)
  <2>1. ShiftsTwo(ptr, ptr', ptr[other], Null, ptr[s], ptr[other], o)
    <3>1. other # s
      BY DEF MoveMake, Lives
    <3> QED
      BY <3>1, CountTwoChanges DEF MoveMake, IInv, TypeOK
  <2> QED
    BY <2>1, Counted, PlacesAssumption DEF ShiftsTwo, One, CountedNext, MoveMake, Lives
<1> QED
  BY <1>1, <1>2, CountsNext DEF IInv

LEMMA DestroyStep ==
  ASSUME IInv, NEW s \in Slots, Destroy(s)
  PROVE  IInv'
<1>1. TypeOK' /\ HeldIsSunk'
  BY HeldIsAlive, PlacesAssumption
     DEF IInv, TypeOK, HeldIsSunk, Destroy, Unref, Lives
<1>3. NeverTouchesFreed'
  BY LivesIsAlive, Zenon DEF IInv, NeverTouchesFreed, Destroy
<1>2. ASSUME NEW o \in Objects PROVE CountedNext(o)
  <2>1. Shifts(ptr, ptr', ptr[s], Unmade, o)
    BY CountChange DEF Destroy, IInv, TypeOK
  <2> QED
    BY <2>1, Counted, PlacesAssumption
       DEF Shifts, One, CountedNext, Destroy, Lives, Unref, IInv, TypeOK
<1> QED
  BY <1>1, <1>2, <1>3, CountsNext DEF IInv

LEMMA CopyAssignStep ==
  ASSUME IInv, NEW s \in Slots, NEW other \in Slots, CopyAssign(s, other)
  PROVE  IInv'
<1>1. TypeOK' /\ HeldIsSunk'
  BY HeldIsAlive, PlacesAssumption
     DEF IInv, TypeOK, HeldIsSunk, CopyAssign, Unref, Ref, Lives
<1>2. ASSUME NEW o \in Objects PROVE CountedNext(o)
  <2>1. Shifts(ptr, ptr', ptr[s], ptr[other], o)
    BY CountChange DEF CopyAssign, IInv, TypeOK
  <2> QED
    BY <2>1, Counted, PlacesAssumption
       DEF Shifts, One, CountedNext, CopyAssign, Lives, Unref, Ref, IInv, TypeOK
<1>3. NeverTouchesFreed'
  BY LivesIsAlive, LivesAfterUnref, Zenon DEF IInv, NeverTouchesFreed, CopyAssign
<1> QED
  BY <1>1, <1>2, <1>3, CountsNext DEF IInv

LEMMA SwapStep ==
  ASSUME IInv, NEW s \in Slots, NEW other \in Slots, Swap(s, other)
  PROVE  IInv'
<1>1. TypeOK' /\ HeldIsSunk' /\ NeverTouchesFreed'
  BY DEF IInv, TypeOK, HeldIsSunk, NeverTouchesFreed, Swap
<1>2. CASE s = other
  <2>1. ptr' = ptr
    BY <1>2 DEF Swap, IInv, TypeOK
  <2> QED
    BY <1>1, <2>1 DEF Swap, IInv, CountsAreRight, Holders
<1>3. CASE s # other
  <2>1. ASSUME NEW o \in Objects PROVE CountedNext(o)
    <3>1. ShiftsTwo(ptr, ptr', ptr[s], ptr[other], ptr[other], ptr[s], o)
      BY <1>3, CountTwoChanges DEF Swap, IInv, TypeOK
    <3> QED
      BY <3>1, Counted DEF ShiftsTwo, One, CountedNext, Swap
  <2> QED
    BY <1>1, <2>1, CountsNext DEF IInv
<1> QED
  BY <1>2, <1>3

LEMMA ResetStep ==
  ASSUME IInv, NEW s \in Slots, NEW o \in Objects \cup {Null}, Reset(s, o)
  PROVE  IInv'
<1>1. TypeOK' /\ HeldIsSunk'
  BY HeldIsAlive, PlacesAssumption
     DEF IInv, TypeOK, HeldIsSunk, Reset, Unref, RefSink, Ref, Sunk, Lives
<1>2. ASSUME NEW x \in Objects PROVE CountedNext(x)
  <2>1. Shifts(ptr, ptr', ptr[s], o, x)
    BY CountChange DEF Reset, IInv, TypeOK
  <2> QED
    BY <2>1, Counted, PlacesAssumption
       DEF Shifts, One, CountedNext, Reset, Lives, Unref, RefSink, Ref, Sunk, IInv, TypeOK
<1>3. NeverTouchesFreed'
  <2>1. Alive(Unref(refs, ptr[s]), o)
    BY PlacesAssumption DEF Reset, Alive, Unref, Lives, IInv, TypeOK
  <2> QED
    BY <2>1, LivesIsAlive, Zenon DEF IInv, NeverTouchesFreed, Reset
<1> QED
  BY <1>1, <1>2, <1>3, CountsNext DEF IInv

LEMMA ReleaseStep ==
  ASSUME IInv, NEW s \in Slots, Release(s)
  PROVE  IInv'
<1>1. TypeOK' /\ HeldIsSunk' /\ NeverTouchesFreed'
  BY PlacesAssumption
     DEF IInv, TypeOK, HeldIsSunk, NeverTouchesFreed, Release, Ref, Lives
<1>2. ASSUME NEW o \in Objects PROVE CountedNext(o)
  <2>1. Shifts(ptr, ptr', ptr[s], Null, o)
    BY CountChange DEF Release, IInv, TypeOK
  <2> QED
    BY <2>1, Counted, PlacesAssumption
       DEF Shifts, One, CountedNext, Release, Lives, Ref, IInv, TypeOK
<1> QED
  BY <1>1, <1>2, CountsNext DEF IInv

(***************************************************************************)
(* Of the others' steps, a new object is nobody's, and a floating          *)
(* reference is no variable's.                                             *)
(***************************************************************************)
LEMMA NewStep ==
  ASSUME IInv, NEW o \in Objects, NEW isWidget \in BOOLEAN, New(o, isWidget)
  PROVE  IInv'
<1>1. \A s \in Slots : ptr[s] # o
  BY HeldIsAlive DEF New, IInv, TypeOK
<1>2. TypeOK' /\ HeldIsSunk' /\ NeverTouchesFreed'
  BY <1>1 DEF IInv, TypeOK, HeldIsSunk, NeverTouchesFreed, New
<1>3. ASSUME NEW x \in Objects PROVE CountedNext(x)
  <2>1. ptr' = ptr /\ In(ptr, o) = {}
    BY <1>1 DEF New, In
  <2>2. Cardinality(In(ptr, o)) = 0
    BY <2>1, FS_EmptySet
  <2> QED
    <3>1. CASE x = o
      <4>1. refs'[o] = 1 /\ Cardinality(In(ptr', o)) = 0
        BY <2>1, <2>2 DEF New, IInv, TypeOK
      <4>2. CASE isWidget
        <5>1. floating'[o] /\ others'[o] = 0
          BY <4>2 DEF New, IInv, TypeOK
        <5> QED
          BY <3>1, <4>1, <5>1 DEF CountedNext
      <4>3. CASE ~isWidget
        <5>1. ~floating'[o] /\ others'[o] = 1
          BY <4>3 DEF New, IInv, TypeOK
        <5> QED
          BY <3>1, <4>1, <5>1 DEF CountedNext
      <4> QED
        BY <4>2, <4>3
    <3>2. CASE x # o
      <4>1. refs'[x] = refs[x] /\ floating'[x] = floating[x] /\ others'[x] = others[x]
        BY <3>2 DEF New, IInv, TypeOK
      <4> QED
        BY <2>1, <4>1, Counted DEF CountedNext
    <3> QED
      BY <3>1, <3>2
<1> QED
  BY <1>2, <1>3, CountsNext DEF IInv

LEMMA OtherTakesStep ==
  ASSUME IInv, NEW o \in Objects, OtherTakes(o)
  PROVE  IInv'
<1>1. TypeOK' /\ HeldIsSunk' /\ NeverTouchesFreed'
  BY PlacesAssumption
     DEF IInv, TypeOK, HeldIsSunk, NeverTouchesFreed, OtherTakes, RefSink, Ref, Sunk
<1>2. ASSUME NEW x \in Objects PROVE CountedNext(x)
  BY Counted, PlacesAssumption
     DEF CountedNext, OtherTakes, RefSink, Ref, Sunk, IInv, TypeOK
<1> QED
  BY <1>1, <1>2, CountsNext DEF IInv

LEMMA OtherDropsStep ==
  ASSUME IInv, NEW o \in Objects, OtherDrops(o)
  PROVE  IInv'
<1>1. refs[o] >= 1
  BY Counted DEF OtherDrops, IInv, TypeOK
<1>2. TypeOK' /\ HeldIsSunk'
  BY <1>1, PlacesAssumption DEF IInv, TypeOK, HeldIsSunk, OtherDrops, Unref
<1>3. NeverTouchesFreed'
  <2>1. Alive(refs, o)
    BY <1>1 DEF Alive, IInv, TypeOK
  <2> QED
    BY <2>1, Zenon DEF IInv, NeverTouchesFreed, OtherDrops
<1>4. ASSUME NEW x \in Objects PROVE CountedNext(x)
  BY Counted, PlacesAssumption DEF CountedNext, OtherDrops, Unref, IInv, TypeOK
<1> QED
  BY <1>2, <1>3, <1>4, CountsNext DEF IInv

LEMMA NextHolds == IInv /\ [Next]_vars => IInv'
<1> SUFFICES ASSUME IInv, [Next]_vars
             PROVE  IInv'
  OBVIOUS
<1>1. CASE \E s \in Slots : MakeNull(s) \/ Destroy(s) \/ Release(s)
  BY <1>1, MakeNullStep, DestroyStep, ReleaseStep
<1>2. CASE \E s \in Slots, o \in Objects \cup {Null} : Make(s, o) \/ Reset(s, o)
  BY <1>2, MakeStep, ResetStep
<1>3. CASE \E s \in Slots, other \in Slots :
             CopyMake(s, other) \/ MoveMake(s, other) \/ CopyAssign(s, other) \/ Swap(s, other)
  BY <1>3, CopyMakeStep, MoveMakeStep, CopyAssignStep, SwapStep
<1>4. CASE \E o \in Objects :
             OtherTakes(o) \/ OtherDrops(o) \/ \E isWidget \in BOOLEAN : New(o, isWidget)
  BY <1>4, OtherTakesStep, OtherDropsStep, NewStep
<1>5. CASE UNCHANGED vars
  BY <1>5 DEF vars, IInv, TypeOK, CountsAreRight, Holders, NeverTouchesFreed, HeldIsSunk
<1> QED
  BY <1>1, <1>2, <1>3, <1>4, <1>5 DEF Next

LEMMA Invariant == Spec => []IInv
BY InitHolds, NextHolds, PTL DEF Spec

-----------------------------------------------------------------------------
(* The state of variables and objects keeps its types, and in particular   *)
(* no count of references falls below zero.                                *)
THEOREM TypeCorrect == Spec => []TypeOK
<1>1. IInv => TypeOK
  BY DEF IInv
<1> QED
  BY <1>1, Invariant, PTL

(* Every reference counted is somebody's, and everybody's is counted.      *)
THEOREM CountsAlwaysRight == Spec => []CountsAreRight
<1>1. IInv => CountsAreRight
  BY DEF IInv
<1> QED
  BY <1>1, Invariant, PTL

(* GObject is never handed a freed object.                                 *)
THEOREM FreedNeverTouched == Spec => []NeverTouchesFreed
<1>1. IInv => NeverTouchesFreed
  BY DEF IInv
<1> QED
  BY <1>1, Invariant, PTL

(* No g_ptr has a floating object.                                         *)
THEOREM HeldAlwaysSunk == Spec => []HeldIsSunk
<1>1. IInv => HeldIsSunk
  BY DEF IInv
<1> QED
  BY <1>1, Invariant, PTL
=============================================================================
