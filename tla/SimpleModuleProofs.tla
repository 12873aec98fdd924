------------------------- MODULE SimpleModuleProofs -------------------------
(***************************************************************************)
(* Proofs about SimpleModule, for any names OpenGL may hand out, any       *)
(* pictures, times and poses.                                              *)
(*                                                                         *)
(* What simple_init leaves behind depends on all of its steps, so the      *)
(* invariant says for every step what was made until then: Made for the    *)
(* objects and what was heard while they were made, Prepared for the rest  *)
(* of OpenGL's state.  A frame leans on that with Drawable, and texture    *)
(* and set-up do not touch each other's variables.  The side of an array   *)
(* is found by doubling; what that finds is shown on the least number for  *)
(* which it would not be so (LeastOf).                                     *)
(***************************************************************************)
EXTENDS SimpleModule, WellFoundedInduction, TLAPS

-----------------------------------------------------------------------------
(***************************************************************************)
(* The invariant of the set-up.                                            *)
(***************************************************************************)
Absent ==
  ~context => /\ step = "done"
              /\ shaders = {} /\ programs = {} /\ linked = {}

Remembered == {vertexShader, fragmentShader} \ {0}

\* A program and both of its shaders, or none of them.
AllOrNothing(p) ==
  /\ shaders = Remembered /\ programs = {p} \ {0} /\ linked = {p} \ {0}
  /\ (p = 0) <=> (vertexShader = 0)
  /\ (p = 0) <=> (fragmentShader = 0)

Silent(p) == p # 0 => heard = {}

AtVertex   == step = "vertex" =>
  shaders = {} /\ programs = {} /\ linked = {} /\ heard = {}
AtFragment == step = "fragment" =>
  /\ shaders = {vertexShader} \ {0} /\ programs = {} /\ linked = {}
  /\ vertexShader # 0 => heard = {}
AtCreate   == step = "create" =>
  /\ shaders = Remembered /\ programs = {} /\ linked = {}
  /\ vertexShader # 0 /\ fragmentShader # 0 => heard = {}
AtLink     == step = "link" =>
  /\ shaders = Remembered /\ programs = {program} \ {0} /\ linked = {}
  /\ vertexShader # 0 /\ fragmentShader # 0
  /\ program # 0 => heard = {}
AtBailout  == step = "bailout" =>
  shaders = Remembered /\ programs = {program} \ {0} /\ linked = {}
AtUse      == step = "use" => AllOrNothing(program) /\ Silent(program)

AfterUse     == {"buffers", "arrays", "projection", "view", "lights", "enable", "done"}
AfterBuffers == AfterUse \ {"buffers"}
AfterArrays  == AfterBuffers \ {"arrays"}

AtLater == context /\ step \in AfterUse =>
  /\ AllOrNothing(shaderProgram) /\ using = shaderProgram
  /\ step # "done" => Silent(shaderProgram)

Made == AtVertex /\ AtFragment /\ AtCreate /\ AtLink /\ AtBailout /\ AtUse /\ AtLater

Given(after, which) ==
  context /\ step \in after /\ shaderProgram # 0 => which \subseteq uniforms

Prepared ==
  /\ context /\ step \in AfterBuffers => bufferBytes = 8192
  /\ context /\ step \in AfterArrays => boundArray = TRUE
  /\ Given({"view", "lights", "enable", "done"}, {"projectionMatrix"})
  /\ Given({"lights", "enable", "done"}, {"viewMatrix"})
  /\ Given({"enable", "done"}, Lights)
  /\ context /\ step = "done" =>
       enabled = Attributes /\ capabilities = {"GL_CULL_FACE", "GL_DEPTH_TEST"}

SetUpInv == Absent /\ Made /\ Prepared

LEMMA SetUpInit == GLInit => SetUpInv
<1> SUFFICES ASSUME GLInit PROVE SetUpInv
  OBVIOUS
<1>1. Absent
  BY DEF GLInit, Absent
<1>2. Made
  BY DEF GLInit, Made, AtVertex, AtFragment, AtCreate, AtLink, AtBailout, AtUse, AtLater
<1>3. Prepared
  BY DEF GLInit, Prepared, Given
<1> QED BY <1>1, <1>2, <1>3 DEF SetUpInv

-----------------------------------------------------------------------------
(***************************************************************************)
(* Contexts come and go between set-ups.                                   *)
(***************************************************************************)
LEMMA SetUpKeeps == ASSUME SetUpInv, SetUp PROVE SetUpInv'
<1> USE DEF SetUp, objects, bindings, statics
<1>1. Absent'
  BY DEF SetUpInv, Absent
<1>2. Made'
  BY DEF SetUpInv, Absent, Made, Remembered, AllOrNothing, Silent,
     AtVertex, AtFragment, AtCreate, AtLink, AtBailout, AtUse, AtLater, AfterUse
<1>3. Prepared'
  BY DEF SetUpInv, Prepared, Given, AfterUse, AfterBuffers, AfterArrays
<1> QED BY <1>1, <1>2, <1>3 DEF SetUpInv

LEMMA NowhereKeeps == ASSUME SetUpInv, SetUpNowhere PROVE SetUpInv'
<1> USE DEF SetUpNowhere, objects, bindings
<1>1. Absent'
  BY DEF SetUpInv, Absent
<1>2. Made'
  BY DEF SetUpInv, Absent, Made, Remembered, AllOrNothing, Silent,
     AtVertex, AtFragment, AtCreate, AtLink, AtBailout, AtUse, AtLater, AfterUse
<1>3. Prepared'
  BY DEF SetUpInv, Prepared, Given, AfterUse, AfterBuffers, AfterArrays
<1> QED BY <1>1, <1>2, <1>3 DEF SetUpInv

LEMMA GoneKeeps == ASSUME SetUpInv, ContextGone PROVE SetUpInv'
<1> USE DEF ContextGone, statics
<1>1. Absent'
  BY DEF SetUpInv, Absent
<1>2. Made'
  BY DEF SetUpInv, Absent, Made, Remembered, AllOrNothing, Silent,
     AtVertex, AtFragment, AtCreate, AtLink, AtBailout, AtUse, AtLater, AfterUse
<1>3. Prepared'
  BY DEF SetUpInv, Prepared, Given, AfterUse, AfterBuffers, AfterArrays
<1> QED BY <1>1, <1>2, <1>3 DEF SetUpInv

-----------------------------------------------------------------------------
(***************************************************************************)
(* The steps that make objects.                                            *)
(***************************************************************************)
LEMMA VertexKeeps == ASSUME SetUpInv, CompileVertexShader PROVE SetUpInv'
<1> USE DEF CompileVertexShader, CompileShader, Free, bindings
<1>1. Absent'
  BY DEF SetUpInv, Absent
<1>2. Made'
  BY NamesAssumption DEF SetUpInv, Absent, Made, Remembered, AllOrNothing, Silent,
     AtVertex, AtFragment, AtCreate, AtLink, AtBailout, AtUse, AtLater, AfterUse
<1>3. Prepared'
  <2>1. step' \notin AfterUse
    BY DEF AfterUse
  <2> QED BY <2>1 DEF Prepared, Given, AfterUse, AfterBuffers, AfterArrays
<1> QED BY <1>1, <1>2, <1>3 DEF SetUpInv

LEMMA FragmentKeeps == ASSUME SetUpInv, CompileFragmentShader PROVE SetUpInv'
<1> USE DEF CompileFragmentShader, CompileShader, Free, bindings
<1>1. Absent'
  BY DEF SetUpInv, Absent
<1>2. Made'
  BY NamesAssumption DEF SetUpInv, Absent, Made, Remembered, AllOrNothing, Silent,
     AtVertex, AtFragment, AtCreate, AtLink, AtBailout, AtUse, AtLater, AfterUse
<1>3. Prepared'
  <2>1. step' \notin AfterUse
    BY DEF AfterUse
  <2> QED BY <2>1 DEF Prepared, Given, AfterUse, AfterBuffers, AfterArrays
<1> QED BY <1>1, <1>2, <1>3 DEF SetUpInv

LEMMA CreateKeeps == ASSUME SetUpInv, CreateProgram PROVE SetUpInv'
<1> USE DEF CreateProgram, Free, bindings, statics
<1>1. Absent'
  BY DEF SetUpInv, Absent
<1>2. Made'
  BY NamesAssumption DEF SetUpInv, Absent, Made, Remembered, AllOrNothing, Silent,
     AtVertex, AtFragment, AtCreate, AtLink, AtBailout, AtUse, AtLater, AfterUse
<1>3. Prepared'
  <2>1. step' \notin AfterUse
    BY DEF AfterUse
  <2> QED BY <2>1 DEF Prepared, Given, AfterUse, AfterBuffers, AfterArrays
<1> QED BY <1>1, <1>2, <1>3 DEF SetUpInv

LEMMA LinkKeeps == ASSUME SetUpInv, LinkProgram PROVE SetUpInv'
<1> USE DEF LinkProgram, bindings, statics
<1>1. Absent'
  BY DEF SetUpInv, Absent
<1>2. Made'
  BY NamesAssumption DEF SetUpInv, Absent, Made, Remembered, AllOrNothing, Silent,
     AtVertex, AtFragment, AtCreate, AtLink, AtBailout, AtUse, AtLater, AfterUse
<1>3. Prepared'
  <2>1. step' \notin AfterUse
    BY DEF AfterUse
  <2> QED BY <2>1 DEF Prepared, Given, AfterUse, AfterBuffers, AfterArrays
<1> QED BY <1>1, <1>2, <1>3 DEF SetUpInv

LEMMA BailoutKeeps == ASSUME SetUpInv, Bailout PROVE SetUpInv'
<1> USE DEF Bailout, bindings
<1>1. Absent'
  BY DEF SetUpInv, Absent
<1>2. Made'
  BY NamesAssumption DEF SetUpInv, Absent, Made, Remembered, AllOrNothing, Silent,
     AtVertex, AtFragment, AtCreate, AtLink, AtBailout, AtUse, AtLater, AfterUse
<1>3. Prepared'
  <2>1. step' \notin AfterUse
    BY DEF AfterUse
  <2> QED BY <2>1 DEF Prepared, Given, AfterUse, AfterBuffers, AfterArrays
<1> QED BY <1>1, <1>2, <1>3 DEF SetUpInv

LEMMA UseKeeps == ASSUME SetUpInv, UseProgram PROVE SetUpInv'
<1> USE DEF UseProgram, objects
<1>1. Absent'
  BY DEF SetUpInv, Absent
<1>2. Made'
  BY DEF SetUpInv, Absent, Made, Remembered, AllOrNothing, Silent,
     AtVertex, AtFragment, AtCreate, AtLink, AtBailout, AtUse, AtLater, AfterUse
<1>3. Prepared'
  BY DEF SetUpInv, Prepared, Given, AfterUse, AfterBuffers, AfterArrays
<1> QED BY <1>1, <1>2, <1>3 DEF SetUpInv

-----------------------------------------------------------------------------
(***************************************************************************)
(* The steps that prepare the rest.                                        *)
(***************************************************************************)
LEMMA BuffersKeep == ASSUME SetUpInv, InitBuffers PROVE SetUpInv'
<1> USE DEF InitBuffers, objects
<1>1. Absent'
  BY DEF SetUpInv, Absent
<1>2. Made'
  BY DEF SetUpInv, Absent, Made, Remembered, AllOrNothing, Silent,
     AtVertex, AtFragment, AtCreate, AtLink, AtBailout, AtUse, AtLater, AfterUse
<1>3. Prepared'
  BY DEF SetUpInv, Prepared, Given, AfterUse, AfterBuffers, AfterArrays
<1> QED BY <1>1, <1>2, <1>3 DEF SetUpInv

LEMMA ArraysKeep == ASSUME SetUpInv, InitVertexArrays PROVE SetUpInv'
<1> USE DEF InitVertexArrays, objects
<1>1. Absent'
  BY DEF SetUpInv, Absent
<1>2. Made'
  BY DEF SetUpInv, Absent, Made, Remembered, AllOrNothing, Silent,
     AtVertex, AtFragment, AtCreate, AtLink, AtBailout, AtUse, AtLater, AfterUse
<1>3. Prepared'
  BY DEF SetUpInv, Prepared, Given, AfterUse, AfterBuffers, AfterArrays
<1> QED BY <1>1, <1>2, <1>3 DEF SetUpInv

LEMMA EnableKeeps == ASSUME SetUpInv, EnableAll PROVE SetUpInv'
<1> USE DEF EnableAll, objects, statics
<1>1. Absent'
  BY DEF SetUpInv, Absent
<1>2. context /\ context'
  BY DEF SetUpInv, Absent
<1>3. boundArray
  BY <1>2 DEF SetUpInv, Prepared, AfterUse, AfterBuffers, AfterArrays
<1>4. Made'
  BY <1>2, <1>3 DEF SetUpInv, Made, Remembered, AllOrNothing, Silent,
     AtVertex, AtFragment, AtCreate, AtLink, AtBailout, AtUse, AtLater, AfterUse
<1>5. Prepared'
  BY <1>2, <1>3 DEF SetUpInv, Prepared, Given, AfterUse, AfterBuffers, AfterArrays
<1> QED BY <1>1, <1>4, <1>5 DEF SetUpInv

-----------------------------------------------------------------------------
(***************************************************************************)
(* Uniforms: with a program none is refused, and without one none matters. *)
(***************************************************************************)
LEMMA NoneRefused ==
  ASSUME SetUpInv, context, step \in AfterUse, shaderProgram # 0
  PROVE  Refused = {} /\ (step # "done" => heard = {})
BY DEF SetUpInv, Made, AtLater, AllOrNothing, Silent, Refused

LEMMA UniformsKeep ==
  ASSUME SetUpInv, step \in AfterUse, context, NEW at, NEW which, NEW next,
         InitUniforms(at, which, next),
         \/ at = "projection" /\ next = "view" /\ which = {"projectionMatrix"}
         \/ at = "view" /\ next = "lights" /\ which = {"viewMatrix"}
         \/ at = "lights" /\ next = "enable" /\ which = Lights
  PROVE  SetUpInv'
<1> USE DEF InitUniforms, SetUniforms, objects, statics
<1>1. Absent'
  BY DEF SetUpInv, Absent
<1>2. step' \in AfterUse \cap {"view", "lights", "enable"}
  BY DEF AfterUse
<1>3. shaderProgram # 0 => heard' = {} /\ uniforms' = uniforms \cup which
  BY NoneRefused
<1>4. Made'
  BY <1>2, <1>3 DEF SetUpInv, Made, Remembered, AllOrNothing, Silent,
     AtVertex, AtFragment, AtCreate, AtLink, AtBailout, AtUse, AtLater, AfterUse
<1>5. Prepared'
  BY <1>2, <1>3 DEF SetUpInv, Prepared, Given, AfterUse, AfterBuffers, AfterArrays
<1> QED BY <1>1, <1>4, <1>5 DEF SetUpInv

LEMMA InitKeeps == ASSUME SetUpInv, SimpleInit PROVE SetUpInv'
<1>1. CASE InitProjectionMatrix
  BY <1>1, UniformsKeep
     DEF InitProjectionMatrix, InitUniforms, SetUpInv, Absent, AfterUse
<1>2. CASE InitViewMatrix
  BY <1>2, UniformsKeep DEF InitViewMatrix, InitUniforms, SetUpInv, Absent, AfterUse
<1>3. CASE InitLights
  BY <1>3, UniformsKeep DEF InitLights, InitUniforms, SetUpInv, Absent, AfterUse
<1> QED
  BY <1>1, <1>2, <1>3, VertexKeeps, FragmentKeeps, CreateKeeps, LinkKeeps, BailoutKeeps,
     UseKeeps, BuffersKeep, ArraysKeep, EnableKeeps DEF SimpleInit

-----------------------------------------------------------------------------
(***************************************************************************)
(* Figures are drawn where a frame can be, and their uniform is accepted.  *)
(***************************************************************************)
Drawable == context /\ step = "done" /\ shaderProgram # 0

FrameInv ==
  /\ drawing \/ frame # <<>> => Drawable
  /\ frame # <<>> => "modelMatrix" \in uniforms

LEMMA ModelMatrixKeeps ==
  ASSUME SetUpInv, Drawable, ModelMatrixSet,
         UNCHANGED <<context, objects, using, bufferBytes, boundArray, enabled, capabilities,
                     statics, program, step>>
  PROVE  SetUpInv' /\ Drawable' /\ "modelMatrix" \in uniforms'
<1> USE DEF ModelMatrixSet, SetUniforms, objects, statics, Drawable
<1>1. heard' = heard /\ uniforms' = uniforms \cup {"modelMatrix"}
  BY NoneRefused DEF AfterUse
<1>2. Absent'
  BY DEF SetUpInv, Absent
<1>3. Made'
  BY <1>1 DEF SetUpInv, Made, Remembered, AllOrNothing, Silent,
     AtVertex, AtFragment, AtCreate, AtLink, AtBailout, AtUse, AtLater, AfterUse
<1>4. Prepared'
  BY <1>1 DEF SetUpInv, Prepared, Given, AfterUse, AfterBuffers, AfterArrays
<1> QED BY <1>1, <1>2, <1>3, <1>4 DEF SetUpInv

(* What a frame begins with is heard when the set-up is over.              *)
LEMMA HeardKeeps ==
  ASSUME SetUpInv, step = "done",
         UNCHANGED <<context, objects, bindings, statics, program, step>>
  PROVE  SetUpInv'
<1> USE DEF objects, bindings, statics
<1>1. Absent'
  BY DEF SetUpInv, Absent
<1>2. Made'
  BY DEF SetUpInv, Made, Remembered, AllOrNothing, Silent,
     AtVertex, AtFragment, AtCreate, AtLink, AtBailout, AtUse, AtLater, AfterUse
<1>3. Prepared'
  BY DEF SetUpInv, Prepared, Given
<1> QED BY <1>1, <1>2, <1>3 DEF SetUpInv

LEMMA StutterKeeps == ASSUME SetUpInv, UNCHANGED glVars PROVE SetUpInv'
<1> USE DEF glVars, objects, bindings, statics
<1>1. Absent'
  BY DEF SetUpInv, Absent
<1>2. Made'
  BY DEF SetUpInv, Made, Remembered, AllOrNothing, Silent,
     AtVertex, AtFragment, AtCreate, AtLink, AtBailout, AtUse, AtLater
<1>3. Prepared'
  BY DEF SetUpInv, Prepared, Given
<1> QED BY <1>1, <1>2, <1>3 DEF SetUpInv

-----------------------------------------------------------------------------
(***************************************************************************)
(* The side of the array that takes a picture.                             *)
(***************************************************************************)
(* Every set of natural numbers but the empty one has a least element.     *)
LEMMA LeastOf ==
  ASSUME NEW T, T \subseteq Nat, T # {}
  PROVE  \E x \in T : \A y \in T : ~(y < x)
<1> DEFINE R == OpToRel(<, Nat)
<1>1. IsWellFoundedOn(R, Nat)
  BY NatLessThanWellFounded
<1>2. \A x, y \in Nat : y < x => <<y, x>> \in R
  BY DEF OpToRel
<1> HIDE DEF R
<1>3. PICK x \in T : \A y \in T : ~(<<y, x>> \in R)
  BY <1>1, WFMin
<1> QED
  BY <1>2, <1>3

(* Induction, over a set: the provers cannot instantiate the library's      *)
(* theorem, whose parameter is an operator.                                *)
LEMMA Inductive ==
  ASSUME NEW S, 0 \in S, \A n \in Nat : n \in S => n + 1 \in S
  PROVE  Nat \subseteq S
<1> DEFINE T == Nat \ S
<1>1. SUFFICES ASSUME T # {} PROVE FALSE
  OBVIOUS
<1>2. PICK x \in T : \A y \in T : ~(y < x)
  BY <1>1, LeastOf
<1>3. x # 0 /\ x - 1 \in Nat /\ x - 1 < x
  OBVIOUS
<1>4. x - 1 \in S
  BY <1>2, <1>3
<1> QED
  BY <1>3, <1>4

\* g is Doubled as far as n.
Doubling(g, n) == g = [k \in 0..n |-> IF k = 0 THEN 1 ELSE 2 * g[k - 1]]

(* There is one such function at most,                                     *)
LEMMA DoublingsAgree ==
  ASSUME NEW m \in Nat, NEW n \in Nat, m <= n, NEW g, NEW h, Doubling(g, m), Doubling(h, n)
  PROVE  \A k \in 0..m : g[k] = h[k]
<1> DEFINE S == {k \in Nat : k <= m => g[k] = h[k]}
<1>1. 0 \in S
  BY DEF Doubling
<1>2. ASSUME NEW k \in Nat, k \in S PROVE k + 1 \in S
  <2>1. SUFFICES ASSUME k + 1 <= m PROVE g[k + 1] = h[k + 1]
    OBVIOUS
  <2>2. g[k] = h[k]
    BY <1>2, <2>1
  <2>3. k + 1 \in 0..m /\ k + 1 \in 0..n /\ k + 1 # 0 /\ (k + 1) - 1 = k
    BY <2>1
  <2>4. g[k + 1] = 2 * g[k]
    BY <2>3 DEF Doubling
  <2>5. h[k + 1] = 2 * h[k]
    BY <2>3 DEF Doubling
  <2> QED
    BY <2>2, <2>4, <2>5
<1>3. Nat \subseteq S
  BY <1>1, <1>2, Inductive
<1> QED
  BY <1>3

(* and there is one,                                                       *)
LEMMA DoublingExists == \A n \in Nat : \E g : Doubling(g, n)
<1> DEFINE S == {n \in Nat : \E g : Doubling(g, n)}
<1>1. 0 \in S
  <2>1. Doubling([k \in 0..0 |-> 1], 0)
    BY DEF Doubling
  <2> QED
    BY <2>1
<1>2. ASSUME NEW n \in Nat, n \in S PROVE n + 1 \in S
  <2>1. PICK g : Doubling(g, n)
    BY <1>2
  <2> DEFINE h == [k \in 0..(n + 1) |-> IF k = n + 1 THEN 2 * g[n] ELSE g[k]]
  <2>2. ASSUME NEW k \in 0..(n + 1)
        PROVE  h[k] = IF k = 0 THEN 1 ELSE 2 * h[k - 1]
    <3>1. CASE k = n + 1
      BY <3>1
    <3>2. CASE k # n + 1
      <4>1. k \in 0..n /\ h[k] = g[k] /\ g[k] = IF k = 0 THEN 1 ELSE 2 * g[k - 1]
        BY <2>1, <3>2 DEF Doubling
      <4>2. k # 0 => h[k - 1] = g[k - 1]
        BY <4>1
      <4> QED
        BY <4>1, <4>2
    <3> QED
      BY <3>1, <3>2
  <2> HIDE DEF h
  <2>3. h = [k \in 0..(n + 1) |-> h[k]]
    BY DEF h
  <2>4. Doubling(h, n + 1)
    BY <2>2, <2>3 DEF Doubling
  <2> QED
    BY <2>4
<1>3. Nat \subseteq S
  BY <1>1, <1>2, Inductive
<1> QED
  BY <1>3

(* so that the recursive definition of Doubled defines a function.         *)
LEMMA DoubledIs == Doubled = [k \in Nat |-> IF k = 0 THEN 1 ELSE 2 * Doubled[k - 1]]
<1> DEFINE G(n) == CHOOSE g : Doubling(g, n)
           F == [n \in Nat |-> G(n)[n]]
<1>1. \A n \in Nat : Doubling(G(n), n)
  BY DoublingExists
<1> HIDE DEF G
<1>2. ASSUME NEW n \in Nat
      PROVE  F[n] = IF n = 0 THEN 1 ELSE 2 * F[n - 1]
  <2>1. Doubling(G(n), n)
    BY <1>1
  <2>2. CASE n = 0
    BY <2>1, <2>2 DEF Doubling
  <2>3. CASE n # 0
    <3>1. n - 1 \in Nat /\ n - 1 <= n /\ n - 1 \in 0..(n - 1)
      BY <2>3
    <3>2. Doubling(G(n - 1), n - 1)
      BY <1>1, <3>1
    <3>3. G(n - 1)[n - 1] = G(n)[n - 1]
      BY <2>1, <3>1, <3>2, DoublingsAgree
    <3>4. G(n)[n] = 2 * G(n)[n - 1]
      BY <2>1, <2>3 DEF Doubling
    <3> QED
      BY <2>3, <3>1, <3>3, <3>4
  <2> QED
    BY <2>2, <2>3
<1>3. F = [k \in Nat |-> F[k]]
  OBVIOUS
<1> HIDE DEF F
<1>4. F = [k \in Nat |-> IF k = 0 THEN 1 ELSE 2 * F[k - 1]]
  BY <1>2, <1>3
<1> QED
  BY <1>4 DEF Doubled

LEMMA DoubledValues ==
  /\ Doubled[0] = 1
  /\ \A k \in Nat : Doubled[k + 1] = 2 * Doubled[k]
<1>1. Doubled[0] = 1
  BY DoubledIs
<1>2. ASSUME NEW k \in Nat PROVE Doubled[k + 1] = 2 * Doubled[k]
  <2>1. k + 1 \in Nat /\ k + 1 # 0 /\ (k + 1) - 1 = k
    OBVIOUS
  <2> QED
    BY <2>1, DoubledIs
<1> QED
  BY <1>1, <1>2

(* The powers of two outgrow every number, and all but the first two are   *)
(* multiples of four.                                                      *)
LEMMA DoubledGrows == \A k \in Nat : Doubled[k] \in Nat /\ Doubled[k] > k
<1> DEFINE S == {k \in Nat : Doubled[k] \in Nat /\ Doubled[k] > k}
<1>1. 0 \in S
  BY DoubledValues
<1>2. ASSUME NEW k \in Nat, k \in S PROVE k + 1 \in S
  BY <1>2, DoubledValues
<1>3. Nat \subseteq S
  BY <1>1, <1>2, Inductive
<1> QED
  BY <1>3

LEMMA DoubledByFour == \A k \in Nat : \E q \in Nat : Doubled[k + 2] = 4 * q
<1> SUFFICES ASSUME NEW k \in Nat
             PROVE  \E q \in Nat : Doubled[k + 2] = 4 * q
  OBVIOUS
<1>1. Doubled[k + 1] = 2 * Doubled[k] /\ Doubled[k] \in Nat
  BY DoubledValues, DoubledGrows
<1>2. Doubled[(k + 1) + 1] = 2 * Doubled[k + 1]
  BY DoubledValues
<1>3. (k + 1) + 1 = k + 2
  OBVIOUS
<1> QED
  BY <1>1, <1>2, <1>3

(* The loop that looks for the side of the array ends, at a power of two   *)
(* that covers the picture.                                                *)
LEMMA SideIs ==
  ASSUME NEW p \in Pictures
  PROVE  \E k \in Nat : Side(p) = Doubled[k] /\ Covers(Doubled[k], p)
<1> DEFINE T == {k \in Nat : Covers(Doubled[k], p)}
           Least(k) == /\ Covers(Doubled[k], p)
                       /\ \A j \in 0..(k - 1) : ~Covers(Doubled[j], p)
<1>1. p.width \in Nat /\ p.height \in Nat
  BY PicturesAssumption
<1>2. p.width + p.height \in T
  <2>1. PICK s \in Nat : s = p.width + p.height
    BY <1>1
  <2>2. Doubled[s] \in Nat /\ Doubled[s] > s
    BY DoubledGrows
  <2>3. Covers(Doubled[s], p)
    BY <1>1, <2>1, <2>2 DEF Covers
  <2> QED
    BY <2>1, <2>3
<1>3. PICK x \in T : \A y \in T : ~(y < x)
  BY <1>2, LeastOf
<1>4. x \in 0..(p.width + p.height)
  BY <1>1, <1>2, <1>3
<1>5. Least(x)
  BY <1>3
<1> HIDE DEF Least
<1>6. \E k \in 0..(p.width + p.height) : Least(k)
  BY <1>4, <1>5
<1>7. PICK k : k = CHOOSE j \in 0..(p.width + p.height) : Least(j)
  OBVIOUS
<1>8. k \in 0..(p.width + p.height) /\ Least(k)
  BY <1>6, <1>7
<1>9. Side(p) = Doubled[k]
  BY <1>7 DEF Side, Least
<1> QED
  BY <1>1, <1>8, <1>9 DEF Least

-----------------------------------------------------------------------------
(***************************************************************************)
(* The rows of a picture in its array.                                     *)
(***************************************************************************)
\* n goes q times into x and leaves b.
SplitsInto(x, n, q, b) == x \div n = q /\ x % n = b

LEMMA Splits ==
  ASSUME NEW n \in Nat, n > 0, NEW q \in Nat, NEW b \in Nat, b < n
  PROVE  SplitsInto(n * q + b, n, q, b)
<1>0. PICK x \in Nat : x = n * q + b
  OBVIOUS
<1>1. PICK d \in Int, m \in Int : d = x \div n /\ m = x % n
  OBVIOUS
<1>2. x = n * d + m /\ 0 <= m /\ m < n
  BY <1>0, <1>1
<1>3. ASSUME d > q PROVE FALSE
  <2>1. PICK e \in Nat : d = q + 1 + e
    BY <1>3
  <2>2. n * d = n * q + n + n * e /\ n * e >= 0
    BY <2>1
  <2> QED
    BY <1>0, <1>2, <2>2
<1>4. ASSUME d < q PROVE FALSE
  <2>1. PICK e \in Nat : q = d + 1 + e
    BY <1>4
  <2>2. n * q = n * d + n + n * e /\ n * e >= 0
    BY <2>1
  <2> QED
    BY <1>0, <1>2, <2>2
<1>5. d = q /\ m = b
  BY <1>0, <1>2, <1>3, <1>4
<1> QED
  BY <1>0, <1>1, <1>5 DEF SplitsInto

\* What has a width was loaded from a picture.
Loaded ==
  textureWidth # 0 =>
    \E p \in Pictures : /\ textureWidth = Side(p)
                        /\ textureImage.of = p /\ textureImage.rows = Rows(p, Side(p))

(* A line of three bytes for each of 4 * q pixels is as long as OpenGL     *)
(* takes it to be.                                                         *)
LEMMA LoadedIsAligned == Loaded => MisreadOnlyTwoWide
<1> SUFFICES ASSUME Loaded, textureWidth # 0, NEW line \in 0..(textureWidth - 1)
             PROVE  line * UnpackStride(textureWidth) = line * RowSize(textureWidth)
                      <=> textureWidth # 2 \/ line = 0
  BY DEF MisreadOnlyTwoWide
<1>1. PICK k \in Nat : textureWidth = Doubled[k]
  BY SideIs DEF Loaded
<1>2. CASE k = 0
  <2>1. textureWidth = 1 /\ line = 0
    BY <1>1, <1>2, DoubledValues
  <2>2. UnpackStride(1) = 4 /\ RowSize(1) = 3
    BY DEF UnpackStride, RowSize, UnpackAlignment
  <2> QED
    BY <2>1, <2>2
<1>3. CASE k = 1
  <2>1. Doubled[0 + 1] = 2
    BY DoubledValues
  <2>2. textureWidth = 2 /\ line \in {0, 1}
    BY <1>1, <1>3, <2>1
  <2>3. UnpackStride(2) = 8 /\ RowSize(2) = 6
    BY DEF UnpackStride, RowSize, UnpackAlignment
  <2> QED
    BY <2>2, <2>3
<1>4. CASE k > 1
  <2>1. PICK j \in Nat : k = j + 2
    BY <1>4
  <2>2. PICK q \in Nat : textureWidth = 4 * q
    BY <1>1, <2>1, DoubledByFour
  <2>3. (3 * (4 * q) + 4 - 1) \div 4 = 3 * q
    OBVIOUS
  <2>4. UnpackStride(textureWidth) = RowSize(textureWidth)
    BY <2>2, <2>3 DEF UnpackStride, RowSize, UnpackAlignment
  <2>5. textureWidth # 2
    BY <2>2
  <2> QED
    BY <2>4, <2>5
<1> QED
  BY <1>2, <1>3, <1>4

(* Where row r went.                                                       *)
LEMMA RowIs ==
  ASSUME NEW p \in Pictures, NEW side \in Nat, Covers(side, p), NEW r \in 0..(p.height - 1)
  PROVE  /\ Line(Rows(p, side)[r], side) = (side - p.height) \div 2 + (p.height - 1 - r)
         /\ Across(Rows(p, side)[r], side) = (side - p.width) \div 2
<1>1. PICK w \in Nat, h \in Nat : w = p.width /\ h = p.height
  BY PicturesAssumption
<1>2. w > 0 /\ h > 0 /\ w <= side /\ h <= side /\ r \in Nat /\ r <= h - 1
  BY <1>1, PicturesAssumption DEF Covers
<1>3. PICK m \in Nat, l \in Nat : m = (side - h) \div 2 /\ l = (side - w) \div 2 /\ l < side
  BY <1>2
<1>4. PICK q \in Nat : q = m + (h - 1 - r)
  BY <1>2
<1>5. PICK n \in Nat : n = RowSize(side) /\ n = 3 * side /\ n > 0
  BY <1>2 DEF RowSize
<1>6. Rows(p, side)[r] = m * n + 3 * l + (h - 1 - r) * n
  BY <1>1, <1>3, <1>5 DEF Rows
<1>7. m * n + 3 * l + (h - 1 - r) * n = n * q + 3 * l
  BY <1>2, <1>4
<1>8. 3 * l \in Nat /\ 3 * l < n
  BY <1>3, <1>5
<1>9. Rows(p, side)[r] \div n = q /\ Rows(p, side)[r] % n = 3 * l
  <2>1. PICK b \in Nat : b = 3 * l /\ b < n
    BY <1>8
  <2>2. Rows(p, side)[r] = n * q + b
    BY <1>6, <1>7, <2>1
  <2>3. SplitsInto(n * q + b, n, q, b)
    BY <1>5, <2>1, Splits
  <2> QED
    BY <2>1, <2>2, <2>3 DEF SplitsInto
<1>10. (3 * l) \div 3 = l
  OBVIOUS
<1> QED
  BY <1>1, <1>3, <1>4, <1>5, <1>9, <1>10 DEF Line, Across

LEMMA LoadedIsCentred == Loaded => PictureCentred
<1> SUFFICES ASSUME Loaded, textureWidth # 0
             PROVE  PictureCentred
  BY DEF PictureCentred
<1>1. PICK p \in Pictures : /\ textureWidth = Side(p) /\ textureImage.of = p
                            /\ textureImage.rows = Rows(p, Side(p))
  BY DEF Loaded
<1>2. PICK side \in Nat : side = Side(p) /\ Covers(side, p)
  BY SideIs, DoubledGrows
<1>3. PICK w \in Nat, h \in Nat : w = p.width /\ h = p.height /\ w > 0 /\ h > 0
  BY PicturesAssumption
<1>4. w <= side /\ h <= side
  BY <1>2, <1>3 DEF Covers
<1>5. ASSUME NEW r \in 0..(h - 1)
      PROVE  /\ Line(Rows(p, side)[r], side) = (side - h) \div 2 + (h - 1 - r)
             /\ Across(Rows(p, side)[r], side) = (side - w) \div 2
  BY <1>2, <1>3, <1>5, RowIs
<1>6. 0 \in 0..(h - 1) /\ h - 1 \in 0..(h - 1)
  BY <1>3
<1>7. PICK m \in Nat, l \in Nat :
        /\ m = (side - h) \div 2 /\ l = (side - w) \div 2
        /\ Balanced(m, side - h - m) /\ Balanced(l, side - w - l)
  BY <1>4 DEF Balanced
<1>8. Line(Rows(p, side)[h - 1], side) = m /\ Line(Rows(p, side)[0], side) = m + (h - 1)
  BY <1>5, <1>6, <1>7
<1>9. Balanced(m, side - 1 - (m + (h - 1)))
  <2>1. side - 1 - (m + (h - 1)) = side - h - m
    OBVIOUS
  <2> QED
    BY <1>7, <2>1
<1>10. ASSUME NEW r \in 0..(h - 1)
       PROVE  /\ Line(Rows(p, side)[r], side) = Line(Rows(p, side)[0], side) - r
              /\ Balanced(Across(Rows(p, side)[r], side), side - Across(Rows(p, side)[r], side) - w)
  <2>1. Line(Rows(p, side)[r], side) = m + (h - 1 - r) /\ Across(Rows(p, side)[r], side) = l
    BY <1>5, <1>7
  <2>2. Balanced(l, side - l - w)
    BY <1>3, <1>7 DEF Balanced
  <2> QED
    BY <1>3, <1>8, <2>1, <2>2
<1> QED
  BY <1>1, <1>2, <1>3, <1>8, <1>9, <1>10 DEF PictureCentred

-----------------------------------------------------------------------------
(***************************************************************************)
(* The module as a whole.                                                  *)
(***************************************************************************)
TextureInv == TextureCurrent /\ PictureOfTheFile /\ Loaded

\* OpenGL has been given a texture by a frame, which comes after the set-up.
HeardInv == OnlyTextureRefused /\ (~context \/ step # "done" => sent = Unset)

ModuleInv == SetUpInv /\ FrameInv /\ TextureInv /\ HeardInv

LEMMA ModuleStarts == ModuleInit => ModuleInv
BY SetUpInit DEF ModuleInit, ModuleInv, Init, GLInit, TextureInit, FrameInv, TextureInv,
   TextureCurrent, PictureOfTheFile, Loaded, HeardInv, OnlyTextureRefused

LEMMA TextureUntouched == ASSUME TextureInv, UNCHANGED textureVars PROVE TextureInv'
BY DEF TextureInv, TextureCurrent, PictureOfTheFile, Loaded, textureVars, textureStatics

LEMMA TextureSent == ASSUME TextureInv, SetTexture PROVE TextureInv'
BY DEF TextureInv, TextureCurrent, PictureOfTheFile, Loaded, SetTexture

LEMMA TextureLost == ASSUME TextureInv, TextureGone PROVE TextureInv'
BY DEF TextureInv, TextureCurrent, PictureOfTheFile, Loaded, TextureGone, textureStatics

LEMMA PropertySet == ASSUME TextureInv, SetProperty PROVE TextureInv'
<1>1. ASSUME NEW value \in Mappings, SetPropMapping(value) PROVE TextureInv'
  BY <1>1 DEF TextureInv, TextureCurrent, PictureOfTheFile, Loaded, SetPropMapping
<1>2. ASSUME NEW p \in Pictures, SetPropFile(p) PROVE TextureInv'
  <2>1. CASE LoadNothing
    BY <1>2, <2>1 DEF SetPropFile, LoadNothing, TextureInv, TextureCurrent, PictureOfTheFile, Loaded
  <2>2. ASSUME NEW decoded \in BOOLEAN, LoadPicture(p, decoded) PROVE TextureInv'
    BY <1>2, <2>2 DEF SetPropFile, LoadPicture, TextureInv, TextureCurrent, PictureOfTheFile, Loaded
  <2> QED BY <1>2, <2>1, <2>2 DEF SetPropFile, LoadTextureImage
<1> QED BY <1>1, <1>2 DEF SetProperty

LEMMA NotDone == SimpleInit => step # "done" /\ (step' = "done" => EnableAll)
<1>1. InitProjectionMatrix \/ InitViewMatrix \/ InitLights => step # "done" /\ step' # "done"
  BY DEF InitProjectionMatrix, InitViewMatrix, InitLights, InitUniforms
<1>2. CompileVertexShader \/ CompileFragmentShader \/ CreateProgram
        => step # "done" /\ step' # "done"
  BY DEF CompileVertexShader, CompileFragmentShader, CreateProgram
<1>3. LinkProgram \/ Bailout \/ UseProgram => step # "done" /\ step' # "done"
  BY DEF LinkProgram, Bailout, UseProgram
<1>4. InitBuffers \/ InitVertexArrays => step # "done" /\ step' # "done"
  BY DEF InitBuffers, InitVertexArrays
<1>5. EnableAll => step = "enable"
  BY Zenon DEF EnableAll
<1> QED BY <1>1, <1>2, <1>3, <1>4, <1>5 DEF SimpleInit

(* OpenGL refuses nothing but the texture, and does that when it is given  *)
(* one.                                                                    *)
LEMMA HeardStep ==
  ASSUME SetUpInv, FrameInv, HeardInv, [ModuleNext]_moduleVars
  PROVE  HeardInv'
<1> USE DEF HeardInv, OnlyTextureRefused
<1>1. CASE Realize
  BY <1>1 DEF Realize, SetUp, SetUpNowhere, textureVars
<1>2. CASE Continue
  <2>1. step # "done" /\ sent = Unset /\ sent' = sent
    BY <1>2, NotDone DEF Continue, textureVars
  <2>2. ASSUME context', step' = "done", shaderProgram' # 0 PROVE heard' = {}
    <3>1. EnableAll
      BY <1>2, <2>2, NotDone DEF Continue
    <3>2. context /\ step = "enable" /\ shaderProgram # 0
      BY <2>2, <3>1 DEF EnableAll, statics
    <3>3. heard = {} /\ boundArray
      BY <3>2 DEF SetUpInv, Made, AtLater, Silent, Prepared, AfterUse, AfterBuffers, AfterArrays
    <3> QED BY <3>1, <3>3 DEF EnableAll
  <2> QED BY <2>1, <2>2
<1>3. CASE Vanish
  BY <1>3 DEF Vanish, TextureGone, ContextGone
<1>4. ASSUME NEW p \in Poses, StartFrame(p) PROVE HeardInv'
  <2>1. context /\ step = "done" /\ context' = context /\ step' = step
    BY <1>4 DEF StartFrame, Idle
  <2>2. [width |-> textureWidth, image |-> textureImage] # Unset
    BY DEF Unset
  <2>3. heard = IF CoreProfile /\ sent # Unset THEN {"texture refused"} ELSE {}
    BY <1>4, <2>1 DEF StartFrame
  <2>4. CASE textureChanged
    <3>1. sent' # Unset /\ heard' = heard \cup TextureErrors
      BY <1>4, <2>2, <2>4 DEF StartFrame, SetTexture
    <3> QED BY <2>1, <2>3, <2>4, <3>1 DEF TextureErrors
  <2>5. CASE ~textureChanged
    <3>1. sent' = sent /\ heard' = heard
      BY <1>4, <2>5 DEF StartFrame, SetTexture, TextureErrors
    <3> QED BY <2>1, <2>3, <3>1
  <2> QED
    BY <2>4, <2>5
<1>5. CASE DrawFigure
  <2>1. Drawable
    BY <1>5 DEF DrawFigure, DrawTickMark, DrawShortHand, DrawLongHand, DrawBase, FrameInv
  <2>2. heard' = heard
    BY <1>5, <2>1, NoneRefused DEF Drawable, AfterUse, DrawFigure, ModelMatrixSet, SetUniforms
  <2> QED BY <1>5, <2>2 DEF DrawFigure, textureVars, statics
<1>6. CASE DrawBlankFrame
  BY <1>6 DEF DrawBlankFrame, DrawNothing, statics
<1>7. CASE SetProperty
  BY <1>7 DEF SetProperty, SetPropMapping, SetPropFile, glVars, statics
<1>8. CASE TimeMoves
  <2>1. UNCHANGED <<glVars, textureVars>>
    BY <1>8 DEF TimeMoves
  <2> QED BY <2>1 DEF glVars, statics, textureVars
<1>9. CASE UNCHANGED moduleVars
  BY <1>9 DEF moduleVars, glVars, statics, textureVars
<1> QED
  BY <1>1, <1>2, <1>3, <1>4, <1>5, <1>6, <1>7, <1>8, <1>9 DEF ModuleNext

LEMMA ModuleStep == ModuleInv /\ [ModuleNext]_moduleVars => ModuleInv'
<1> SUFFICES ASSUME ModuleInv, [ModuleNext]_moduleVars PROVE ModuleInv'
  OBVIOUS
<1> USE DEF ModuleInv
<1>h. HeardInv'
  BY HeardStep
<1>1. CASE Realize
  <2>1. SetUpInv'
    BY <1>1, SetUpKeeps, NowhereKeeps DEF Realize
  <2>2. frame' = <<>> /\ ~drawing'
    BY <1>1 DEF Realize, FrameInv, Drawable, Idle, SetUp, SetUpNowhere, faceVars
  <2> QED BY <1>h, <1>1, <2>1, <2>2, TextureUntouched DEF Realize, FrameInv
<1>2. CASE Continue
  <2>1. SetUpInv'
    BY <1>2, InitKeeps DEF Continue
  <2>2. step # "done"
    BY <1>2, NotDone DEF Continue
  <2>3. frame' = <<>> /\ ~drawing'
    BY <1>2, <2>2 DEF Continue, FrameInv, Drawable, faceVars
  <2> QED BY <1>h, <1>2, <2>1, <2>3, TextureUntouched DEF Continue, FrameInv
<1>3. CASE Vanish
  <2>1. frame' = <<>> /\ ~drawing'
    BY <1>3 DEF Vanish, Blank, Idle
  <2> QED BY <1>h, <1>3, <2>1, GoneKeeps, TextureLost DEF Vanish, FrameInv
<1>4. ASSUME NEW p \in Poses, StartFrame(p) PROVE ModuleInv'
  <2>1. SetUpInv' /\ TextureInv'
    BY <1>4, HeardKeeps, TextureSent DEF StartFrame, Idle
  <2>2. Drawable'
    BY <1>4 DEF StartFrame, Drawable, Idle, statics
  <2>3. frame' = <<>>
    BY <1>4 DEF StartFrame, BeginFrame
  <2> QED BY <1>h, <2>1, <2>2, <2>3 DEF FrameInv
<1>5. CASE DrawFigure
  <2>1. Drawable
    BY <1>5 DEF DrawFigure, DrawTickMark, DrawShortHand, DrawLongHand, DrawBase, FrameInv
  <2>2. SetUpInv' /\ Drawable' /\ "modelMatrix" \in uniforms'
    BY <1>5, <2>1, ModelMatrixKeeps DEF DrawFigure
  <2> QED BY <1>h, <1>5, <2>2, TextureUntouched DEF DrawFigure, FrameInv
<1>6. CASE DrawBlankFrame
  <2>1. frame' = <<>> /\ ~drawing'
    BY <1>6 DEF DrawBlankFrame, Idle
  <2>2. SetUpInv'
    BY <1>6, HeardKeeps DEF DrawBlankFrame, DrawNothing
  <2> QED BY <1>h, <1>6, <2>1, <2>2, TextureSent DEF DrawBlankFrame, FrameInv
<1>7. CASE SetProperty
  <2>1. SetUpInv'
    BY <1>7, StutterKeeps DEF SetProperty
  <2>2. FrameInv'
    BY <1>7 DEF SetProperty, FrameInv, Drawable, glVars, faceVars, statics, bindings
  <2> QED BY <1>h, <1>7, <2>1, <2>2, PropertySet
<1>8. CASE TimeMoves
  <2>1. SetUpInv' /\ TextureInv'
    BY <1>8, StutterKeeps, TextureUntouched DEF TimeMoves
  <2>2. FrameInv'
    BY <1>8 DEF TimeMoves, ClockMoves, FrameInv, Drawable, glVars, statics, bindings
  <2> QED BY <1>h, <2>1, <2>2
<1>9. CASE UNCHANGED moduleVars
  <2>1. SetUpInv' /\ TextureInv'
    BY <1>9, StutterKeeps, TextureUntouched DEF moduleVars
  <2>2. FrameInv'
    BY <1>9 DEF moduleVars, FrameInv, Drawable, glVars, faceVars, statics, bindings
  <2> QED BY <1>h, <2>1, <2>2
<1> QED
  BY <1>1, <1>2, <1>3, <1>4, <1>5, <1>6, <1>7, <1>8, <1>9 DEF ModuleNext

LEMMA ModuleHolds == ModuleSpec => []ModuleInv
BY ModuleStarts, ModuleStep, PTL DEF ModuleSpec

-----------------------------------------------------------------------------
(* Whichever compilation or link fails, in whichever of any number of      *)
(* contexts, simple_init leaves a program and its two shaders or nothing.  *)
THEOREM NothingStray == ModuleSpec => []NoStrayObjects
<1>1. ModuleInv => NoStrayObjects
  BY DEF ModuleInv, SetUpInv, Made, AtLater, AfterUse, AllOrNothing, Remembered, NoStrayObjects
<1> QED BY <1>1, ModuleHolds, PTL

(* While there is a program, in the first context or in a later one, no    *)
(* call of simple_init or of the drawing code is refused by OpenGL, except *)
(* that the core profile refuses the texture, if a frame gives it one.     *)
THEOREM AlwaysOnlyTextureRefused == ModuleSpec => []OnlyTextureRefused
<1>1. ModuleInv => OnlyTextureRefused
  BY DEF ModuleInv, HeardInv
<1> QED BY <1>1, ModuleHolds, PTL

(* With a program, simple_init leaves OpenGL set up to the last uniform    *)
(* and switch, for the context that is there.                              *)
THEOREM AlwaysSetUp == ModuleSpec => []SetUpCompletely
<1>1. ModuleInv => SetUpCompletely
  <2> SUFFICES ASSUME ModuleInv, context, step = "done", shaderProgram # 0
               PROVE  /\ using = shaderProgram /\ using \in linked
                      /\ Fixed \subseteq uniforms
                      /\ bufferBytes = 8192 /\ boundArray /\ enabled = Attributes
                      /\ capabilities = {"GL_CULL_FACE", "GL_DEPTH_TEST"}
    BY DEF SetUpCompletely
  <2>1. using = shaderProgram /\ using \in linked
    BY DEF ModuleInv, SetUpInv, Made, AtLater, AfterUse, AllOrNothing
  <2>2. Fixed \subseteq uniforms
    BY DEF ModuleInv, SetUpInv, Prepared, Given, Fixed
  <2>3. /\ bufferBytes = 8192 /\ boundArray /\ enabled = Attributes
        /\ capabilities = {"GL_CULL_FACE", "GL_DEPTH_TEST"}
    BY DEF ModuleInv, SetUpInv, Prepared, AfterUse, AfterBuffers, AfterArrays
  <2> QED BY <2>1, <2>2, <2>3
<1> QED BY <1>1, ModuleHolds, PTL

(* What is on the screen was drawn by a program of the context that shows  *)
(* it, with every uniform given.                                           *)
THEOREM AlwaysDrawnCompletely == ModuleSpec => []DrawnCompletely
<1>1. ModuleInv => DrawnCompletely
  <2> SUFFICES ASSUME ModuleInv, frame # <<>>
               PROVE  /\ context /\ step = "done"
                      /\ using \in linked \cap programs /\ "modelMatrix" \in uniforms
                      /\ Fixed \subseteq uniforms
    BY DEF DrawnCompletely
  <2>1. Drawable /\ "modelMatrix" \in uniforms
    BY DEF ModuleInv, FrameInv
  <2>2. using \in linked \cap programs
    BY <2>1 DEF Drawable, ModuleInv, SetUpInv, Made, AtLater, AfterUse, AllOrNothing
  <2>3. Fixed \subseteq uniforms
    BY <2>1 DEF Drawable, ModuleInv, SetUpInv, Prepared, Given, Fixed
  <2> QED BY <2>1, <2>2, <2>3 DEF Drawable
<1> QED BY <1>1, ModuleHolds, PTL

(* Between a change of the texture's file and the frame that hands it on,  *)
(* and in a new context, OpenGL may lack the picture; it never has a       *)
(* wrong one.                                                              *)
THEOREM AlwaysCurrent == ModuleSpec => []TextureCurrent
<1>1. ModuleInv => TextureCurrent
  BY DEF ModuleInv, TextureInv
<1> QED BY <1>1, ModuleHolds, PTL

(* What passes for a picture is that of the file named last.               *)
THEOREM AlwaysOfTheFile == ModuleSpec => []PictureOfTheFile
<1>1. ModuleInv => PictureOfTheFile
  BY DEF ModuleInv, TextureInv
<1> QED BY <1>1, ModuleHolds, PTL

(* Whatever the size of a picture, it is in the middle of its array, row r *)
(* on the line as far from the bottom, and no row leaves the array or runs *)
(* over into the next line.                                                *)
THEOREM AlwaysCentred == ModuleSpec => []PictureCentred
<1>1. ModuleInv => PictureCentred
  BY LoadedIsCentred DEF ModuleInv, TextureInv
<1> QED BY <1>1, ModuleHolds, PTL

(* OpenGL reads every line of an array of whatever width from where the    *)
(* loader wrote it, and in an array two pixels wide all but the first from *)
(* elsewhere.                                                              *)
THEOREM AlwaysMisreadOnlyTwoWide == ModuleSpec => []MisreadOnlyTwoWide
<1>1. ModuleInv => MisreadOnlyTwoWide
  BY LoadedIsAligned DEF ModuleInv, TextureInv
<1> QED BY <1>1, ModuleHolds, PTL
=============================================================================
