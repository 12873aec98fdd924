---------------------------- MODULE SimpleModule ----------------------------
(***************************************************************************)
(* modules/simple.c as a whole: SimpleGL sets OpenGL up, Texture changes   *)
(* the picture, ClockFace draws.  The widget may lose its context and get  *)
(* another between any two frames, and simple_init goes through its steps  *)
(* before the next frame; properties may be set between frames.  All of it *)
(* runs in the main loop's thread, so nothing comes between the figures of *)
(* a frame but time.                                                       *)
(*                                                                         *)
(* The functions are reached directly, as movement does, or through the    *)
(* table that simple_LTX_query_interface hands out, whose set_up, draw and *)
(* set_property call them and whose open and close only allocate and free  *)
(* a structure that nothing looks into.                                    *)
(***************************************************************************)
EXTENDS ClockFace, SimpleGL, Texture

CONSTANT Mappings   \* values of the property texture_mapping

Idle == ~drawing /\ step = "done"

ModuleInit == Init /\ GLInit /\ TextureInit

(***************************************************************************)
(* A context comes with nothing drawn, nothing in the buffer, no texture.  *)
(***************************************************************************)
Blank == frame' = <<>> /\ buffer' = {} /\ UNCHANGED <<now, drawing, lt, pose, matrix>>

Realize  == Idle /\ (SetUp \/ SetUpNowhere) /\ UNCHANGED <<faceVars, textureVars>>
Continue == SimpleInit /\ UNCHANGED <<faceVars, textureVars>>
Vanish   == Idle /\ ContextGone /\ TextureGone /\ Blank

(***************************************************************************)
(* simple_draw_clock with a program: what set_texture left is heard, and   *)
(* the modelMatrix of each figure goes to the program in use.              *)
(***************************************************************************)
StartFrame(p) ==
  /\ Idle /\ context /\ shaderProgram # 0
  /\ SetTexture /\ BeginFrame(p)
  /\ heard' = heard \cup TextureErrors
  /\ UNCHANGED <<context, objects, bindings, statics, program, step>>

ModelMatrixSet == SetUniforms({"modelMatrix"})

DrawFigure ==
  /\ DrawTickMark \/ DrawShortHand \/ DrawLongHand \/ DrawBase(FALSE) \/ DrawBase(TRUE)
  /\ ModelMatrixSet
  /\ UNCHANGED <<context, objects, using, bufferBytes, boundArray, enabled, capabilities,
                 statics, program, step, textureVars>>

(***************************************************************************)
(* Without a program the frame is cleared, and every figure is refused.    *)
(* What went into the buffer is never drawn, and is left out.              *)
(***************************************************************************)
DrawBlankFrame ==
  /\ Idle /\ DrawNothing(TextureErrors) /\ SetTexture
  /\ frame' = <<>>
  /\ lt' = now
  /\ UNCHANGED <<now, drawing, pose, matrix, buffer>>

(***************************************************************************)
(* The rest of the interface, and the wall clock.                          *)
(***************************************************************************)
SetProperty ==
  /\ Idle
  /\ \/ \E value \in Mappings : SetPropMapping(value)
     \/ \E p \in Pictures : SetPropFile(p)
  /\ UNCHANGED <<glVars, faceVars>>

TimeMoves == \E t \in LocalTimes : ClockMoves(t) /\ UNCHANGED <<glVars, textureVars>>

ModuleNext ==
  \/ Realize \/ Continue \/ Vanish
  \/ \E p \in Poses : StartFrame(p)
  \/ DrawFigure \/ DrawBlankFrame
  \/ SetProperty
  \/ TimeMoves

moduleVars == <<faceVars, glVars, textureVars>>

ModuleSpec == ModuleInit /\ [][ModuleNext]_moduleVars

-----------------------------------------------------------------------------
(***************************************************************************)
(* With a program, nothing in simple_init or in the drawing of figures is  *)
(* an error: each call finds the state it needs, also in a second context, *)
(* where the static variables still hold the names of the first.  All that *)
(* is heard is that a context of the core profile refuses the texture,     *)
(* once it was given one.                                                  *)
(***************************************************************************)
OnlyTextureRefused ==
  context /\ step = "done" /\ shaderProgram # 0 =>
    heard = IF CoreProfile /\ sent # Unset THEN {"texture refused"} ELSE {}

(***************************************************************************)
(* A figure is only ever on the screen of a context that is completely set *)
(* up, and drawn with a program of that very context.                      *)
(***************************************************************************)
DrawnCompletely ==
  frame # <<>> => /\ context /\ step = "done"
                  /\ using \in linked \cap programs /\ "modelMatrix" \in uniforms
                  /\ Fixed \subseteq uniforms
=============================================================================
