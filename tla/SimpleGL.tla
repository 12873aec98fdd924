------------------------------ MODULE SimpleGL ------------------------------
(***************************************************************************)
(* The OpenGL set-up of modules/simple.c: simple_init, which               *)
(* movement::realize calls each time the widget gets a context.  Shaders   *)
(* may be refused and the program may fail to link; what was created until *)
(* then is deleted again, and simple_init goes on, and reports success,    *)
(* with no program.  The names the file keeps in static variables outlive  *)
(* the context they belong to.                                             *)
(*                                                                         *)
(* Each function called by simple_init is one step, because the next one   *)
(* relies on the state it leaves in OpenGL.  check_gl_errors at the end of *)
(* a function empties OpenGL's error flags: `heard' is what was printed.   *)
(* Of a shader and a program only their names and what the drawing code    *)
(* depends on are kept; the source text is left out.                       *)
(***************************************************************************)
EXTENDS Integers

CONSTANT Names   \* names OpenGL hands out for shaders and programs

ASSUME NamesAssumption == 0 \notin Names

VARIABLES
  context,        \* GTK: the widget has an OpenGL context
  shaders,        \* OpenGL: shader objects
  programs,       \* OpenGL: program objects
  linked,         \* OpenGL: those linked with the attribute locations of the source
  using,          \* OpenGL: the program in use, or 0
  uniforms,       \* OpenGL: uniforms of the program in use that were given a value
  bufferBytes,    \* OpenGL: the size of the buffer bound, 0 without one
  boundArray,     \* OpenGL: a vertex array is bound, and
  enabled,        \*         the attributes that it takes from the buffer
  capabilities,   \* OpenGL: what glEnable switched on
  vertexShader, fragmentShader, shaderProgram,  \* static variables
  program,        \* link_shader_program: the program being made
  step,           \* where simple_init is, or "done"
  heard           \* errors printed since simple_init began

objects  == <<shaders, programs, linked>>
bindings == <<using, uniforms, bufferBytes, boundArray, enabled, capabilities>>
statics  == <<vertexShader, fragmentShader, shaderProgram>>
glVars   == <<context, objects, bindings, statics, program, step, heard>>

Attributes == {"VERTEX", "NORMAL"}
Lights == {"lightAmbient", "lightDiffuse", "lightSpecular", "lightPosition"}
Fixed == {"projectionMatrix", "viewMatrix"} \cup Lights
Steps == {"vertex", "fragment", "create", "link", "bailout", "use", "buffers", "arrays",
          "projection", "view", "lights", "enable", "done"}

GLInit ==
  /\ context = FALSE
  /\ shaders = {} /\ programs = {} /\ linked = {}
  /\ using = 0 /\ uniforms = {}
  /\ bufferBytes = 0 /\ boundArray = FALSE /\ enabled = {} /\ capabilities = {}
  /\ vertexShader = 0 /\ fragmentShader = 0 /\ shaderProgram = 0
  /\ program = 0 /\ step = "done" /\ heard = {}

-----------------------------------------------------------------------------
(***************************************************************************)
(* handle_realize: a new context, and simple_init begins.                  *)
(***************************************************************************)
\* Mutant: nothing is set up while the variables say that there is a program.
SetUpOnce ==
  /\ ~context /\ step = "done"
  /\ context' = TRUE
  /\ step' = (IF shaderProgram = 0 THEN "vertex" ELSE "done") /\ heard' = {}
  /\ UNCHANGED <<objects, bindings, statics, program>>

SetUp ==
  /\ ~context /\ step = "done"
  /\ context' = TRUE
  /\ step' = "vertex" /\ heard' = {}
  /\ UNCHANGED <<objects, bindings, statics, program>>

(***************************************************************************)
(* The widget got no context: every call of simple_init is without effect, *)
(* and the statuses stay at the 0 they are initialised with.               *)
(***************************************************************************)
SetUpNowhere ==
  /\ ~context /\ step = "done"
  /\ vertexShader' = 0 /\ fragmentShader' = 0 /\ shaderProgram' = 0
  /\ program' = 0 /\ heard' = {}
  /\ UNCHANGED <<context, objects, bindings, step>>

(***************************************************************************)
(* The context is gone (external): the widget is unrealized only with its  *)
(* window, the last holder of the objects, so they go, too; the static     *)
(* variables stay.                                                         *)
(***************************************************************************)
ContextGone ==
  /\ context /\ step = "done"
  /\ context' = FALSE
  /\ shaders' = {} /\ programs' = {} /\ linked' = {}
  /\ using' = 0 /\ uniforms' = {}
  /\ bufferBytes' = 0 /\ boundArray' = FALSE /\ enabled' = {} /\ capabilities' = {}
  /\ UNCHANGED <<statics, program, step, heard>>

-----------------------------------------------------------------------------
(***************************************************************************)
(* compile_shader: OpenGL may fail to create the shader (an error), or     *)
(* refuse to compile it (a log); then it is deleted and the result is 0.   *)
(***************************************************************************)
Free == Names \ (shaders \cup programs)

\* Mutant: a shader that did not compile is not deleted.
CompileShaderLeaky(result) ==
  \/ /\ result \in Free
     /\ shaders' = shaders \cup {result}
     /\ UNCHANGED heard
  \/ /\ result = 0
     /\ \E n \in Free : shaders' = shaders \cup {n}
     /\ UNCHANGED heard

CompileShader(result) ==
  \/ /\ result \in Free
     /\ shaders' = shaders \cup {result}
     /\ UNCHANGED heard
  \/ /\ result = 0
     /\ heard' \in {heard, heard \cup {"not created"}}
     /\ UNCHANGED shaders

CompileVertexShader ==
  /\ step = "vertex"
  /\ \E result \in Names \cup {0} :
       CompileShader(result) /\ vertexShader' = result
  /\ step' = "fragment"
  /\ UNCHANGED <<context, programs, linked, bindings, fragmentShader, shaderProgram, program>>

CompileFragmentShader ==
  /\ step = "fragment"
  /\ \E result \in Names \cup {0} :
       CompileShader(result) /\ fragmentShader' = result
  /\ step' = "create"
  /\ UNCHANGED <<context, programs, linked, bindings, vertexShader, shaderProgram, program>>

(***************************************************************************)
(* link_shader_program: without both shaders there is nothing to link; a   *)
(* program that could not be created does not link either.                 *)
(***************************************************************************)
CreateProgram ==
  /\ step = "create"
  /\ \/ \E n \in Free : program' = n /\ programs' = programs \cup {n} /\ heard' = heard
     \/ program' = 0 /\ programs' = programs /\ heard' = heard \cup {"not created"}
  /\ step' = IF vertexShader = 0 \/ fragmentShader = 0 THEN "bailout" ELSE "link"
  /\ UNCHANGED <<context, shaders, linked, bindings, statics>>

\* Mutant: the attribute locations are bound after the link.
LinkProgramThenBind ==
  /\ step = "link"
  /\ step' \in {"use", "bailout"}
  /\ UNCHANGED <<context, objects, bindings, statics, program, heard>>

LinkProgram ==
  /\ step = "link"
  /\ \/ program # 0 /\ linked' = linked \cup {program} /\ step' = "use"
     \/ UNCHANGED linked /\ step' = "bailout"
  /\ heard' = IF program = 0 THEN heard \cup {"invalid value"} ELSE heard
  /\ UNCHANGED <<context, shaders, programs, bindings, statics, program>>

(***************************************************************************)
(* BAILOUT.  The program is deleted first, which detaches the shaders, so  *)
(* that they are gone as soon as they are deleted; deleting 0 is allowed.  *)
(***************************************************************************)
\* Mutant: only the shader compiled last is deleted.
BailoutKeepsVertex ==
  /\ step = "bailout"
  /\ programs' = programs \ {program}
  /\ shaders' = shaders \ {fragmentShader}
  /\ fragmentShader' = 0 /\ vertexShader' = 0 /\ program' = 0
  /\ step' = "use"
  /\ UNCHANGED <<context, linked, bindings, shaderProgram, heard>>

Bailout ==
  /\ step = "bailout"
  /\ programs' = programs \ {program}
  /\ shaders' = shaders \ {fragmentShader, vertexShader}
  /\ fragmentShader' = 0 /\ vertexShader' = 0 /\ program' = 0
  /\ step' = "use"
  /\ UNCHANGED <<context, linked, bindings, shaderProgram, heard>>

\* Mutant: the program is remembered but not put to use.
UseProgramForgotten ==
  /\ step = "use"
  /\ shaderProgram' = program
  /\ step' = "buffers"
  /\ UNCHANGED <<context, objects, bindings, vertexShader, fragmentShader,
                 program, heard>>

UseProgram ==
  /\ step = "use"
  /\ shaderProgram' = program /\ using' = program
  /\ uniforms' = {}
  /\ step' = "buffers"
  /\ UNCHANGED <<context, objects, bufferBytes, boundArray, enabled, capabilities,
                 vertexShader, fragmentShader, program, heard>>

-----------------------------------------------------------------------------
InitBuffers ==
  /\ step = "buffers"
  /\ bufferBytes' = 8192
  /\ step' = "arrays"
  /\ UNCHANGED <<context, objects, using, uniforms, boundArray, enabled, capabilities,
                 vertexShader, fragmentShader, shaderProgram, program, heard>>

InitVertexArrays ==
  /\ step = "arrays"
  /\ boundArray' = TRUE /\ enabled' = {}
  /\ step' = "projection"
  /\ UNCHANGED <<context, objects, using, uniforms, bufferBytes, capabilities,
                 vertexShader, fragmentShader, shaderProgram, program, heard>>

(***************************************************************************)
(* glGetUniformLocation of shader_program, then glUniform on the program   *)
(* in use.  The first is an error unless the name is that of a linked      *)
(* program, the second an error when no program is in use.                 *)
(***************************************************************************)
Refused ==
  (IF shaderProgram \in linked THEN {} ELSE {"invalid value"})
    \cup (IF using = 0 THEN {"invalid operation"} ELSE {})

SetUniforms(which) ==
  /\ heard' = heard \cup Refused
  /\ uniforms' = IF Refused = {} THEN uniforms \cup which ELSE uniforms

InitUniforms(at, which, next) ==
  /\ step = at /\ step' = next
  /\ SetUniforms(which)
  /\ UNCHANGED <<context, objects, using, bufferBytes, boundArray, enabled,
                 capabilities, statics, program>>

InitProjectionMatrix == InitUniforms("projection", {"projectionMatrix"}, "view")
InitViewMatrix       == InitUniforms("view", {"viewMatrix"}, "lights")
InitLights           == InitUniforms("lights", Lights, "enable")

(***************************************************************************)
(* The end of simple_init: it returns 0 however the steps before went.     *)
(* Enabling an attribute is an error without a vertex array.               *)
(***************************************************************************)
EnableAll ==
  /\ step = "enable"
  /\ capabilities' = {"GL_CULL_FACE", "GL_DEPTH_TEST"}
  /\ enabled' = IF boundArray THEN Attributes ELSE enabled
  /\ heard' = IF boundArray THEN heard ELSE heard \cup {"invalid operation"}
  /\ step' = "done"
  /\ UNCHANGED <<context, objects, using, uniforms, bufferBytes, boundArray,
                 statics, program>>

(***************************************************************************)
(* simple_draw_clock calls set_model_matrix for each figure; without a     *)
(* program all of them are refused, which is heard after what the frame    *)
(* began with, and nothing is drawn.                                       *)
(***************************************************************************)
DrawNothing(earlier) ==
  /\ context /\ step = "done" /\ shaderProgram = 0
  /\ heard' = heard \cup earlier \cup Refused
  /\ UNCHANGED <<context, objects, bindings, statics, program, step>>

SimpleInit ==
  \/ CompileVertexShader \/ CompileFragmentShader
  \/ CreateProgram \/ LinkProgram \/ Bailout \/ UseProgram
  \/ InitBuffers \/ InitVertexArrays
  \/ InitProjectionMatrix \/ InitViewMatrix \/ InitLights \/ EnableAll

-----------------------------------------------------------------------------
(***************************************************************************)
(* Properties.                                                             *)
(***************************************************************************)
(* However the compiler and the linker fail, simple_init leaves behind     *)
(* exactly the objects it remembers: a program and its two shaders, or     *)
(* none of the three.                                                      *)
NoStrayObjects ==
  context /\ step = "done" =>
    /\ shaders = {vertexShader, fragmentShader} \ {0}
    /\ programs = {shaderProgram} \ {0}
    /\ (shaderProgram = 0) <=> (vertexShader = 0)
    /\ (shaderProgram = 0) <=> (fragmentShader = 0)

(* Where a frame can be drawn, OpenGL is set up completely: the program    *)
(* made in this context is in use, with the attribute locations and every  *)
(* uniform the source sets once; buffer, vertex array and switches too.    *)
SetUpCompletely ==
  context /\ step = "done" /\ shaderProgram # 0 =>
    /\ using = shaderProgram /\ using \in linked
    /\ Fixed \subseteq uniforms
    /\ bufferBytes = 8192 /\ boundArray /\ enabled = Attributes
    /\ capabilities = {"GL_CULL_FACE", "GL_DEPTH_TEST"}
=============================================================================
