# A TLA+ model of rglclock

rglclock shows a 3D analogue clock in a GTK window. Dragging the clock with
the mouse throws it: it then rotates by itself, in the direction of the drag
and the faster the longer the drag was. This directory models the program's
own logic in TLA+, checks it with TLC on small instances, and proves the
central facts with TLAPS for every instance.

Everything is translated from the sources: `lib/movement.cpp`, `lib/clock.h`,
`lib/mat4.c`, `lib/g_ptr.h`, `modules/simple.c`, `programs/rglclock.cpp`,
`programs/about.cpp`, `programs/profile.cpp`, and `libgnu/getopt.c`, the one
vendored file whose logic decides what the program does. GTK, GDK, GLib,
OpenGL, libpng, libxml and the file system are external: they appear as actions
and operators that do what the sources rely on, and are marked external in
`PROJECT.json`.

## The system

| part | state it keeps | operations | interacts with |
|------|----------------|------------|----------------|
| command line (`rglclock.cpp`, `getopt.c`) | option flags; `optind` and the scan's position | parse_options, one getopt_long call after another | main |
| application (`rglclock.cpp`, `about.cpp`) | the GtkApplication, window, menu, one movement, one profile | activate, About, Exit, restore at start, save at exit | owns movement and profile; nests main loops |
| movement (`movement.cpp`) | update rate, timeout id, speed, axis, attitude, time of the last frame, point of the last press | timeout, realize, render, button press and release, set_update_rate, destruction | the GTK main loop calls it; it calls mat4 and the clock face |
| mat4 (`mat4.c`) | none | multiply, rotate, copy | movement, clock face |
| OpenGL set-up (`simple.c`) | names of program, shaders, uniforms; OpenGL's own state | simple_init, on every realize | movement calls it; OpenGL |
| clock face (`simple.c`) | OpenGL's buffer, uniform, attributes | draw one frame | reads the wall clock; OpenGL |
| texture (`simple.c`) | file name, image, width, "changed" | set a property, load a PNG, upload | the module interface, which nobody uses in this version |
| profile (`profile.cpp`) | file name, "changed" | open, restore, options_changed, save | the options file; sets the movement's rate |
| g_ptr (`g_ptr.h`) | a counted pointer | construct, copy, move, assign, reset | GObject references |
| option dialogs (`options.cpp`, `modaldialog.cpp`, `clock_options.cpp`) | — | inside `#if 0` | — |

Everything runs in one thread. What makes it hard is the order in which the
main loop delivers timeouts, frames, button events, double-click events, menu
grabs and dialogs; the wall clock, which moves (or is set) between and during
frames; OpenGL's state, shared by everything and gone with its context, while
the program's static variables stay; crashes and failing writes while options
are saved; a second instance of the program; and members the constructor leaves
uninitialised. `PROJECT.json` lists each hazard at its line.

What makes each part correct, in short: one live timeout at the right interval
and none after destruction; a clock that moves by speed times elapsed time, in
the direction of the gesture it saw, and is never distorted; matrix literals
that are the rotations they are meant to be; a context that is set up
completely or draws nothing, with no object left over; two hands that show one
instant and point where the marks say; figures drawn from their own data; a
picture in the middle of its texture; an options file that is replaced as a
whole and restored as saved; a command line that means the same in any order of
words; counts that equal the references held; and a program that always gets to
its window, and from there to its end.

## Modules

| module | models | abstract / composed with |
|--------|--------|--------------------------|
| `Mat4` | `mat4.c`, one operator per function | — |
| `Mat4Laws` | textbook meaning: matrix times vector, Rodrigues' formula, determinant, proper rotation | reference for `Mat4`, used by `Movement` |
| `Mat4Walk` | `movement::rotate` repeated | `Mat4`, compared with `Mat4Laws` |
| `Movement` | class `movement` | uses `Mat4` for the attitude |
| `ClockFace` | `simple_draw_clock` | uses `Mat4` for `rotate_z` |
| `SimpleGL` | `simple_init` and what it calls | — |
| `Texture` | the texture and its properties | — |
| `SimpleModule` | `simple.c` as a whole | composes `ClockFace`, `SimpleGL`, `Texture` |
| `OptionsFile` | what `profile.h` promises of the file | abstract specification |
| `Profile` | class `profile` and its two callers | implements `OptionsFile` |
| `Getopt` | `getopt_long` for options without arguments | — |
| `CommandLine` | `parse_options` and its table | extends `Getopt`; compared with a scan-free definition |
| `Application` | main, run after run of the program | composes `CommandLine` and `Profile` |
| `GPtr` | class `g_ptr` over GObject's counts | — |
| `MC*` | instances for TLC | — |
| `*Proofs` | theorems | extend the modules they are about; `Mat4Proofs` and `Mat4WalkProofs` are the algebra the others cite |

Operators whose comment begins with "Mutant:" are deliberately wrong versions
of the definition that follows; each shows that some property notices the
mistake. They are not part of any specification.

### Movement

Each callback registered by the constructor is one action: `HandleTimeout`,
`Realize`, `Render`, `ButtonPress`, `ButtonRelease`; `SetUpdateRate` is split
into its three ways out (exception, nothing to do, new timeout); `Destroy` is
the destructor. The variables have the members' names without the underscore,
`origin` being `_x0, _y0`. External actions: a source becomes due, the widget
is unrealized or exposed, GDK follows a press by `GDK_2BUTTON_PRESS`, the menu
swallows button events while it is up. The menu of the program is attached by
button 3's *release*; button 1 may be down at that moment, and its release is
then never seen.

Numbers: `angle = _rate * seconds` is kept with time in ticks and one unit of
drag times one tick a quarter turn, so that every attitude is an integer
matrix. A drag goes from any point to any other. One along x or along y gives
a speed in the integers; the speed of another, and the attitude once it has
turned by it, have no integers for their value and are `Oblique`: a speed that
is not 0, an attitude of which nothing more is said. Axis, gesture and grab of
such a throw are kept like those of any. The uninitialised `_axis`, `_x0`,
`_y0` are any of the values given, among them `NotFinite`, which stands for a
NaN or an infinity and, as in IEEE arithmetic, spoils every product.

History variables record what the properties compare with: attitude and time
of the last throw (`start`, `base`), where the user put button 1 down
(`downAt`), whether that press went to the menu (`missed`), the way of the
gesture that threw (`drag`) and whether the clock had not seen its press
(`blind`), and a release the menu took (`lost`). No action reads them, except
that the second press of a double click has the point of the first.

### Clock face

One action per figure. Nothing interleaves with them in the program, but each
is a step for OpenGL, which executes writes to one buffer and draws from it,
and for the wall clock, which runs on between two of them (`ClockMoves`,
arbitrary: it may also be set). `buffer` keeps the writes that nothing has
overwritten, with their byte offsets and sizes; `frame` what each draw call
actually read. Angles are in units of pi/21600, exactly the step of the short
hand. A model matrix is kept as the pair (pose, angle) and multiplied out with
`Mat4` where the angle is a multiple of a quarter turn.

### OpenGL set-up, texture, and the module as a whole

`SimpleGL` has one step per function that `simple_init` calls, because each
relies on what the one before left in OpenGL; a shader may be refused, the
program may fail to link, and the label `bailout` deletes what was made. The
static variables (`shaderProgram` and the like) stay when the widget loses its
context; what OpenGL holds (`shaders`, `programs`, `using`, `uniforms`,
`enabled`, the buffer) does not. `heard` collects the errors
`check_gl_errors` would print, those of the frames included. Names are any that OpenGL has not handed out,
so a name of a new context may be that of the old one.

`Texture` keeps a picture as its size and a name for its pixels, and follows
the arithmetic of `read_texture_image`: the side, a power of two; the table of
row pointers, filled from its end. A load may find no file, no PNG, or leave
by `longjmp` amid the rows. `sent` is what `set_texture` gave to OpenGL. Whether
OpenGL takes it depends on the context: `glTexImage2D` with the internal
format 3 is an error in the core profile (`CoreProfile`), and the frame's first
`check_gl_errors` prints it (`TextureErrors`).

`SimpleModule` puts them together: realize, the steps of the set-up, losing the
context, setting properties, frames figure by figure while time runs on, and
the frame without a program, which clears the screen and no more. The
interface structure (`simple_LTX_query_interface`) only names these functions.

### Profile

A document is reduced to its `misc` elements, each to the number in its
`update` attribute. Saving takes several steps because the process can be
killed between them: parse, open the temporary file, write, rename. Files are
inodes under two names. `Procs` are processes of the program.

As configured today the XML code is not compiled at all
(`HAVE_GNOME_XML_PARSER_H` is defined nowhere) and nobody calls
`options_changed`. The constant `HaveXml` says whether the code is there; all
runs have it, so that they speak about the class as written, and the theorems
are for both builds. Changing an option (`ChangeRate`, external) may or may not
come with a call of `options_changed`; `edited` records that one came.

### Command line

A word is what getopt finds out about it: an operand, `--`, a cluster of
letters, or a long option with the set of table entries it may abbreviate and
whether `=value` follows. Indices are those of the C code. The loops are steps:
one per word passed, one per round of `exchange`, with `bottom`, `middle` and
`top` as in the source, so that what a partial exchange leaves behind is a
state of the model. Both orderings exist, as `POSIXLY_CORRECT` may be set.
`CommandLine` adds the table of `rglclock.cpp`, the loop of `parse_options`
and what `main` does next. GTK's own options have been removed by then
(`gtk_init`, external).

### Application

`phase` is where `main` is: parsing, constructing, activating, in the main loop,
in the nested main loop of the About dialog, destroying, or over (returned,
ended by an exception, killed). `Profile` is instantiated with one process, its
`pc` under the name `stage`, so saving keeps all its steps and a run can be
killed at each; `RunAgain` starts the next run with the files as they are.
`HOME` may be missing in any run. `gtk_dialog_run` returns without hiding the
dialog, and nothing destroys it: `dialogs` counts those left on the screen.

### g_ptr

`ptr` is the member `_ptr` of each variable; `refs` and `floating` are
GObject's; `others` counts references that GTK or a caller holds. Each member
function is one action with its calls in the source's order, also for a
variable assigned to itself and for two variables with one object. `safe`
records that GObject was never handed a freed object; a place in memory can be
used again by a new object. Making a g_ptr of a plain pointer sinks a floating
reference, and otherwise adds one.

## Runs

Bounds are small but contain each interesting case; where a number matters it
is given here.

| run | shows | instance |
|-----|-------|----------|
| `mat4_walk` | the literal is Rodrigues' formula (also for skew, non-unit axes); multiplication composes in the order `rotate` needs | angles -3..5 quarter turns, so that both signs and more than a full turn occur; six coordinate directions of lengths 1 and 2; 1297 states |
| `movement_timer` | exactly one timeout under any sequence of rate changes; none after destruction; a visible clock keeps being redrawn | rates -1, 0, 1, 20, 99, 100, 101: both ends and their neighbours; three source ids, so that an old one could linger |
| `movement_drag` | turning follows elapsed time; attitude stays a rotation; direction of the drag; stationary without speed; a throw is that of the gesture if the clock saw its press; the grab is accounted for | two buttons, menu and double clicks; the points (0, 0), (1, 0) and (0, 5): a click in place, drags of lengths 1 and 5 (either with the time of a frame makes a quarter turn) in all four directions, and diagonal ones; clock stamps 1.0 and 1.5 s, so that time goes by, stands still and goes backwards; without the timer and destruction, which `movement_timer` has, and which no gesture depends on (`DragSpec`); 1 134 110 states |
| `clock_face` | hands agree and meet the marks, figures stay apart, go clockwise, are not culled | nine times with noon, midnight and a leap second; three poses |
| `simple_module` | set-ups fail without leftovers; with a program no error is heard but that of the texture; figures only with a complete set-up of the present context; the picture is centred, read where it was written unless two pixels wide, current and that of its file | two times, two poses, a 6x3, a 1x4 and a 2x1 picture (sides 8, 4 and 2; odd and even margins), contexts of the core profile, three names (two shaders and a program, so old names return), symmetric |
| `profile_shared` | a bad file is for ever; only editors write | two processes with kills and failing writes, three inodes |
| `application` | `exchange` is a rotation of two blocks; the scan is right, operands come last, the outcome is as declared; options are restored, replaced as a whole and saved at every end but a kill; a launch settles, quitting ends | command lines of up to four of five words (blocks of 1 to 3 against 1 to 3) or two of twelve; documents without, with one and with several `misc` elements, and illegal rates; two inodes; two dialogs; 41 079 states |
| `g_ptr` | counts are right, no freed object is touched, what is held does not float | four variables, three objects, two other references, symmetric: a self-assignment, an alias and a third party at once |
| `double_click`, `uninitialised_axis`, `stray_throw`, `profile_write_fails` | the disagreements below | the smallest instances that show them |

In `application` command line and options file are not combined: `MCInit`
starts with an empty command line or without an options file, since after
parsing nothing looks at the command line again (`LineForgotten`).

Deadlock is checked except for `Movement`, which really ends: destroyed, or
aborted by an assertion.

### Disagreements found

* A double click makes GTK deliver `GDK_2BUTTON_PRESS` to
  `handle_button_press_event`, whose assertion (`movement.cpp:219`) admits
  only `GDK_BUTTON_PRESS`: without `NDEBUG` the program ends.
* `_axis` is read by the first frame and set by nobody before the first drag.
  If the memory holds a NaN, the clock is gone from the first frame; README
  says that it starts stationary. With finite garbage it does, and that is a
  theorem (`StationaryUntilDragged`).
* `end_drag` runs for every release of button 1, also for one whose press went
  to the popup menu and closed it. The clock is then thrown by the way from an
  earlier point, or from a point that was never set; README says that it
  rotates in the direction of the drag. What does hold is
  `ThrowFollowsGesture`: the throw is right whenever the clock saw the press,
  whatever came before.
* The result of `xmlSaveFile` is ignored, so a write that fails half way
  replaces a good options file by a fragment.

Others met while modelling have no run of their own, because a change of a
constant shows them or because they are plain to see in one line:

* NEWS 1.3.1 has options that are changed at run time and saved. In this
  version nothing changes one (the dialog is inside `#if 0`), nothing calls
  `options_changed`, and the build never compiles the XML code, without which
  README calls all settings transient.
* In a context of the core profile, which is what GTK makes, every texture is
  refused for its internal format 3 (`OnlyTextureRefused`).
* A readable document without a `misc` element gets none on saving, so the
  rate is lost; `RestoresWhatWasSaved` and `SavedAtTheEnd` name this case as
  their exception. Two processes share the temporary file, so that even with
  no failing write `StaysReadable` fails.
* `rglclock.1` documents `--private-colormap`, which `parse_options` rejects.
* The comment of `show_about_dialog` says that it returns immediately; it
  nests a main loop, and the dialog stays on the screen afterwards.
* A new OpenGL context never gets the texture again (`TextureCurrent` admits
  it), and a texture two pixels wide is misread for its unpack alignment
  (`MisreadOnlyTwoWide` says so). Setting `texture_mapping` works and
  returns -1.
* Making a g_ptr of an object that is not floating and not kept by anybody else
  (the GtkApplication, the GMenu) leaves one reference too many: a leak, not a
  danger. The move assignment lacks its return statement; nothing
  instantiates it. `reset` drops the old object before it references the
  new one; the only call resets an empty g_ptr.

### Fairness

`KeepsRedrawing` assumes weak fairness of three things only: a live GLib
source's interval elapses, the main loop dispatches a source that is due, and
GTK's frame clock draws a realized widget that has a draw queued. These are
what the main loop promises; no fairness is assumed of users, of rate changes,
or of destruction. The property itself assumes that from some time on the
clock stays live and visible and its rate is left alone, since every change of
rate rightly starts a new interval.

`LaunchSettles` and `QuitEnds` assume weak fairness of `Proceed` alone: the
sequential code between two waits for the user runs on. Nothing is assumed of
the user, who may leave a dialog up for ever; that is why `QuitEnds` begins in
the loop where quitting was possible.

## Proofs

All theorems hold for every value of the constants that the named assumptions
admit: rates are integers, points pairs of integers, time stamps positive,
poses integer matrices, local times in the ranges of `struct tm`, variables of
type g_ptr finitely many, pictures not empty, OpenGL's names not 0, special
values of the profile distinct from documents and rates, words of one of the
four kinds with at least one letter in a cluster, long options abbreviating
entries of the table.

* **Matrices** (`Mat4Proofs`). The literal of `mat4_rotate` is Rodrigues'
  formula for every axis, cosine and sine. Then the algebra, entry by entry:
  `Multiply` composes and associates, the identity is neutral on both sides; a
  turn about a coordinate axis lies in a plane (`InPlane`), where turns add
  (`AnglesAddUp`), keep the determinant and keep a proper rotation proper.
* **Repeated rotation** (`Mat4WalkProofs`). Every attitude reached is a
  right-angle pose of determinant 1 (`PoseInv`), for any number of turns by
  any angles; angles about one axis add.
* **Movement** (`MovementProofs`). `TypeOK` is not inductive: a second press
  re-begins a drag at the point of the first, so there must have been one;
  `SecondFollowsPress` is the strengthening. `ExactlyOneTimeout` rests on the
  fact that `reset_timeout` removes the source it remembers before it adds
  one, `NothingDangles` on the same. `ThrowsFollowGestures` needs that,
  while button 1 is down and its press was seen, the remembered point is where
  it went down (`HeldKnown`); it is for drags in any direction. `StationaryUntilDragged` needs `RotateByNothing` and
  `IdentityIsNeutral`, and assumes that uninitialised memory is finite
  (`FiniteGarbage`). That the clock turns by speed times elapsed time, stays a
  proper rotation and turns toward the drag follows from `CourseInv`: while
  there is an integer speed the axis lies along one coordinate axis, and the attitude is
  the base turned by the whole angle since the throw; each frame adds an
  angle, and `AnglesAddUp` does the rest.
* **Clock face** (`ClockFaceProofs`). The inductive invariant `FrameInv` knows
  the frame under way completely: entry k was drawn from exactly the arrays of
  figure k, under the frame's pose and the angle of figure k at the frame's
  time. The heart is `PaintAppends`: if a figure's two arrays fit in the buffer
  one after the other (`Fits`: the reason why the base has its normals at
  0x800), a draw reads exactly what its figure wrote. All of the run's
  properties follow; that no triangle is culled by mistake from the cross
  products of each kind of figure, for hands of any length (`HandFaces`).
* **The module** (`SimpleModuleProofs`). `SetUpInv` says, for each step of
  `simple_init`, what has been made and what has been prepared in OpenGL, and
  that nothing else exists. No objects are left over, no error but the
  texture's is heard with a program (`HeardInv`: which is heard exactly when a
  frame of this context has handed one over), a set-up is complete or absent; with `FrameInv` beside it a figure
  is only ever on the screen of a complete one. `TextureCurrent` and
  `PictureOfTheFile` hold for all pictures. So do `PictureCentred` and
  `MisreadOnlyTwoWide`, by `Loaded`: an array with a width has the rows of
  some picture where `Rows` puts them. Its side is found by doubling, a
  recursive function; that it is a power of two no smaller than the picture
  is an induction over the numbers, done on the least counterexample
  (`LeastOf`, from the library's `WFMin`), since the library's induction
  theorems themselves take an operator as a parameter.
* **Profile** (`ProfileProofs`). For any number of processes only one that
  was told of a change, and has the XML code, writes, and a file that throws throws for ever: what is
  written carries the rate of a process that started, which is legal
  (`BadIsOld`: a bad document is one nobody wrote). For a process that is
  alone, what it is writing is the temporary file and nobody else touches it
  (`OwnTmp`): the rate saved last is restored, across kills, and every step
  maps to a step or a stutter of `OptionsFile`.
* **getopt and the command line** (`ApplicationProofs`). For command lines of
  any length and any words: between two rounds, `exchange` has the words of the
  two blocks it was given rotated except for what lies between `bottom`,
  `middle` and `top`; at its end, both blocks have changed places and kept their
  order (`LineInv`, which also has that everything passed is options first, then
  operands: `Sorted`). `OperandsLast` and `OutcomeAsDeclared` need `ScanInv`
  beside it. It gives each word passed its present place, `Spot`, by the number
  of options in front of it (`Fronts`, a cardinality); words not yet passed
  have not moved. Its lemmas are what each step does to the places: passing an
  option (`PlacedNext`), passing operands (`PlacedOperands`), exchanging
  (`PlacedExchanged`), and reading the result off at the end (`PlacedAtEnd`).
  For the outcome it says that no word passed was wrong and that a flag is set
  exactly if one of them names it (`Heeded`); an abbreviation names one entry
  or is refused because no two entries of the table do the same
  (`FoundIsTheOne`). While an exchange is under way all this is said of the
  array it was given. That a scan ends, which the run checks as part of
  `LaunchSettles`, is proved as far as it can be without fairness: each step
  goes to a later word or letter, a later place in the code, or a smaller rest
  to exchange (`ScanGetsCloser`), and these are bounded (`ScanIsBounded`).
* **Application** (`ApplicationProofs`). The command line's theorems hold of
  every run after run of the program (`LineInvariant`: a step of `AppNext` is
  one of the scan, forgets the line, or leaves it alone). Every step is also
  one of a lone process of `Profile` or leaves that alone
  (`ImplementsProfile`), so `RestoresWhatWasSaved` and, if writing does not
  fail, `ReplacedAsAWhole` carry over. `SavedAtTheEnd` has a part for either
  build. With the XML code: a run that was told of a change has `changed` set
  until it saves (`Told`), so only a save that renamed brings it to its end,
  with a rate changed last even if that change was not told of. This part
  needs writes that do not fail; if they do, `profile_write_fails` is what
  happens. Without the XML code, as the program is built now, the document is
  what it was at the beginning, and nothing is assumed.
* **g_ptr** (`GPtrProofs`). For any number of variables and objects the count
  of an object is the number of variables that hold it and of other
  references; it is a cardinality, so each action is a lemma about adding or
  removing one variable. Hence no freed object is ever touched.

Only model-checked: liveness (`KeepsRedrawing`, `LaunchSettles`, `QuitEnds`),
which is out of the prover's reach, as it needs `ENABLED`. Every invariant that
a passing run checks is stated by a theorem, and so is every action property
and refinement.

## Not modelled

* Rounding of floats: all numbers are exact. Drift of the attitude over many
  frames is therefore outside the model. Of diagonal drags, and of angles between
  quarter turns, the attitude (`Oblique`); their axis and gesture are there.
* Running out of memory; wording and layout; colours, lighting and the text of
  shaders; translations, manuals, build files, headers with declarations only.
* The option dialogs inside `#if 0`, which are not compiled.
* Containment of one object in another: `reset` would be dangerous only there.
* gnulib apart from getopt. `libgnu/` is vendored portability code: printf,
  replacement headers (`*.in.h`), wrappers of C functions. It makes up some
  21 000 of the 24 500 lines of implementation in the repository, and has no
  state of the clock's. Of the program's own 2 800 lines, licence texts,
  includes, declarations and the dialogs above being taken off, what is
  modelled is nearly all.

## Plan

The planned modules are written, and every safety property the runs check is
proved. What is left, in this order:

1. Speed and attitude after diagonal drags, with vectors over an ordered field given by assumptions
   instead of the integers.
2. Measures like that of the scan for the other two liveness properties: what a
   save or an interval of the timer has still to go.
