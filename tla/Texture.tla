------------------------------ MODULE Texture ------------------------------
(***************************************************************************)
(* The texture of modules/simple.c, as its properties set it: the name of  *)
(* a PNG file comes in through simple_set_prop, the picture is decoded     *)
(* into an array that is a square power of two wide, and the next frame    *)
(* hands that array to OpenGL.  A file may be missing, be no PNG, or break *)
(* off amid its rows, where libpng leaves by longjmp.                      *)
(*                                                                         *)
(* A picture is its size and a name for its pixels; rows are counted from  *)
(* the top, offsets in bytes, three to a pixel (modify_image_info makes    *)
(* every PNG one of eight-bit RGB on the grey background).  size_t is      *)
(* taken to be wide enough.  Running out of memory is left out.            *)
(***************************************************************************)
EXTENDS Integers

CONSTANTS
  Pictures,     \* what PNG files contain: records with a width and a height
  CoreProfile   \* the contexts GTK makes are of OpenGL's core profile

ASSUME CoreAssumption == CoreProfile \in BOOLEAN
ASSUME PicturesAssumption ==
  \A p \in Pictures : p.width \in Nat \ {0} /\ p.height \in Nat \ {0}

VARIABLES
  textureMapping, textureFile, textureWidth, textureImage, textureChanged,  \* static variables
  sent      \* OpenGL: what glTexImage2D was last given in this context, or Unset

textureStatics == <<textureMapping, textureFile, textureWidth, textureImage, textureChanged>>
textureVars    == <<textureStatics, sent>>

Unset == [file |-> "none"]

-----------------------------------------------------------------------------
(***************************************************************************)
(* read_texture_image: where everything goes.                              *)
(***************************************************************************)
\* Mutant: the array is as wide as the picture needs it.
SideExact(p) == IF p.width < p.height THEN p.height ELSE p.width

(* The least power of two that is neither less than w nor less than h.     *)
Doubled[k \in Nat] == IF k = 0 THEN 1 ELSE 2 * Doubled[k - 1]
Covers(n, p) == p.width <= n /\ p.height <= n
Side(p) ==
  Doubled[CHOOSE k \in 0..(p.width + p.height) :
            /\ Covers(Doubled[k], p)
            /\ \A j \in 0..(k - 1) : ~Covers(Doubled[j], p)]

RowSize(side) == 3 * side

\* Mutant: width and height are exchanged where the picture is centred.
RowsCentredWrong(p, side) ==
  [r \in 0..(p.height - 1) |->
     ((side - p.width) \div 2) * RowSize(side) + 3 * ((side - p.height) \div 2)
       + (p.height - 1 - r) * RowSize(side)]

(* The rows table, filled from its end: OpenGL wants the last row first.   *)
Rows(p, side) ==
  [r \in 0..(p.height - 1) |->
     ((side - p.height) \div 2) * RowSize(side) + 3 * ((side - p.width) \div 2)
       + (p.height - 1 - r) * RowSize(side)]

(***************************************************************************)
(* load_texture_image, of a file that holds p if it is good.  Whatever     *)
(* fails before the first row leaves width 0 and the old image behind.     *)
(* Where the rows break off, the background stays in their place, and the  *)
(* table of rows is lost: longjmp goes past free.                          *)
(***************************************************************************)
\* Mutant: the width of the last image stays while nothing is loaded.
LoadNothingKeepsWidth == UNCHANGED <<textureWidth, textureImage>>

LoadNothing ==
  /\ textureWidth' = 0
  /\ UNCHANGED <<textureImage>>

LoadPicture(p, decoded) ==
  /\ textureWidth' = Side(p)
  /\ textureImage' = [file |-> "read", of |-> p, rows |-> Rows(p, Side(p)), decoded |-> decoded]

LoadTextureImage(p) ==
  \/ LoadNothing
  \/ \E decoded \in BOOLEAN : LoadPicture(p, decoded)

-----------------------------------------------------------------------------
TextureInit ==
  /\ textureMapping = 0 /\ textureFile = Unset
  /\ textureWidth = 0 /\ textureImage = Unset /\ textureChanged = FALSE
  /\ sent = Unset

(***************************************************************************)
(* simple_set_prop, the set_property entry of the interface.  The first    *)
(* property is set, and yet the call reports failure.                      *)
(***************************************************************************)
SetPropMapping(value) ==
  /\ textureMapping' = value
  /\ UNCHANGED <<textureFile, textureWidth, textureImage, textureChanged, sent>>

\* Mutant: only a picture that was loaded counts as a change.
SetPropFileIfLoaded(p) ==
  /\ textureFile' = p
  /\ LoadTextureImage(p)
  /\ textureChanged' = (textureChanged \/ textureWidth' # 0)
  /\ UNCHANGED <<textureMapping, sent>>

SetPropFile(p) ==
  /\ textureFile' = p
  /\ textureChanged' = TRUE
  /\ LoadTextureImage(p)
  /\ UNCHANGED <<textureMapping, sent>>

(***************************************************************************)
(* The beginning of simple_draw_clock: OpenGL is given the array, and the  *)
(* first check_gl_errors prints what it says to that.  The core profile    *)
(* refuses the internal format 3; where it is accepted, width 0 means no   *)
(* texture any more.  No shader of this version looks at the texture.      *)
(***************************************************************************)
TextureErrors == IF textureChanged /\ CoreProfile THEN {"texture refused"} ELSE {}

SetTexture ==
  /\ sent' = IF textureChanged THEN [width |-> textureWidth, image |-> textureImage] ELSE sent
  /\ textureChanged' = FALSE
  /\ UNCHANGED <<textureMapping, textureFile, textureWidth, textureImage>>

TextureGone ==
  /\ sent' = Unset
  /\ UNCHANGED textureStatics

-----------------------------------------------------------------------------
(***************************************************************************)
(* Properties.                                                             *)
(***************************************************************************)
(* The array is a square that holds the picture upright to OpenGL, row r   *)
(* on the line that is as far from the bottom, in the middle: the margins  *)
(* on opposite sides differ by a pixel at most.  No row leaves the array   *)
(* or runs over into the next line.                                        *)
Line(offset, side)   == offset \div RowSize(side)
Across(offset, side) == (offset % RowSize(side)) \div 3
Balanced(a, b) == a = b \/ a + 1 = b
PictureCentred ==
  textureWidth # 0 =>
    LET p == textureImage.of  rows == textureImage.rows  side == textureWidth
    IN /\ Balanced(Line(rows[p.height - 1], side), side - 1 - Line(rows[0], side))
       /\ \A r \in 0..(p.height - 1) :
            /\ Line(rows[r], side) = Line(rows[0], side) - r
            /\ Balanced(Across(rows[r], side), side - Across(rows[r], side) - p.width)

(* OpenGL takes the lines of an array to begin at multiples of four bytes. *)
(* From where the loader wrote a line, OpenGL reads it, in an array of     *)
(* any width but two: there it misreads every line after the first.        *)
UnpackAlignment == 4
UnpackStride(side) ==
  UnpackAlignment * ((RowSize(side) + UnpackAlignment - 1) \div UnpackAlignment)
MisreadOnlyTwoWide ==
  textureWidth # 0 =>
    \A line \in 0..(textureWidth - 1) :
      line * UnpackStride(textureWidth) = line * RowSize(textureWidth)
        <=> textureWidth # 2 \/ line = 0

(* Where no frame is due to hand over a texture, OpenGL has the one loaded *)
(* last, or was given none in this context: a new one starts without, and  *)
(* textureChanged does not say so.                                         *)
TextureCurrent ==
  \/ textureChanged
  \/ sent = Unset
  \/ sent = [width |-> textureWidth, image |-> textureImage]

(* A file that could not be read never leaves the picture of another: what *)
(* has a width is the picture of the file last named.                      *)
PictureOfTheFile == textureWidth # 0 => textureImage.of = textureFile
=============================================================================
