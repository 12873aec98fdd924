SPECIFICATION ModuleSpec
CONSTANTS
  LocalTimes <- TwoTimes
  Poses <- TwoPoses
  Pictures <- ThreePictures
  CoreProfile = TRUE
  Mappings = {1}
  Names = {n1, n2, n3}
SYMMETRY Symmetry
INVARIANT NoStrayObjects
INVARIANT OnlyTextureRefused
INVARIANT SetUpCompletely
INVARIANT DrawnCompletely
INVARIANT PictureCentred
INVARIANT MisreadOnlyTwoWide
INVARIANT TextureCurrent
INVARIANT PictureOfTheFile
