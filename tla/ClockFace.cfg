SPECIFICATION Spec
CONSTANTS
  LocalTimes <- TellingTimes
  Poses <- ThreePoses
INVARIANT HandsAgree
INVARIANT HandsMeetMarks
INVARIANT FiguresIntact
INVARIANT FacesShowTheirNormals
INVARIANT ClockwiseFromFront
