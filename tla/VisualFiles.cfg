SPECIFICATION Spec
CONSTANTS
  Pages <- MCPages
  sortedArtifactNames <- MCSorted
  MaxBuilds = 3
  MaxEdits = 1
INVARIANT ManifestNeverAhead
PROPERTY RunsSound
\* Nobody has to start another run of the renderer: between two runs it may stop.
CHECK_DEADLOCK FALSE
