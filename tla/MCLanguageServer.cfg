CONSTANTS
  Sources <- MCSources
  Layouts <- MCLayouts
  Assemblies <- MCAssemblies
  Manifests <- MCManifests
  ManifestOf <- MCManifestOf
  Input <- MCInput
  Imports <- MCImports
  LayoutsOf <- MCLayoutsOf
  Texts <- MCTexts
  Disks <- MCDisks
  NoVersion = 0
  MaxVersion = 2
  MaxEvents = 5
SPECIFICATION Spec
INVARIANTS NoOrphanDiagnostics StampedDiagnosticsAreCurrent SettledViewIsTrue
PROPERTIES ViewBecomesTrue
CHECK_DEADLOCK FALSE
