SPECIFICATION Spec
CONSTANTS
  undefined = undefined
  Undefined = undefined
  Scalars <- MCScalars
  FolderOrder <- MCFolderOrder
  Markers <- MCMarkers
  DirectFiles <- MCDirectFiles
  FileOrder <- MCFileOrder
  MaxKills = 1
  MaxEdits = 2
  Programs <- MCPrograms
  EntrySchema <- MCEntrySchema
  BaseKeys <- MCBaseKeys
  Changes <- MCChanges
  Sources <- MCSources
  Configs <- MCConfigs
INVARIANTS GeneratedAfresh ThrowsForCause ConfigAsWritten
CHECK_DEADLOCK TRUE
