SPECIFICATION ToolsSpec
CONSTANTS
  Off = Off
  NoLength = NoLength
  None = None
  Malformed = Malformed
  NotHex = NotHex
  Missing = Missing
  Trees <- MCTrees
  OldTrees <- MCOld
  Rbfs <- MCRbfs
  Extras <- MCExtras
  Ignored = {".DS_Store", "a.rom", "old.zip"}
  RomNames = {"a.rom", "A.ROM", "old.zip"}
  CoreDir <- Core
  SlotDir <- Slot
  InstDir <- Inst
  Instances <- Both
  Runs = 2
  Packages <- MCPackages
  Actives <- MCActives
  NAME_MAX = 8
  OPTS_MAX = 3
  SIZE_MAX = 50
  TOTAL_OPTS_MAX = 3
  VARS_MAX = 6
  ENTRIES_MAX = 8
  Voices = 2
  Rom <- MCRom
  Logs <- MCLogs
  Samples = 8
  LAYOUT <- MCLayout
  Packed <- MCPacked
  Dumps <- MCDumps
  Images <- MCImages
  Scenes <- MCScenes
  Cell = 2
  Crc <- MCCrc
  Lower <- MCLower
  Docs <- MCDocs
  Romsets <- MCRomsets
INVARIANTS SameSample ImageIntended VerdictExact NoRomShipped PackageExact PictureRead ReportTrue PassedWorks
