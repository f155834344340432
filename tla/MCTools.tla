------------------------------ MODULE MCTools -------------------------------
(* The scripts that make and check what is shipped, each over its own       *)
(* cases.  `script' is the one that runs; the variables of the others are   *)
(* Off.                                                                     *)
EXTENDS Packager, CheckJson, C352Path, RomVerify, Png, MraBuild

CONSTANT Off

PackCase == INSTANCE PackCases
MCTrees  == PackCase!MCTrees
MCOld    == PackCase!MCOld
MCRbfs   == PackCase!MCRbfs
MCExtras == PackCase!MCExtras
Core     == PackCase!Core
Slot     == PackCase!Slot
Inst     == PackCase!Inst
Both     == PackCase!Both
JsonCase == INSTANCE JsonCases
MCPackages == JsonCase!MCPackages
MCActives  == JsonCase!MCActives
AudioCase == INSTANCE C352Cases
MCRom(a) == AudioCase!MCRom(a)
MCLogs   == AudioCase!MCLogs
RomCase == INSTANCE RomCases
MCLayout == RomCase!MCLayout
MCPacked == RomCase!MCPacked
MCDumps  == RomCase!MCDumps
MCImages == RomCase!MCImages

PngCase == INSTANCE PngCases
MCScenes == PngCase!MCScenes

MraCase == INSTANCE MraCases
MCCrc(d)      == MraCase!SumMod(d)
MCLower(name) == MraCase!LowerCase(name)
MCDocs    == MraCase!MCDocs
MCRomsets == MraCase!MCRomsets

VARIABLE script

toolVars == <<script, packVars, pathVars, mraVars, romVars, pngVars, jsonVars>>

PackOff  == /\ pkg = Off /\ rbf = Off /\ extras = Off /\ packaging = Off /\ OUT = Off /\ runs = Off
AudioOff == /\ log = Off /\ due = Off /\ n = Off /\ regs = Off /\ vs = Off /\ on_v = Off /\ off_v = Off /\ snap_on = Off
            /\ snap_off = Off /\ exec_pending = Off /\ pend_sample = Off /\ engine = Off /\ eng_voice = Off
            /\ w = Off /\ acc = Off /\ random = Off /\ out = Off /\ chip = Off /\ expected = Off
MraOff   == doc = Off /\ romset = Off /\ stage = Off /\ parts = Off /\ node = Off /\ image = Off /\ rom = OldRom
RomsOff  == dump = Off /\ img = Off /\ job = Off /\ line = Off /\ manifest = Off /\ checked = Off /\ bad = Off
PngsOff  == /\ scene = Off /\ step = Off /\ y = Off /\ frame = Off /\ converted = Off
            /\ pngio = Off /\ own = Off /\ report = Off
JsonOff  == files = Off /\ active = Off /\ checking = Off /\ at = Off /\ faults = Off

ToolsInit ==
  \/ script = "package"  /\ PackInit      /\ AudioOff /\ MraOff /\ RomsOff /\ PngsOff /\ JsonOff
  \/ script = "c352"     /\ PathInit      /\ PackOff  /\ MraOff /\ RomsOff /\ PngsOff /\ JsonOff
  \/ script = "mra"      /\ MraInit       /\ PackOff  /\ AudioOff /\ RomsOff /\ PngsOff /\ JsonOff
  \/ script = "verify"   /\ RomInit       /\ PackOff  /\ AudioOff /\ MraOff /\ PngsOff /\ JsonOff
  \/ script = "pictures" /\ PngInit       /\ PackOff  /\ AudioOff /\ MraOff /\ RomsOff /\ JsonOff
  \/ script = "json"     /\ JsonInit      /\ PackOff  /\ AudioOff /\ MraOff /\ RomsOff /\ PngsOff

Package  == script = "package"  /\ PackNext      /\ UNCHANGED <<script, pathVars, mraVars, romVars, pngVars, jsonVars>>
Sound    == script = "c352"     /\ PathNext      /\ UNCHANGED <<script, packVars, mraVars, romVars, pngVars, jsonVars>>
MraImage == script = "mra"      /\ MraNext       /\ UNCHANGED <<script, packVars, pathVars, romVars, pngVars, jsonVars>>
Verifies == script = "verify"   /\ RomNext       /\ UNCHANGED <<script, packVars, pathVars, mraVars, pngVars, jsonVars>>
Pictures == script = "pictures" /\ PngNext       /\ UNCHANGED <<script, packVars, pathVars, mraVars, romVars, jsonVars>>
Check    == script = "json"     /\ JsonNext      /\ UNCHANGED <<script, packVars, pathVars, mraVars, romVars, pngVars>>

ToolsNext == Package \/ Sound \/ MraImage \/ Verifies \/ Pictures \/ Check
ToolsSpec == ToolsInit /\ [][ToolsNext]_toolVars

-----------------------------------------------------------------------------
(* Each script's promise is its own module's: it holds of itself while the  *)
(* script's variables are Off.                                              *)
=============================================================================
