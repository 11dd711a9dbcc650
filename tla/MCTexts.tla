------------------------------- MODULE MCTexts -------------------------------
(***************************************************************************)
(* One run for the five parts that turn text into data and share no state: *)
(* the sections of looka.conf (ConfigParser), its characters (ConfigText), *)
(* the files of statements (SqlFile), requests (RequestText) and the       *)
(* index's files (IndexFormat).  A behaviour is one of one of them, while  *)
(* the others stay as they are.                                            *)
(***************************************************************************)
EXTENDS MCConfigParser, MCConfigText, SqlFile, MCSqlFile, RequestText,
        MCRequestText, IndexFormat, MCIndexFormat

VARIABLES
  reader,                                        (* whose behaviour it is   *)
  text, meant, inside                            (* of ConfigText           *)

configVars == <<text, meant, inside>>

Config == INSTANCE ConfigText WITH
            Heads <- MCHeads, Items <- MCItems, Braces <- MCBraces,
            MaxSections <- 2, MaxItems <- 2

-----------------------------------------------------------------------------
(* The parts with many initial states are idle unless they are chosen.     *)
RequestIdle == method = "get" /\ fields = <<>> /\ sent = <<>>

FormatIdle ==
  /\ layout = "index" /\ written = <<>> /\ bytes = <<>> /\ label = "writing"
  /\ at = 0 /\ left = 0 /\ token = <<>> /\ read = <<>>

TextsInit ==
  /\ Init /\ Config!Init /\ SqlInit
  /\ \/ reader \in {"sections", "config", "sql"} /\ RequestIdle /\ FormatIdle
     \/ reader = "request" /\ RequestInit /\ FormatIdle
     \/ reader = "format" /\ RequestIdle /\ FormatInit

ReadSections ==
  /\ reader = "sections" /\ Next
  /\ UNCHANGED <<reader, configVars, sql, requestVars, formatVars>>

ReadConfig ==
  /\ reader = "config" /\ Config!Next
  /\ UNCHANGED <<reader, vars, sql, requestVars, formatVars>>

ReadSql ==
  /\ reader = "sql" /\ SqlNext
  /\ UNCHANGED <<reader, vars, configVars, requestVars, formatVars>>

ReadRequest ==
  /\ reader = "request" /\ RequestNext
  /\ UNCHANGED <<reader, vars, configVars, sql, formatVars>>

ReadFormat ==
  /\ reader = "format" /\ FormatNext
  /\ UNCHANGED <<reader, vars, configVars, sql, requestVars>>

TextsNext ==
  ReadSections \/ ReadConfig \/ ReadSql \/ ReadRequest \/ ReadFormat

TextsSpec ==
  TextsInit /\ [][TextsNext]_<<reader, vars, configVars, sql, requestVars, formatVars>>

-----------------------------------------------------------------------------
(* The text of looka.conf is read as it is meant (looka_config_parser.cpp). *)
SectionsAreRead == reader = "config" => Config!SectionsAreRead
=============================================================================
