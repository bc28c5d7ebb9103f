---------------------------- MODULE ConfigStore ----------------------------
(***************************************************************************)
(* How WebSettings keeps the settings over resets: the configuration file  *)
(* /WebSettings.conf, its backup /WebSettings.sich and, in the NVS, the    *)
(* CRC of the file (src/src/WebSettings.cpp).  One task at a time works on *)
(* them: setup(), then the web server.  The controller may lose its power  *)
(* between any two steps.                                                  *)
(*                                                                         *)
(* A configuration is a version; a file is missing, or torn (part of a     *)
(* configuration), or whole.  Different contents have different CRCs, so   *)
(* the content itself stands for its CRC.  The file system and the NVS are *)
(* external: a file opened for writing may keep its old content until it   *)
(* is closed or lose it at once, and an NVS value is replaced atomically.  *)
(***************************************************************************)
CONSTANTS
  Version,      (* configurations                                          *)
  Empty,        (* the configuration without any parameter                 *)
  Default,      (* every parameter at its default                          *)
  ShortWrites   (* may the flash be full, so that a file gets cut short?   *)

NoVersion == "none"

ASSUME VersionAssumption == /\ {Empty, Default} \subseteq Version
                            /\ NoVersion \notin Version
                            /\ Empty # Default
                            /\ ShortWrites \in BOOLEAN

File == [state : {"missing", "torn", "whole"}, version : Version]

Missing  == [state |-> "missing", version |-> Empty]
Torn(v)  == [state |-> "torn", version |-> v]
Whole(v) == [state |-> "whole", version |-> v]

(* A file after everything has been written to it and it was closed.       *)
Written(f) == IF ShortWrites THEN {f, Torn(f.version)} ELSE {f}

VARIABLES
  main,     (* /WebSettings.conf                                           *)
  backup,   (* /WebSettings.sich                                           *)
  confCrc,  (* the CRC in the NVS; Missing: there is no such key           *)
  ram,      (* the parameters in RAM                                       *)
  pc,       (* where initWebSettings(), writeConfig() or copyFile() is     *)
  loaded,   (* the parameters have been read since the reset               *)
  wiped     (* history: the file system was formatted, and since then no   *)
            (* CRC has been saved and no file has been trusted             *)

vars == <<main, backup, confCrc, ram, pc, loaded, wiped>>

TypeOK ==
  /\ main \in File /\ backup \in File /\ confCrc \in File
  /\ ram \in Version /\ loaded \in BOOLEAN /\ wiped \in BOOLEAN
  /\ pc \in {"boot", "idle", "open", "close", "crc", "remove", "copy",
             "copying", "load"}

(* A new controller; one whose firmware kept no CRC yet; one in use.       *)
Init ==
  /\ pc = "boot" /\ loaded = FALSE /\ ram = Empty /\ wiped = FALSE
  /\ \/ main = Missing /\ backup = Missing /\ confCrc = Missing
     \/ \E v \in Version :
          main = Whole(v) /\ backup = Missing /\ confCrc \in {Missing, Whole(v)}

PowerLoss ==
  /\ pc' = "boot" /\ loaded' = FALSE /\ ram' = Empty
  /\ UNCHANGED <<main, backup, confCrc, wiped>>

-----------------------------------------------------------------------------

(* setString() by handleSetValues() or the REST interface: RAM only.       *)
SetString ==
  /\ pc = "idle"
  /\ ram' \in Version
  /\ UNCHANGED <<main, backup, confCrc, pc, loaded, wiped>>

(* One argument of a form: setString(), then writeConfig().                *)
SaveArgument ==
  /\ pc = "idle" /\ pc' = "open"
  /\ ram' \in Version
  /\ UNCHANGED <<main, backup, confCrc, loaded, wiped>>

(* writeConfig(), here by the REST interface: the file is rewritten from   *)
(* RAM, its CRC is saved, and it is copied over the backup.  Mutant: the   *)
(* old backup is removed before the file is rewritten.                     *)
WriteConfigNoBackup ==
  /\ pc = "idle" /\ pc' = "open"
  /\ backup' = Missing
  /\ UNCHANGED <<main, confCrc, ram, loaded, wiped>>
WriteConfig ==
  /\ pc = "idle" /\ pc' = "open"
  /\ UNCHANGED <<main, backup, confCrc, ram, loaded, wiped>>

(* The button that deletes the logs, when they cannot be removed: the file *)
(* system is formatted, then writeConfig() is called.  The CRC stays in    *)
(* the NVS.                                                                *)
FormatForLog ==
  /\ pc = "idle" /\ pc' = "open"
  /\ main' = Missing /\ backup' = Missing /\ wiped' = TRUE
  /\ UNCHANGED <<confCrc, ram, loaded>>

OpenConfig ==
  /\ pc = "open" /\ pc' = "close"
  /\ main' \in {main, Torn(ram)}
  /\ UNCHANGED <<backup, confCrc, ram, loaded, wiped>>

CloseConfig ==
  /\ pc = "close" /\ pc' = "crc"
  /\ main' \in Written(Whole(ram))
  /\ UNCHANGED <<backup, confCrc, ram, loaded, wiped>>

PutCrc ==
  /\ pc = "crc" /\ pc' = "remove"
  /\ confCrc' = main /\ wiped' = FALSE
  /\ UNCHANGED <<main, backup, ram, loaded>>

(* copyFile(): the CRC it returns is the one of the bytes it has read, so  *)
(* the comparison of its caller finds nothing to remove.                   *)
RemoveBackup ==
  /\ pc = "remove" /\ pc' = "copy"
  /\ backup' = Missing
  /\ UNCHANGED <<main, confCrc, ram, loaded, wiped>>

OpenBackup ==
  /\ pc = "copy" /\ pc' = "copying"
  /\ backup' \in {backup, Torn(main.version)}
  /\ UNCHANGED <<main, confCrc, ram, loaded, wiped>>

CloseBackup ==
  /\ pc = "copying" /\ pc' = (IF loaded THEN "idle" ELSE "load")
  /\ backup' \in Written(main)
  /\ UNCHANGED <<main, confCrc, ram, loaded, wiped>>

-----------------------------------------------------------------------------

(* readConfig() trusts the file if its CRC is the saved one, or none was   *)
(* saved.  Mutant: it trusts every file.                                   *)
TrustedAlways == main # Missing
Trusted == main # Missing /\ confCrc \in {Missing, main}

(* The parameters that a file does not hold get their defaults, and the    *)
(* file is then written (initWebSettings()).                               *)
ReadFrom(f) ==
  /\ loaded' = TRUE
  /\ IF f.state = "whole" /\ f.version # Empty
       THEN ram' = f.version /\ pc' = "idle"
       ELSE ram' = Default /\ pc' = "open"
  /\ UNCHANGED <<main, backup, confCrc, wiped>>

(* The file is good: it is copied over the backup, then read.              *)
BootFromConfig ==
  /\ pc = "boot" /\ Trusted
  /\ pc' = "remove" /\ wiped' = FALSE
  /\ UNCHANGED <<main, backup, confCrc, ram, loaded>>

(* The file is missing or has another CRC: the backup is read.             *)
BootFromBackup ==
  /\ pc = "boot" /\ ~Trusted /\ backup # Missing
  /\ ReadFrom(backup)

(* There is no backup either: the parameters in RAM, none, are written.    *)
BootFromNothing ==
  /\ pc = "boot" /\ ~Trusted /\ backup = Missing
  /\ pc' = "open"
  /\ UNCHANGED <<main, backup, confCrc, ram, loaded, wiped>>

Load ==
  /\ pc = "load"
  /\ ReadFrom(main)

Next ==
  \/ SetString \/ SaveArgument \/ WriteConfig \/ FormatForLog
  \/ OpenConfig \/ CloseConfig \/ PutCrc
  \/ RemoveBackup \/ OpenBackup \/ CloseBackup
  \/ BootFromConfig \/ BootFromBackup \/ BootFromNothing \/ Load
  \/ PowerLoss

Spec == Init /\ [][Next]_vars
-----------------------------------------------------------------------------

(* The file a reset at this moment would read, once a CRC has been saved.  *)
BootFile == IF Trusted THEN main ELSE backup
Keyed    == confCrc # Missing
Kept     == Keyed /\ ~wiped

(* Once a CRC has been saved, the settings survive: at every moment, in    *)
(* the middle of a write or a copy too and after any number of resets, a   *)
(* reset reads a whole configuration, and that is the one last committed.  *)
(* The commit is the step that saves the CRC.  The exception is the format *)
(* of the file system: until the next commit nothing is stored, and a      *)
(* reset in between loses every setting.                                   *)
(* (WebSettings.cpp:1399-1657, main.cpp:1089-1098)                         *)
Stored  == IF Kept THEN BootFile.version ELSE NoVersion
Current == IF Keyed /\ loaded THEN ram ELSE Stored

Store == INSTANCE StableStore
  WITH None <- NoVersion, stored <- Stored, current <- Current

ImplementsStableStore == Store!Spec

(* The file that a reset would read is whole, and its CRC is the saved     *)
(* one: no interruption makes the controller accept part of a file, even   *)
(* as its backup.  Only after a format there may be no file to read.       *)
(* (WebSettings.cpp:1411-1443, main.cpp:1089-1098)                         *)
Recoverable ==
  Keyed => \/ BootFile = confCrc /\ BootFile.state = "whole"
           \/ wiped /\ BootFile = Missing

=============================================================================
