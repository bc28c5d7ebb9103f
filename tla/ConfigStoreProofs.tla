------------------------- MODULE ConfigStoreProofs -------------------------
(***************************************************************************)
(* Proofs about ConfigStore, for any set of configurations, as long as the *)
(* flash has room for both files.                                          *)
(***************************************************************************)
EXTENDS ConfigStore, TLAPS

(* What the files are.                                                      *)
LEMMA Files ==
  /\ Missing \in File /\ Missing.state = "missing"
  /\ \A v \in Version : /\ Whole(v) \in File /\ Torn(v) \in File
                        /\ Whole(v).state = "whole" /\ Whole(v).version = v
  /\ \A f \in File : f.version \in Version
  BY VersionAssumption DEF File, Missing, Whole, Torn

(* Every variable keeps its type.                                           *)
THEOREM ConfigTypeCorrect == Spec => []TypeOK
<1>1. Init => TypeOK
  BY Files, VersionAssumption DEF Init, TypeOK
<1>2. TypeOK /\ [Next]_vars => TypeOK'
  <2> SUFFICES ASSUME TypeOK, [Next]_vars PROVE TypeOK'
    OBVIOUS
  <2> USE DEF TypeOK
  <2>1. CASE PowerLoss
    BY <2>1, VersionAssumption DEF PowerLoss
  <2>2. CASE SetString \/ SaveArgument \/ WriteConfig \/ FormatForLog
    BY <2>2, Files DEF SetString, SaveArgument, WriteConfig, FormatForLog
  <2>3. CASE OpenConfig
    BY <2>3, Files DEF OpenConfig
  <2>4. CASE CloseConfig
    BY <2>4, Files DEF CloseConfig, Written
  <2>5. CASE PutCrc
    BY <2>5 DEF PutCrc
  <2>6. CASE RemoveBackup
    BY <2>6, Files DEF RemoveBackup
  <2>7. CASE OpenBackup
    BY <2>7, Files DEF OpenBackup
  <2>8. CASE CloseBackup
    <3>1. backup' \in File
      BY <2>8, Files DEF CloseBackup, Written
    <3> QED BY <2>8, <3>1 DEF CloseBackup
  <2>9. CASE BootFromConfig \/ BootFromNothing
    BY <2>9 DEF BootFromConfig, BootFromNothing
  <2>10. ASSUME NEW f \in File, ReadFrom(f) PROVE TypeOK'
    BY <2>10, Files, VersionAssumption DEF ReadFrom
  <2>11. CASE BootFromBackup \/ Load
    BY <2>10, <2>11 DEF BootFromBackup, Load
  <2>12. CASE UNCHANGED vars
    BY <2>12 DEF vars
  <2> QED
    BY <2>1, <2>2, <2>3, <2>4, <2>5, <2>6, <2>7, <2>8, <2>9, <2>11, <2>12 DEF Next
<1>3. QED BY <1>1, <1>2, PTL DEF Spec

-----------------------------------------------------------------------------

(* While the file is rewritten the backup has the saved CRC, and while the  *)
(* backup is rewritten the file has it.  After a format there is no backup  *)
(* until the file has been written again.                                   *)
FileInv ==
  /\ pc = "crc" => main = Whole(ram)
  /\ pc = "boot" => ~loaded
  /\ wiped => backup = Missing /\ pc \in {"open", "close", "crc", "boot"}
  /\ Keyed => confCrc.state = "whole"
  /\ Kept =>
       /\ pc \in {"remove", "copy", "copying", "load"} => main = confCrc
       /\ pc \in {"idle", "open", "close", "crc"} => loaded
       /\ pc \in {"idle", "open", "close", "crc", "load"} => backup = confCrc
       /\ pc = "boot" => main = confCrc \/ backup = confCrc

(* A reset reads the file with the saved CRC.                               *)
LEMMA BootReadsCommitted ==
  ASSUME TypeOK, FileInv, Kept
  PROVE  BootFile = confCrc /\ BootFile.state = "whole"
<1>1. main = confCrc \/ backup = confCrc
  BY DEF TypeOK, FileInv
<1>2. confCrc # Missing /\ confCrc.state = "whole"
  BY DEF FileInv, Keyed, Kept
<1>3. Trusted <=> main = confCrc
  BY <1>2 DEF Trusted
<1> QED BY <1>1, <1>2, <1>3 DEF BootFile

(* After a format it reads that file or none.                               *)
LEMMA BootAfterFormat ==
  ASSUME TypeOK, FileInv, Keyed, wiped
  PROVE  \/ BootFile = confCrc /\ BootFile.state = "whole"
         \/ BootFile = Missing
<1>1. backup = Missing /\ confCrc # Missing /\ confCrc.state = "whole"
  BY DEF FileInv, Keyed
<1> QED BY <1>1 DEF BootFile, Trusted

(* Reading a file touches neither the files nor the CRC.                    *)
LEMMA ReadKeeps ==
  ASSUME NEW f, ReadFrom(f)
  PROVE  /\ loaded' /\ pc' \in {"idle", "open"}
         /\ UNCHANGED <<main, backup, confCrc, wiped>>
  BY DEF ReadFrom

LEMMA FileInvStep ==
  ASSUME ~ShortWrites, TypeOK, FileInv, [Next]_vars
  PROVE  FileInv'
<1> USE DEF FileInv, Keyed, Kept
<1>1. CASE PowerLoss
  BY <1>1 DEF PowerLoss, TypeOK
<1>2. CASE SetString \/ SaveArgument \/ WriteConfig \/ FormatForLog
  BY <1>2 DEF SetString, SaveArgument, WriteConfig, FormatForLog
<1>3. CASE OpenConfig
  BY <1>3 DEF OpenConfig
<1>4. CASE CloseConfig
  BY <1>4 DEF CloseConfig, Written
<1>5. CASE PutCrc
  BY <1>5, Files DEF PutCrc, TypeOK
<1>6. CASE RemoveBackup \/ OpenBackup
  BY <1>6 DEF RemoveBackup, OpenBackup
<1>7. CASE CloseBackup
  BY <1>7 DEF CloseBackup, Written
<1>8. CASE BootFromConfig
  BY <1>8, Files DEF BootFromConfig, Trusted
<1>9. CASE BootFromBackup
  <2>1. pc = "boot" /\ ~wiped /\ (Keyed => backup = confCrc)
    BY <1>9, Files DEF BootFromBackup, Trusted
  <2>2. loaded' /\ pc' \in {"idle", "open"} /\ UNCHANGED <<main, backup, confCrc, wiped>>
    BY <1>9, ReadKeeps DEF BootFromBackup
  <2> QED BY <2>1, <2>2
<1>10. CASE BootFromNothing
  BY <1>10, Files DEF BootFromNothing, Trusted
<1>11. CASE Load
  <2>1. pc = "load" /\ loaded' /\ pc' \in {"idle", "open"}
        /\ UNCHANGED <<main, backup, confCrc, wiped>>
    BY <1>11, ReadKeeps DEF Load
  <2> QED BY <2>1
<1>12. CASE UNCHANGED vars
  BY <1>12 DEF vars
<1> QED
  BY <1>1, <1>2, <1>3, <1>4, <1>5, <1>6, <1>7, <1>8, <1>9, <1>10, <1>11, <1>12
     DEF Next

LEMMA FileInvInit == Init => FileInv
  BY Files DEF Init, FileInv, Keyed, Kept

(* After any loss of power the committed configuration is read, whole.      *)
THEOREM AlwaysRecoverable == ASSUME ~ShortWrites PROVE Spec => []Recoverable
<1>1. TypeOK /\ FileInv => Recoverable
  BY BootReadsCommitted, BootAfterFormat DEF Recoverable, Kept
<1>2. QED
  BY <1>1, FileInvInit, FileInvStep, ConfigTypeCorrect, PTL DEF Spec

-----------------------------------------------------------------------------

(* Committed is the step that saves the CRC.                                *)
Committed == Stored = IF Kept THEN confCrc.version ELSE NoVersion

LEMMA StoredIsCommitted == TypeOK /\ FileInv => Committed
  BY BootReadsCommitted DEF Stored, Committed

(* What the store holds before a reset has read the settings.               *)
LEMMA NotLoaded == ASSUME ~loaded PROVE Current = Stored
  BY DEF Current

(* The settings are a stable store: each step is a step of it or a stutter. *)
THEOREM StoreImplemented == ASSUME ~ShortWrites PROVE Spec => ImplementsStableStore
<1>1. Init => Store!Init
  <2> SUFFICES ASSUME Init PROVE Store!Init
    OBVIOUS
  <2>1. CASE confCrc = Missing
    BY <2>1 DEF Store!Init, Stored, Current, Keyed, Kept
  <2>2. CASE confCrc # Missing
    <3>1. main = confCrc /\ main.version \in Version /\ ~loaded /\ ~wiped
      BY <2>2, Files DEF Init
    <3>2. Stored = main.version /\ Current = Stored
      BY <2>2, <3>1, Files DEF Init, Stored, Current, Keyed, Kept, BootFile, Trusted
    <3> QED BY <3>1, <3>2 DEF Store!Init
  <2> QED BY <2>1, <2>2
<1>2. TypeOK /\ FileInv /\ Committed /\ TypeOK' /\ FileInv' /\ Committed' /\ [Next]_vars
        => [Store!Next]_<<Stored, Current>>
  <2> SUFFICES ASSUME TypeOK, FileInv, Committed, TypeOK', FileInv', Committed',
                      [Next]_vars
               PROVE  Store!Next \/ (UNCHANGED Stored /\ UNCHANGED Current)
    OBVIOUS
  <2>1. CASE PutCrc
    <3>1. /\ Kept' /\ confCrc'.version = ram /\ ram' = ram /\ loaded' = loaded
          /\ ram \in Version
      BY <2>1, Files DEF PutCrc, FileInv, Keyed, Kept, TypeOK
    <3>2. Stored' = ram /\ Current' = ram
      BY <3>1 DEF Committed, Current
    <3>3. CASE Keyed /\ loaded
      <4>1. Current = ram /\ Current # NoVersion
        BY <3>1, <3>3, VersionAssumption DEF Current
      <4> QED BY <3>2, <4>1 DEF Store!Next, Store!Commit
    <3>4. CASE ~(Keyed /\ loaded)
      <4>1. ~Kept
        BY <2>1, <3>4 DEF PutCrc, FileInv, Kept
      <4>2. Stored = NoVersion /\ Current = NoVersion
        BY <3>4, <4>1 DEF Stored, Current
      <4> QED BY <3>1, <3>2, <4>2 DEF Store!Next, Store!FirstCommit
    <3> QED BY <3>3, <3>4
  <2>2. CASE FormatForLog
    <3>1. Stored' = NoVersion
      BY <2>2 DEF FormatForLog, Stored, Kept
    <3>2. CASE Keyed
      <4>1. loaded /\ loaded' /\ ram' = ram /\ Keyed'
        BY <2>2, <3>2 DEF FormatForLog, FileInv, Keyed, Kept
      <4>2. Current' = Current
        BY <3>2, <4>1 DEF Current
      <4> QED BY <3>1, <4>2 DEF Store!Next, Store!Erase
    <3>3. CASE ~Keyed
      <4>1. ~Keyed'
        BY <2>2, <3>3 DEF FormatForLog, Keyed
      <4>2. Stored = NoVersion /\ Current = NoVersion /\ Current' = Stored'
        BY <3>3, <4>1 DEF Stored, Current, Kept
      <4> QED BY <3>1, <4>2
    <3> QED BY <3>2, <3>3
  <2>3. CASE BootFromConfig
    <3>1. confCrc' = confCrc /\ ~wiped' /\ loaded' = loaded /\ (Keyed' <=> Keyed)
      BY <2>3 DEF BootFromConfig, Keyed
    <3>2. CASE ~Keyed
      <4>1. Stored = NoVersion /\ Current = NoVersion
            /\ Stored' = NoVersion /\ Current' = NoVersion
        BY <3>1, <3>2 DEF Stored, Current, Kept
      <4> QED BY <4>1
    <3>3. CASE Keyed /\ ~loaded
      <4>1. Current = Stored /\ Current' = Stored'
        BY <3>1, <3>3, NotLoaded DEF Current
      <4>2. Stored' = confCrc.version /\ confCrc.version \in Version
        BY <3>1, <3>3, Files DEF Committed, Kept, TypeOK
      <4>3. Stored \in {NoVersion, confCrc.version}
        BY DEF Committed
      <4> QED BY <4>1, <4>2, <4>3 DEF Store!Next, Store!FirstCommit
    <3>4. CASE loaded
      <4>1. FALSE
        BY <2>3, <3>4 DEF BootFromConfig, FileInv
      <4> QED BY <4>1
    <3> QED BY <3>2, <3>3, <3>4
  <2>4. CASE ~PutCrc /\ ~FormatForLog /\ ~BootFromConfig
    <3>1. confCrc' = confCrc /\ wiped' = wiped
      BY <2>4 DEF Next, PowerLoss, SetString, SaveArgument, WriteConfig, OpenConfig,
         CloseConfig, RemoveBackup, OpenBackup, CloseBackup, BootFromBackup,
         BootFromNothing, Load, ReadFrom, vars
    <3>2. Stored' = Stored /\ (Keyed' <=> Keyed) /\ (Kept' <=> Kept)
      BY <3>1 DEF Committed, Keyed, Kept
    <3>3. CASE ~Keyed
      BY <3>2, <3>3 DEF Current, Kept
    <3>4. CASE Keyed /\ ~loaded'
      <4>1. Current' = Stored'
        BY <3>4 DEF Current
      <4> QED BY <3>2, <4>1 DEF Store!Next, Store!Reset
    <3>5. CASE Keyed /\ loaded' /\ Kept
      <4>1. Current' = ram' /\ ram' \in Version
        BY <3>2, <3>5 DEF Current, TypeOK
      <4>2. Stored # NoVersion
        BY <3>5, Files, VersionAssumption DEF Committed, TypeOK
      <4> QED BY <3>2, <4>1, <4>2 DEF Store!Next, Store!Change
    <3>6. CASE Keyed /\ loaded' /\ wiped
      <4>1. loaded /\ ram' = ram
        BY <2>4, <3>6 DEF Next, PowerLoss, SetString, SaveArgument, WriteConfig,
           OpenConfig, CloseConfig, RemoveBackup, OpenBackup, CloseBackup,
           BootFromBackup, BootFromNothing, Load, FileInv, vars
      <4>2. Current' = Current
        BY <3>2, <3>6, <4>1 DEF Current
      <4> QED BY <3>2, <4>2
    <3> QED BY <3>3, <3>4, <3>5, <3>6 DEF Kept
  <2> QED BY <2>1, <2>2, <2>3, <2>4
<1>3. QED
  BY <1>1, <1>2, FileInvInit, FileInvStep, StoredIsCommitted, ConfigTypeCorrect, PTL
     DEF Spec, ImplementsStableStore, Store!Spec
=============================================================================
