----------------------------- MODULE Instance_proofs -----------------------------
(***************************************************************************)
(* What holds of the virtual machine and its disks for all sizes, shares    *)
(* and configs, and however many edits, commands and faults: the types, and *)
(* every safety property of Instance.                                       *)
(***************************************************************************)
EXTENDS Instance, TLAPS

-----------------------------------------------------------------------------
(* Records: what the fields of a config and of a lima.yaml are, and what is *)
(* left when one of them is set.                                            *)

LEMMA SizeFacts == \A n \in Sizes \cup {0} : n \in Nat
  BY SizesAreSizes

LEMMA ConfigFacts ==
  ASSUME NEW c \in Configs
  PROVE  /\ c.disk \in Sizes /\ c.image \in Sizes \cup {0}
         /\ c.shares \in Shares /\ c.mirror \in BOOLEAN
  BY DEF Configs

LEMMA ConfigEdits ==
  ASSUME NEW c \in Configs, NEW n \in Sizes
  PROVE  /\ [c EXCEPT !.disk = n] \in Configs /\ [c EXCEPT !.disk = n].disk = n
         /\ [c EXCEPT !.disk = n].shares = c.shares /\ [c EXCEPT !.disk = n].mirror = c.mirror
         /\ [c EXCEPT !.image = n] \in Configs /\ [c EXCEPT !.image = n].disk = c.disk
         /\ [c EXCEPT !.image = n].shares = c.shares /\ [c EXCEPT !.image = n].mirror = c.mirror
  BY DEF Configs

LEMMA InstanceFacts ==
  ASSUME NEW y \in Instances
  PROVE  /\ y.disk \in Sizes /\ y.image \in BOOLEAN
         /\ y.shares \in Shares /\ y.mirror \in BOOLEAN
  BY DEF Instances

LEMMA InstanceDisk ==
  ASSUME NEW y \in Instances, NEW n \in Sizes
  PROVE  /\ [y EXCEPT !.disk = n] \in Instances /\ [y EXCEPT !.disk = n].disk = n
         /\ [y EXCEPT !.disk = n].image = y.image /\ [y EXCEPT !.disk = n].shares = y.shares
         /\ [y EXCEPT !.disk = n].mirror = y.mirror
  BY DEF Instances

(* One key of lima.yaml set from the config.                                *)
LEMMA InstanceKey ==
  ASSUME NEW y \in Instances, NEW c \in Configs, NEW k \in Settings
  PROVE  LET z == [y EXCEPT ![k] = c[k]]
         IN  /\ z \in Instances /\ z.disk = y.disk /\ z.image = y.image
             /\ z[k] = c[k] /\ \A j \in Settings \ {k} : z[j] = y[j]
<1>1. CASE k = "shares"  BY <1>1 DEF Instances, Configs, Settings
<1>2. CASE k = "mirror"  BY <1>2 DEF Instances, Configs, Settings
<1> QED BY <1>1, <1>2 DEF Settings

LEMMA BuildFacts ==
  ASSUME NEW c \in Configs
  PROVE  /\ Build(c) \in Instances /\ Build(c).disk = c.disk
         /\ Build(c).image = (c.image # 0)
         /\ Build(c).shares = c.shares /\ Build(c).mirror = c.mirror
  BY DEF Build, Configs, Instances

-----------------------------------------------------------------------------
(* Types.                                                                   *)

LEMMA InitType == Init => TypeOK
<1> SUFFICES ASSUME Init PROVE TypeOK
  OBVIOUS
<1>1. Shapes
  <2>1. unfinished \in BOOLEAN /\ torn \in BOOLEAN /\ blank \in BOOLEAN /\ whole \in BOOLEAN
    BY DEF Init
  <2>2. old \in [cfg : BOOLEAN, vm : BOOLEAN, agent : BOOLEAN]  BY DEF Init
  <2>3. cache \subseteq {"klimax", "marina"}  BY DEF Init
  <2> QED BY <2>1, <2>2, <2>3, BoundIsNatural DEF Init, Shapes, Steps
<1>2. Agree
  BY DEF Init, Agree, Refilling
<1> QED BY <1>1, <1>2 DEF TypeOK

(* What the user does, and a kill, leave everything of its type.            *)
LEMMA TypeUser ==
  ASSUME TypeOK, EditConfig \/ ConfigEdit \/ Killed \/ Down \/ Destroy
  PROVE  TypeOK'
<1> USE BoundIsNatural, ConfigsAreConfigs, NoneIsNoInstance
    DEF TypeOK, Disturb, config, disks, legacy, command, broken
<1>1. CASE EditConfig
  <2>0. blank' \in BOOLEAN /\ whole' \in BOOLEAN
    BY <1>1 DEF EditConfig, Shapes
  <2>1. Shapes'  BY <1>1, <2>0 DEF EditConfig, Shapes
  <2>2. Agree'   BY <1>1 DEF EditConfig, Agree, Shapes, Refilling
  <2> QED BY <2>1, <2>2
<1>2. CASE ConfigEdit
  <2>1. Shapes'  BY <1>2 DEF ConfigEdit, Shapes
  <2>2. Agree'   BY <1>2 DEF ConfigEdit, Agree, Shapes, Refilling
  <2> QED BY <2>1, <2>2
<1>3. CASE Killed
  <2>0. unfinished' \in BOOLEAN /\ torn' \in BOOLEAN  BY <1>3 DEF Killed
  <2>1. Shapes'  BY <1>3, <2>0 DEF Killed, Shapes, Steps
  <2>2. Agree'   BY <1>3 DEF Killed, Agree, Shapes, Refilling
  <2> QED BY <2>1, <2>2
<1>4. CASE Down
  <2>1. Shapes'  BY <1>4 DEF Down, Shapes
  <2>2. Agree'   BY <1>4 DEF Down, Agree, Shapes, Refilling
  <2> QED BY <2>1, <2>2
<1>5. CASE Destroy
  <2>3. unfinished' \in BOOLEAN /\ torn' \in BOOLEAN /\ whole' \in BOOLEAN  BY <1>5 DEF Destroy
  <2>1. Shapes'  BY <1>5, <2>3 DEF Destroy, Shapes
  <2>2. Agree'   BY <1>5 DEF Destroy, Agree, Shapes, Refilling
  <2> QED BY <2>1, <2>2
<1> QED BY <1>1, <1>2, <1>3, <1>4, <1>5

(* `up`, as far as the comparison and lima.yaml.                            *)
LEMMA TypeCompare ==
  ASSUME TypeOK, UpBegin \/ Unchanged \/ StopToApply \/ ApplyFails \/ OpenSetting \/ WriteSetting
  PROVE  TypeOK'
<1> USE BoundIsNatural, ConfigsAreConfigs, NoneIsNoInstance
    DEF TypeOK, config, disks, legacy, command, broken
<1>1. CASE UpBegin
  <2>1. Shapes'  BY <1>1 DEF UpBegin, Shapes, Steps
  <2>2. Agree'   BY <1>1 DEF UpBegin, Agree, Shapes, Refilling
  <2> QED BY <2>1, <2>2
<1>2. CASE Unchanged
  <2>1. Shapes'  BY <1>2 DEF Unchanged, Shapes, Steps
  <2>2. Agree'   BY <1>2 DEF Unchanged, Agree, Shapes, Refilling
  <2> QED BY <2>1, <2>2
<1>3. CASE StopToApply
  <2>1. Shapes'  BY <1>3 DEF StopToApply, Shapes, Steps, Changes
  <2>2. Agree'   BY <1>3 DEF StopToApply, Agree, Shapes, Changes, Refilling
  <2> QED BY <2>1, <2>2
<1>4. CASE WriteSetting
  <2> DEFINE k == IF "shares" \in todo THEN "shares" ELSE "mirror"
  <2>1. k \in Settings /\ yaml \in Instances /\ loaded \in Configs
    BY <1>4 DEF WriteSetting, Shapes, Agree, Settings
  <2>2. yaml' \in Instances
    BY <1>4, <2>1, InstanceKey DEF WriteSetting
  <2>3. /\ todo' = todo \ {k} /\ pc' = IF todo = {k} THEN "disk" ELSE "write"
        /\ pc = "fill" /\ whole' = TRUE
        /\ UNCHANGED <<cfg, blank, vm, started, disks, legacy, loaded, want, broken, disturbances>>
    BY <1>4 DEF WriteSetting
  <2>4. pc' = "write" => todo' # {}
    BY <2>3, <1>4 DEF Agree
  <2> HIDE DEF k
  <2>5. Shapes'  BY <2>2, <2>3 DEF Shapes, Steps
  <2>6. Agree'   BY <2>1, <2>2, <2>3, <2>4 DEF Agree, Shapes, Refilling
  <2> QED BY <2>5, <2>6
<1>5. CASE ApplyFails
  <2>1. Shapes'  BY <1>5 DEF ApplyFails, Shapes, Steps
  <2>2. Agree'   BY <1>5 DEF ApplyFails, Agree, Shapes, Refilling
  <2> QED BY <2>1, <2>2
<1>6. CASE OpenSetting
  <2>0. blank' \in BOOLEAN /\ whole' \in BOOLEAN
    BY <1>6 DEF OpenSetting, Shapes
  <2>1. Shapes'  BY <1>6, <2>0 DEF OpenSetting, Shapes, Steps
  <2>2. Agree'   BY <1>6 DEF OpenSetting, Agree, Shapes, Refilling
  <2> QED BY <2>1, <2>2
<1> QED BY <1>1, <1>2, <1>3, <1>4, <1>5, <1>6

(* `up`, the image disk and the start of the VM.                            *)
LEMMA TypeStart ==
  ASSUME TypeOK,
         \/ HaveImageDisk \/ MakeImageDir \/ CreateImageDisk \/ CreateImageDiskFails
         \/ EnsureRunning \/ Start \/ StartRefused
  PROVE  TypeOK'
<1> USE BoundIsNatural, ConfigsAreConfigs, NoneIsNoInstance, SizesAreSizes
    DEF TypeOK, config, disks, legacy, command, broken, Disturb
<1>1. CASE HaveImageDisk
  <2>1. Shapes'  BY <1>1 DEF HaveImageDisk, Shapes, Steps
  <2>2. Agree'   BY <1>1 DEF HaveImageDisk, Agree, Shapes, Refilling
  <2> QED BY <2>1, <2>2
<1>2. CASE MakeImageDir
  <2>1. Shapes'  BY <1>2 DEF MakeImageDir, Shapes, Steps
  <2>2. Agree'   BY <1>2 DEF MakeImageDir, Agree, Shapes, Refilling
  <2> QED BY <2>1, <2>2
<1>3. CASE CreateImageDisk
  <2>1. loaded.image \in Sizes
    BY <1>3, ConfigFacts DEF CreateImageDisk, Agree, Shapes
  <2>2. Shapes'  BY <1>3, <2>1 DEF CreateImageDisk, Shapes, Steps
  <2>3. Agree'   BY <1>3, <2>1 DEF CreateImageDisk, Agree, Shapes, Refilling
  <2> QED BY <2>2, <2>3
<1>4. CASE CreateImageDiskFails
  <2>1. Shapes'  BY <1>4 DEF CreateImageDiskFails, Shapes, Steps
  <2>2. Agree'   BY <1>4 DEF CreateImageDiskFails, Agree, Shapes, Refilling
  <2> QED BY <2>1, <2>2
<1>5. CASE EnsureRunning
  <2>1. Build(loaded) \in Instances
    BY <1>5, BuildFacts DEF EnsureRunning, Agree, Shapes
  <2>2. Shapes'  BY <1>5, <2>1 DEF EnsureRunning, Shapes, Steps
  <2>3. Agree'   BY <1>5, <2>1 DEF EnsureRunning, Agree, Shapes, Refilling
  <2> QED BY <2>2, <2>3
<1>6. CASE Start
  <2>1. yaml \in Instances
    BY <1>6 DEF Start, Agree, Shapes
  <2>2. Shapes'  BY <1>6, <2>1, InstanceFacts DEF Start, Shapes, Steps
  <2>3. Agree'   BY <1>6, <2>1 DEF Start, Agree, Shapes, Refilling
  <2> QED BY <2>2, <2>3
<1>7. CASE StartRefused
  <2>1. Shapes'  BY <1>7 DEF StartRefused, Shapes, Steps
  <2>2. Agree'   BY <1>7 DEF StartRefused, Agree, Shapes, Refilling
  <2> QED BY <2>1, <2>2
<1> QED BY <1>1, <1>2, <1>3, <1>4, <1>5, <1>6, <1>7

(* The resize of the VM's disk.                                             *)
LEMMA TypeDiskResize ==
  ASSUME TypeOK, DiskResize \/ RewriteVMDisk \/ OpenLimaDisk \/ NoLimaDisk \/ RewriteLimaDisk
  PROVE  TypeOK'
<1> USE BoundIsNatural, ConfigsAreConfigs, NoneIsNoInstance, SizesAreSizes
    DEF TypeOK, config, disks, legacy, command, broken, Disturb
<1>1. CASE DiskResize
  <2>1. want' \in Sizes
    BY <1>1 DEF DiskResize
  <2>2. Shapes'  BY <1>1, <2>1 DEF DiskResize, EmptyConfig, Shapes, Steps, Refilling
  <2>3. Agree'   BY <1>1, <2>1 DEF DiskResize, EmptyConfig, Agree, Shapes, Refilling
  <2> QED BY <2>2, <2>3
<1>2. CASE RewriteVMDisk
  <2>1. loaded \in Configs /\ want \in Sizes
    BY <1>2 DEF RewriteVMDisk, Agree, Shapes, Refilling
  <2>2. cfg' \in Configs /\ cfg'.disk = want
    BY <1>2, <2>1, ConfigEdits DEF RewriteVMDisk
  <2>0. blank' \in BOOLEAN /\ whole' \in BOOLEAN
    BY <1>2 DEF RewriteVMDisk, Shapes
  <2>3. Shapes'  BY <1>2, <2>0, <2>2 DEF RewriteVMDisk, Shapes, Steps
  <2>4. Agree'   BY <1>2, <2>2 DEF RewriteVMDisk, Agree, Shapes, Refilling
  <2> QED BY <2>3, <2>4
<1>3. CASE OpenLimaDisk
  <2>0. blank' \in BOOLEAN /\ whole' \in BOOLEAN
    BY <1>3 DEF OpenLimaDisk, Shapes
  <2>1. Shapes'  BY <1>3, <2>0 DEF OpenLimaDisk, Shapes, Steps
  <2>2. Agree'   BY <1>3 DEF OpenLimaDisk, Agree, Shapes, Refilling
  <2> QED BY <2>1, <2>2
<1>4. CASE NoLimaDisk
  <2>0. unfinished' \in BOOLEAN
    BY <1>4 DEF NoLimaDisk
  <2>1. Shapes'  BY <1>4, <2>0 DEF NoLimaDisk, Shapes, Steps
  <2>2. Agree'   BY <1>4 DEF NoLimaDisk, Agree, Shapes, Refilling
  <2> QED BY <2>1, <2>2
<1>5. CASE RewriteLimaDisk
  <2>1. yaml \in Instances /\ want \in Sizes
    BY <1>5, ConfigFacts DEF RewriteLimaDisk, Shapes, Agree
  <2>2. yaml' \in Instances
    BY <1>5, <2>1, InstanceDisk DEF RewriteLimaDisk
  <2>3. unfinished' \in BOOLEAN /\ whole' \in BOOLEAN
    BY <1>5 DEF RewriteLimaDisk
  <2>4. Shapes'  BY <1>5, <2>2, <2>3 DEF RewriteLimaDisk, Shapes, Steps
  <2>5. Agree'   BY <1>5, <2>1, <2>2 DEF RewriteLimaDisk, Agree, Shapes, Refilling
  <2> QED BY <2>4, <2>5
<1> QED BY <1>1, <1>2, <1>3, <1>4, <1>5

(* The resize of the image disk.                                            *)
LEMMA TypeImageResize ==
  ASSUME TypeOK, ResizeImageDisk \/ ImageDiskWritten \/ OpenImageDisk \/ RewriteImageDisk
  PROVE  TypeOK'
<1> USE BoundIsNatural, ConfigsAreConfigs, NoneIsNoInstance, SizesAreSizes
    DEF TypeOK, config, disks, legacy, command, broken, Disturb
<1>1. CASE ResizeImageDisk
  <2>1. Shapes'  BY <1>1 DEF ResizeImageDisk, Shapes, Steps
  <2>2. Agree'   BY <1>1 DEF ResizeImageDisk, Agree, Shapes, Refilling
  <2> QED BY <2>1, <2>2
<1>2. CASE ImageDiskWritten
  <2>1. Shapes'  BY <1>2 DEF ImageDiskWritten, Shapes, Steps
  <2>2. Agree'   BY <1>2 DEF ImageDiskWritten, Agree, Shapes, Refilling
  <2> QED BY <2>1, <2>2
<1>3. CASE OpenImageDisk
  <2>1. cfg \in Configs /\ want # 0
    BY <1>3 DEF OpenImageDisk, Agree, Shapes
  <2>2. Shapes'  BY <1>3, <2>1 DEF OpenImageDisk, EmptyConfig, Shapes, Steps, Refilling
  <2>3. Agree'   BY <1>3, <2>1 DEF OpenImageDisk, EmptyConfig, Agree, Shapes, Refilling
  <2> QED BY <2>2, <2>3
<1>4. CASE RewriteImageDisk
  <2>1. want \in Sizes /\ loaded \in Configs
    BY <1>4 DEF RewriteImageDisk, Agree, Shapes, Refilling
  <2>2. cfg' \in Configs
    BY <1>4, <2>1, ConfigEdits DEF RewriteImageDisk
  <2>0. blank' \in BOOLEAN /\ whole' \in BOOLEAN
    BY <1>4 DEF RewriteImageDisk, Shapes
  <2>3. Shapes'  BY <1>4, <2>0, <2>2 DEF RewriteImageDisk, Shapes, Steps
  <2>4. Agree'   BY <1>4, <2>1, <2>2 DEF RewriteImageDisk, Agree, Shapes, Refilling
  <2> QED BY <2>3, <2>4
<1> QED BY <1>1, <1>2, <1>3, <1>4

LEMMA TypeDisk ==
  ASSUME TypeOK, Disk
  PROVE  TypeOK'
  BY TypeDiskResize, TypeImageResize DEF Disk

(* `migrate`.                                                               *)
LEMMA TypeMigration ==
  ASSUME TypeOK, Migration
  PROVE  TypeOK'
<1> USE BoundIsNatural, ConfigsAreConfigs, NoneIsNoInstance
    DEF TypeOK, config, disks, legacy, command, broken
<1>0. old \in [cfg : BOOLEAN, vm : BOOLEAN, agent : BOOLEAN]
  BY DEF Shapes
<1>1. CASE DeleteLegacyVM
  <2>0. old' \in [cfg : BOOLEAN, vm : BOOLEAN, agent : BOOLEAN]
    BY <1>0, <1>1 DEF DeleteLegacyVM
  <2>1. Shapes'  BY <1>1, <2>0 DEF DeleteLegacyVM, Shapes, Steps
  <2>2. Agree'   BY <1>1 DEF DeleteLegacyVM, Migrate, Agree, Shapes, Refilling
  <2> QED BY <2>1, <2>2
<1>2. CASE MigrateConfig
  <2>0. blank' \in BOOLEAN /\ whole' \in BOOLEAN
    BY <1>2 DEF MigrateConfig, Shapes
  <2>1. Shapes'  BY <1>2, <2>0 DEF MigrateConfig, Shapes, Steps
  <2>2. Agree'   BY <1>2 DEF MigrateConfig, LegacyInstallPresent, Agree, Shapes, Refilling
  <2> QED BY <2>1, <2>2
<1>3. CASE MigrateWrite
  <2>0. blank' \in BOOLEAN /\ whole' \in BOOLEAN
    BY <1>3 DEF MigrateWrite, Shapes
  <2>1. Shapes'  BY <1>3, <2>0 DEF MigrateWrite, Shapes, Steps
  <2>2. Agree'   BY <1>3 DEF MigrateWrite, Agree, Shapes, Refilling
  <2> QED BY <2>1, <2>2
<1>4. CASE MigrateCache
  <2>1. Shapes'  BY <1>4 DEF MigrateCache, Shapes, Steps
  <2>2. Agree'   BY <1>4 DEF MigrateCache, Agree, Shapes, Refilling
  <2> QED BY <2>1, <2>2
<1>5. CASE MigrateAgent
  <2>0. old' \in [cfg : BOOLEAN, vm : BOOLEAN, agent : BOOLEAN]
    BY <1>0, <1>5 DEF MigrateAgent
  <2>1. Shapes'  BY <1>5, <2>0 DEF MigrateAgent, Shapes, Steps
  <2>2. Agree'   BY <1>5 DEF MigrateAgent, Agree, Shapes, Refilling
  <2> QED BY <2>1, <2>2
<1> QED BY <1>1, <1>2, <1>3, <1>4, <1>5 DEF Migration

LEMMA TypeStep == TypeOK /\ [Next]_vars => TypeOK'
<1> SUFFICES ASSUME TypeOK, [Next]_vars PROVE TypeOK'
  OBVIOUS
<1>1. CASE UNCHANGED vars
  BY <1>1 DEF TypeOK, Shapes, Agree, vars, config, disks, legacy, command, broken
<1>2. CASE Next
  BY <1>2, TypeUser, TypeCompare, TypeStart, TypeDisk, TypeMigration DEF Next, Up
<1> QED BY <1>1, <1>2

(* Every variable of the instance, its disks and the commands keeps its     *)
(* type, and a command knows at each step what its earlier steps found.     *)
THEOREM TypeCorrect == Spec => []TypeOK
  BY InitType, TypeStep, PTL DEF Spec

-----------------------------------------------------------------------------
(* Settings: what a command has written to lima.yaml, by where it is.       *)

SettingsInv ==
  /\ pc \in {"write", "fill"} => \A k \in Settings \ todo : yaml[k] = loaded[k]
  /\ pc \in {"disk", "make", "ensure", "start"} /\ vm = "stopped" /\ whole =>
       \A k \in Settings : yaml[k] = loaded[k]
  /\ vm = "running" => started.shares = yaml.shares /\ started.mirror = yaml.mirror

LEMMA SettingsStep ==
  ASSUME TypeOK, SettingsInv, Next
  PROVE  SettingsInv'
<1> USE DEF SettingsInv, config, disks, legacy, command, broken
<1>1. CASE EditConfig \/ ConfigEdit \/ Killed \/ Down \/ Destroy
  BY <1>1 DEF EditConfig, ConfigEdit, Killed, Down, Destroy
<1>2. CASE UpBegin \/ Unchanged \/ StopToApply
  <2>0. Changes = {} => \A k \in Settings : yaml[k] = loaded[k]
    BY DEF Changes
  <2>4. \A k \in Settings \ Changes : yaml[k] = loaded[k]
    BY DEF Changes
  <2>1. CASE UpBegin
    BY <2>1 DEF UpBegin
  <2>2. CASE Unchanged
    <3>1. /\ pc' = "disk" /\ UNCHANGED <<yaml, loaded, vm, started, whole>>
          /\ Changes = {} \/ vm = "running" \/ ~whole
      BY <2>2 DEF Unchanged
    <3> QED BY <3>1, <2>0
  <2>3. CASE StopToApply
    <3>1. pc' = "write" /\ todo' = Changes /\ vm' = "stopped" /\ UNCHANGED <<yaml, loaded>>
      BY <2>3 DEF StopToApply
    <3> QED BY <3>1, <2>4
  <2> QED BY <1>2, <2>1, <2>2, <2>3
<1>3. CASE WriteSetting
  <2> DEFINE k == IF "shares" \in todo THEN "shares" ELSE "mirror"
  <2>1. k \in Settings /\ yaml \in Instances /\ loaded \in Configs
    BY <1>3, ConfigsAreConfigs DEF WriteSetting, TypeOK, Shapes, Agree, Settings
  <2>2. /\ yaml' = [yaml EXCEPT ![k] = loaded[k]] /\ pc = "fill" /\ loaded' = loaded
        /\ todo' = todo \ {k} /\ vm' = vm /\ (pc' = IF todo = {k} THEN "disk" ELSE "write")
    BY <1>3 DEF WriteSetting
  <2>3. vm' = "stopped"
    BY <2>2 DEF TypeOK, Agree
  <2>4. /\ yaml'[k] = loaded[k] /\ \A j \in Settings \ {k} : yaml'[j] = yaml[j]
    BY <2>1, <2>2, InstanceKey
  <2> HIDE DEF k
  <2>5. \A j \in Settings \ todo' : yaml'[j] = loaded'[j]
    BY <2>2, <2>4
  <2>6. pc' = "disk" => todo' = {}
    BY <2>2
  <2> QED BY <2>2, <2>3, <2>5, <2>6
<1>4. CASE HaveImageDisk \/ MakeImageDir \/ CreateImageDisk \/ CreateImageDiskFails \/ StartRefused
  BY <1>4 DEF HaveImageDisk, MakeImageDir, CreateImageDisk, CreateImageDiskFails, StartRefused
<1>5. CASE EnsureRunning
  <2>1. loaded \in Configs
    BY <1>5 DEF EnsureRunning, TypeOK, Agree, Shapes
  <2> QED BY <1>5, <2>1, BuildFacts DEF EnsureRunning, Settings
<1>6. CASE Start
  BY <1>6 DEF Start
<1>7. CASE DiskResize \/ RewriteVMDisk \/ OpenLimaDisk \/ NoLimaDisk
  BY <1>7 DEF DiskResize, EmptyConfig, RewriteVMDisk, OpenLimaDisk, NoLimaDisk
<1>8. CASE RewriteLimaDisk
  <2>1. yaml \in Instances /\ want \in Sizes
    BY <1>8, ConfigFacts, SizesAreSizes, NoneIsNoInstance, ConfigsAreConfigs
       DEF RewriteLimaDisk, TypeOK, Shapes, Agree
  <2> QED BY <1>8, <2>1, InstanceDisk DEF RewriteLimaDisk
<1>9. CASE ResizeImageDisk \/ ImageDiskWritten \/ OpenImageDisk \/ RewriteImageDisk
  BY <1>9 DEF ResizeImageDisk, ImageDiskWritten, OpenImageDisk, EmptyConfig, RewriteImageDisk
<1>10. CASE Migration
  BY <1>10 DEF Migration, DeleteLegacyVM, MigrateConfig, MigrateWrite, MigrateCache,
               MigrateAgent, Migrate
<1>11. CASE ApplyFails
  BY <1>11 DEF ApplyFails
<1>12. CASE OpenSetting
  BY <1>12 DEF OpenSetting
<1> QED BY <1>1, <1>2, <1>3, <1>4, <1>5, <1>6, <1>7, <1>8, <1>9, <1>10, <1>11, <1>12
           DEF Next, Up, Disk

-----------------------------------------------------------------------------
(* Disks.                                                                   *)

(* The image disk holds its file system, all of it while it is mounted: also *)
(* while lima.yaml is rewritten and the VM is not seen to run.              *)
ImageInv ==
  /\ vm = "running" /\ started.image /\ (whole \/ pc = "fillLima") => dir = "ready" /\ fs = size
  /\ fs <= size

LEMMA ImageStep ==
  ASSUME TypeOK, ImageInv, Next
  PROVE  ImageInv' /\ (dir = "ready" => dir' = "ready" /\ size' >= size /\ fs' >= fs)
<1> USE DEF ImageInv, Attached, config, disks, legacy, command, broken
<1>0. size \in Nat /\ fs \in Nat
  BY SizesAreSizes DEF TypeOK, Shapes
<1>1. CASE EditConfig \/ ConfigEdit \/ Killed \/ Down \/ Destroy
  BY <1>0, <1>1 DEF EditConfig, ConfigEdit, Killed, Down, Destroy
<1>2. CASE UpBegin \/ Unchanged \/ StopToApply \/ ApplyFails
  BY <1>0, <1>2 DEF UpBegin, Unchanged, StopToApply, ApplyFails
<1>3. CASE OpenSetting \/ WriteSetting
  BY <1>0, <1>3 DEF OpenSetting, WriteSetting, TypeOK, Agree
<1>4. CASE HaveImageDisk \/ MakeImageDir \/ CreateImageDiskFails \/ StartRefused
  <2>1. (MakeImageDir \/ CreateImageDiskFails) => dir # "ready"
    BY DEF MakeImageDir, CreateImageDiskFails, TypeOK, Agree
  <2>2. CASE HaveImageDisk \/ StartRefused
    BY <1>0, <2>2 DEF HaveImageDisk, StartRefused
  <2>3. CASE MakeImageDir
    BY <1>0, <2>1, <2>3 DEF MakeImageDir
  <2>4. CASE CreateImageDiskFails
    BY <1>0, <2>1, <2>4 DEF CreateImageDiskFails
  <2> QED BY <1>4, <2>2, <2>3, <2>4
<1>5. CASE CreateImageDisk
  <2>1. dir # "ready" /\ loaded \in Configs
    BY <1>5 DEF CreateImageDisk, TypeOK, Agree, Shapes
  <2>2. loaded.image \in Nat
    <3>1. loaded.image \in Sizes \cup {0}
      BY <2>1, ConfigFacts
    <3> QED BY <3>1, SizeFacts
  <2>3. /\ size' = loaded.image /\ fs' = 0 /\ dir' = "ready" /\ pc' = "ensure" /\ pc = "make"
        /\ UNCHANGED <<vm, started, whole>>
    BY <1>5 DEF CreateImageDisk
  <2> QED BY <2>1, <2>2, <2>3
<1>6. CASE EnsureRunning
  BY <1>0, <1>6 DEF EnsureRunning
<1>7. CASE Start
  BY <1>0, <1>7 DEF Start
<1>8. CASE DiskResize \/ RewriteVMDisk \/ OpenLimaDisk \/ NoLimaDisk
  BY <1>0, <1>8 DEF DiskResize, EmptyConfig, RewriteVMDisk, OpenLimaDisk, NoLimaDisk
<1>9. CASE RewriteLimaDisk
  BY <1>0, <1>9 DEF RewriteLimaDisk
<1>10. CASE ResizeImageDisk
  <2>1. PICK n \in Sizes : n >= size /\ (n > size => ~Attached) /\ size' = n
    BY <1>10 DEF ResizeImageDisk
  <2>2. n \in Nat
    BY SizesAreSizes
  <2>3. pc' = "image" /\ UNCHANGED <<vm, started, whole, dir, fs>>
    BY <1>10 DEF ResizeImageDisk
  <2> QED BY <1>0, <2>1, <2>2, <2>3
<1>11. CASE ImageDiskWritten \/ OpenImageDisk \/ RewriteImageDisk
  BY <1>0, <1>11 DEF ImageDiskWritten, OpenImageDisk, EmptyConfig, RewriteImageDisk
<1>12. CASE Migration
  BY <1>0, <1>12 DEF Migration, DeleteLegacyVM, MigrateConfig, MigrateWrite, MigrateCache,
                     MigrateAgent, Migrate
<1> QED BY <1>1, <1>2, <1>3, <1>4, <1>5, <1>6, <1>7, <1>8, <1>9, <1>10, <1>11, <1>12
           DEF Next, Up, Disk

(* The root disk belongs to an instance, and while config.yaml is emptied   *)
(* to be filled, what is to be filled in is in order.                       *)
Meant == IF pc \in Refilling THEN loaded ELSE cfg
Ordered ==
  /\ root <= yaml.disk /\ yaml.disk <= Meant.disk
  /\ pc \notin {"resize", "fillLima"} /\ ~unfinished => yaml.disk = Meant.disk
OrderInv ==
  /\ vm # "none" /\ (whole \/ pc \in {"fill", "fillLima"}) /\ ~torn => Ordered
  /\ vm = "none" => root = 0
  /\ pc = "fillDisk" => want > loaded.disk

LEMMA OrderStep ==
  ASSUME "disk" \notin HandEdits, TypeOK, OrderInv, Next
  PROVE  OrderInv'
<1> USE DEF OrderInv, Ordered, Meant, Refilling, config, disks, legacy, command, broken
<1>0. /\ root \in Nat /\ want \in Nat
      /\ vm # "none" => yaml \in Instances /\ cfg \in Configs
      /\ vm # "none" => yaml.disk \in Nat /\ cfg.disk \in Nat
      /\ cfg \in Configs => cfg.disk \in Nat
      /\ pc \in Refilling => loaded \in Configs /\ loaded.disk \in Nat
  <2>1. vm # "none" => yaml \in Instances /\ cfg \in Configs
    BY DEF TypeOK, Shapes, Agree
  <2>2. vm # "none" => yaml.disk \in Sizes /\ cfg.disk \in Sizes
    BY <2>1, ConfigFacts, InstanceFacts
  <2>3. root \in Sizes \cup {0} /\ want \in Sizes \cup {0}
    BY DEF TypeOK, Shapes
  <2>4. pc \in Refilling => loaded \in Configs
    BY DEF TypeOK, Shapes, Agree
  <2>5. \A c \in Configs : c.disk \in Sizes
    BY ConfigFacts
  <2> QED BY <2>1, <2>2, <2>3, <2>4, <2>5, SizeFacts
<1>1. CASE EditConfig
  <2>1. PICK new \in Configs, key \in HandEdits : new = [cfg EXCEPT ![key] = new[key]] /\ cfg' = new
    BY <1>1 DEF EditConfig
  <2>2. cfg \in Configs
    BY <1>1 DEF EditConfig, TypeOK, Shapes
  <2>3. key # "disk"
    OBVIOUS
  <2>4. cfg'.disk = cfg.disk
    BY <2>1, <2>2, <2>3 DEF Configs
  <2> QED BY <1>0, <1>1, <2>4 DEF EditConfig
<1>2. CASE ConfigEdit
  BY <1>2 DEF ConfigEdit, TypeOK, Agree
<1>3. CASE Killed \/ Down \/ Destroy
  <2>1. CASE Killed
    <3>1. pc' = "idle" /\ UNCHANGED <<cfg, yaml, whole, vm, root, loaded, want>>
      BY <2>1 DEF Killed
    <3>2. vm # "none" => torn' = (torn \/ pc \in Refilling)
      BY <2>1 DEF Killed
    <3>3. vm # "none" => unfinished' = (unfinished \/ pc \in {"resize", "fillLima"})
      BY <2>1 DEF Killed
    <3>4. ~whole' \/ pc \notin {"fill", "fillLima"}
      BY <3>1 DEF TypeOK, Agree
    <3> QED BY <1>0, <3>1, <3>2, <3>3, <3>4
  <2>2. CASE Down \/ Destroy
    BY <1>0, <2>2 DEF Down, Destroy
  <2> QED BY <1>3, <2>1, <2>2
<1>4. CASE UpBegin \/ Unchanged \/ StopToApply \/ ApplyFails \/ OpenSetting
  BY <1>0, <1>4 DEF UpBegin, Unchanged, StopToApply, ApplyFails, OpenSetting, TypeOK, Agree
<1>5. CASE WriteSetting
  <2> DEFINE k == IF "shares" \in todo THEN "shares" ELSE "mirror"
  <2>1. k \in Settings /\ yaml \in Instances /\ loaded \in Configs /\ vm = "stopped"
    BY <1>5, ConfigsAreConfigs DEF WriteSetting, TypeOK, Shapes, Agree, Settings
  <2>2. yaml' = [yaml EXCEPT ![k] = loaded[k]]
    BY <1>5 DEF WriteSetting
  <2>3. pc = "fill" /\ pc' \in {"write", "disk"} /\ UNCHANGED <<cfg, vm, root, want, unfinished, torn>>
    BY <1>5 DEF WriteSetting
  <2> HIDE DEF k
  <2>4. yaml'.disk = yaml.disk
    BY <2>1, <2>2, InstanceKey
  <2> QED BY <1>0, <2>1, <2>3, <2>4
<1>6. CASE HaveImageDisk \/ MakeImageDir \/ CreateImageDisk \/ CreateImageDiskFails \/ StartRefused
  BY <1>0, <1>6 DEF HaveImageDisk, MakeImageDir, CreateImageDisk, CreateImageDiskFails, StartRefused
<1>7. CASE EnsureRunning
  <2>1. loaded = cfg /\ loaded \in Configs
    BY <1>7 DEF EnsureRunning, TypeOK, Agree, Shapes
  <2>2. Build(loaded).disk = cfg.disk /\ cfg.disk \in Nat
    BY <2>1, BuildFacts, ConfigFacts, SizesAreSizes
  <2> QED BY <1>0, <1>7, <2>2, SizesAreSizes DEF EnsureRunning
<1>8. CASE Start
  BY <1>0, <1>8 DEF Start, TypeOK, Agree
<1>9. CASE DiskResize
  <2>1. PICK n \in Sizes : n > cfg.disk /\ want' = n
    BY <1>9 DEF DiskResize
  <2>2. /\ pc = "idle" /\ pc' = "fillDisk" /\ loaded' = cfg /\ cfg \in Configs
        /\ UNCHANGED <<yaml, whole, vm, root, unfinished, torn>>
    BY <1>9 DEF DiskResize, EmptyConfig, TypeOK, Shapes
  <2> QED BY <1>0, <2>1, <2>2
<1>10. CASE RewriteVMDisk
  <2>1. /\ pc = "fillDisk" /\ pc' = "resize" /\ want > loaded.disk
        /\ UNCHANGED <<yaml, whole, vm, root, unfinished, torn>>
    BY <1>10 DEF RewriteVMDisk
  <2>2. want \in Sizes /\ loaded \in Configs
    BY <2>1 DEF TypeOK, Shapes, Agree
  <2>3. cfg'.disk = want
    BY <1>10, <2>2, ConfigEdits DEF RewriteVMDisk
  <2> QED BY <1>0, <2>1, <2>3
<1>11. CASE OpenLimaDisk
  BY <1>0, <1>11 DEF OpenLimaDisk
<1>12. CASE NoLimaDisk
  BY <1>0, <1>12 DEF NoLimaDisk
<1>13. CASE RewriteLimaDisk
  <2>1. /\ pc = "fillLima" /\ pc' = "idle" /\ yaml' = [yaml EXCEPT !.disk = want]
        /\ UNCHANGED <<cfg, vm, root, torn>>
    BY <1>13 DEF RewriteLimaDisk
  <2>2. vm # "none" /\ want = cfg.disk
    BY <2>1 DEF TypeOK, Agree
  <2>3. want \in Sizes
    BY <1>0, <2>2, ConfigFacts
  <2>4. yaml'.disk = cfg.disk
    BY <1>0, <2>1, <2>2, <2>3, InstanceDisk
  <2> QED BY <1>0, <2>1, <2>2, <2>4
<1>14. CASE ResizeImageDisk \/ ImageDiskWritten
  BY <1>0, <1>14 DEF ResizeImageDisk, ImageDiskWritten
<1>15. CASE OpenImageDisk
  <2>1. /\ pc = "image" /\ pc' = "fillImage" /\ loaded' = cfg
        /\ UNCHANGED <<yaml, whole, vm, root, unfinished, torn>>
    BY <1>15 DEF OpenImageDisk, EmptyConfig
  <2> QED BY <1>0, <2>1
<1>16. CASE RewriteImageDisk
  <2>1. /\ pc = "fillImage" /\ pc' = "idle" /\ cfg' = [loaded EXCEPT !.image = want]
        /\ UNCHANGED <<yaml, whole, vm, root, unfinished, torn>>
    BY <1>16 DEF RewriteImageDisk
  <2>2. want \in Sizes /\ loaded \in Configs
    BY <2>1 DEF TypeOK, Shapes, Agree
  <2>3. cfg'.disk = loaded.disk
    BY <2>1, <2>2, ConfigEdits
  <2> QED BY <1>0, <2>1, <2>3
<1>17. CASE Migration
  <2>1. CASE MigrateConfig
    BY <1>0, <2>1 DEF MigrateConfig, LegacyInstallPresent, TypeOK, Agree
  <2>2. CASE MigrateWrite
    BY <1>0, <2>2 DEF MigrateWrite, TypeOK, Agree
  <2>3. CASE DeleteLegacyVM \/ MigrateCache \/ MigrateAgent
    BY <1>0, <2>3 DEF DeleteLegacyVM, MigrateCache, MigrateAgent, Migrate
  <2> QED BY <1>17, <2>1, <2>2, <2>3 DEF Migration
<1> QED BY <1>1, <1>2, <1>3, <1>4, <1>5, <1>6, <1>7, <1>8, <1>9, <1>10, <1>11, <1>12, <1>13,
           <1>14, <1>15, <1>16, <1>17
           DEF Next, Up, Disk

-----------------------------------------------------------------------------
(* The properties.                                                          *)

LEMMA Invariance == Spec => [](TypeOK /\ SettingsInv /\ ImageInv)
<1>1. Init => SettingsInv /\ ImageInv
  BY DEF Init, SettingsInv, ImageInv
<1>2. TypeOK /\ SettingsInv /\ ImageInv /\ [Next]_vars => (SettingsInv /\ ImageInv)'
  <2> SUFFICES ASSUME TypeOK, SettingsInv, ImageInv, [Next]_vars PROVE (SettingsInv /\ ImageInv)'
    OBVIOUS
  <2>1. CASE UNCHANGED vars
    BY <2>1 DEF vars, config, disks, legacy, command, broken, SettingsInv, ImageInv
  <2>2. CASE Next
    BY <2>2, SettingsStep, ImageStep
  <2> QED BY <2>1, <2>2
<1> QED BY <1>1, <1>2, InitType, TypeStep, PTL DEF Spec

(* A VM is not edited while it runs: what Lima started it with is what      *)
(* lima.yaml says (up.go:262).                                              *)
THEOREM NotUnderRunning == Spec => []NothingUnderRunning
<1>1. SettingsInv => NothingUnderRunning
  BY DEF SettingsInv, NothingUnderRunning
<1> QED BY <1>1, Invariance, PTL

(* No command makes the image disk smaller or throws it away, destroy       *)
(* included (disk.go:21).                                                   *)
THEOREM ImageDiskStays == Spec => ImageDiskKept
<1>1. TypeOK /\ ImageInv /\ [Next]_vars =>
        [dir = "ready" => dir' = "ready" /\ size' >= size /\ fs' >= fs]_vars
  BY ImageStep
<1> QED BY <1>1, Invariance, PTL DEF Spec, ImageDiskKept

(* A VM starts with the shares and the port mirroring of the config, also   *)
(* after a half-written lima.yaml or a declined restart (up.go:245).        *)
THEOREM StartsRight == Spec => StartsAsConfigured
<1>1. TypeOK /\ SettingsInv /\ [Next]_vars =>
        [vm # "running" /\ vm' = "running" =>
           started'.shares = cfg.shares /\ started'.mirror = cfg.mirror]_vars
  <2> SUFFICES ASSUME TypeOK, SettingsInv, Next, vm # "running", vm' = "running"
               PROVE  started'.shares = cfg.shares /\ started'.mirror = cfg.mirror
    OBVIOUS
  <2>1. Start
    BY DEF Next, Up, Disk, Migration, EditConfig, ConfigEdit, Killed, Down, Destroy, UpBegin,
           Unchanged, StopToApply, ApplyFails, OpenSetting, WriteSetting, HaveImageDisk,
           MakeImageDir, CreateImageDisk, CreateImageDiskFails, EnsureRunning, StartRefused,
           DiskResize, RewriteVMDisk, OpenLimaDisk, NoLimaDisk, RewriteLimaDisk, ResizeImageDisk,
           ImageDiskWritten, OpenImageDisk, RewriteImageDisk, DeleteLegacyVM, MigrateConfig,
           MigrateWrite, MigrateCache, MigrateAgent
  <2>2. pc = "start" /\ started' = yaml
    BY <2>1 DEF Start
  <2>3. loaded = cfg /\ vm = "stopped" /\ whole
    BY <2>2 DEF TypeOK, Agree
  <2> QED BY <2>2, <2>3 DEF SettingsInv, Settings
<1> QED BY <1>1, Invariance, PTL DEF Spec, StartsAsConfigured

(* The disks keep the order in which a start reads their sizes, as long as  *)
(* nobody edits vm.disk by hand (disk.go:60 compares with the config only)  *)
(* and no resize left config.yaml empty, and the image disk of a VM that is *)
(* seen to run is whole.                                                    *)
THEOREM DisksStayFit == "disk" \notin HandEdits => (Spec => []DisksFit)
<1> SUFFICES ASSUME "disk" \notin HandEdits PROVE Spec => []DisksFit
  OBVIOUS
<1>1. Init => OrderInv
  BY DEF Init, OrderInv
<1>2. TypeOK /\ OrderInv /\ [Next]_vars => OrderInv'
  <2> SUFFICES ASSUME TypeOK, OrderInv, [Next]_vars PROVE OrderInv'
    OBVIOUS
  <2>1. CASE UNCHANGED vars
    BY <2>1 DEF vars, config, disks, legacy, command, broken, OrderInv, Ordered, Meant,
                Refilling
  <2>2. CASE Next
    BY <2>2, OrderStep
  <2> QED BY <2>1, <2>2
<1>3. TypeOK /\ OrderInv => DisksOrdered
  BY DEF TypeOK, Agree, OrderInv, DisksOrdered, Ordered, Meant, Refilling
<1>4. ImageInv => MountedWhole
  BY DEF ImageInv, MountedWhole, Attached
<1> QED BY <1>1, <1>2, <1>3, <1>4, Invariance, PTL DEF Spec, DisksFit
=============================================================================
