-------------------------------- MODULE Instance --------------------------------
(***************************************************************************)
(* The virtual machine and what outlives it: marina's config, Lima's copy   *)
(* of it (lima.yaml), the root disk, the image disk, and the klimax         *)
(* installation `marina migrate` moves over.  Lima reads lima.yaml when a   *)
(* VM starts and at no other time, so a setting has up to three values: the *)
(* config's, lima.yaml's and the one the running VM was started with.       *)
(*                                                                         *)
(* One terminal: commands run one after the other, each in the steps        *)
(* between which it may fail or be killed.  Both files are rewritten with   *)
(* os.WriteFile, which empties a file before it fills it: a kill in between *)
(* leaves it empty.  Lima is external.                                      *)
(***************************************************************************)
EXTENDS Naturals

CONSTANTS
  Sizes,          \* disk sizes
  Shares,         \* values of vm.mounts
  None,
  Default,        \* the config marina writes, and what an empty file reads as
  Legacy,         \* the config of the klimax installation
  HandEdits,      \* the settings the user edits in config.yaml
  MaxDisturbances \* bound on edits, commands other than up and migrate, and faults

Configs == [disk : Sizes, image : Sizes \cup {0}, shares : Shares, mirror : BOOLEAN]
Instances == [disk : Sizes, image : BOOLEAN, shares : Shares, mirror : BOOLEAN]
Settings == {"shares", "mirror"}   \* what reconcileInstanceConfig compares

ASSUME SizesAreSizes == Sizes \subseteq Nat \ {0}
ASSUME ConfigsAreConfigs == Default \in Configs /\ Legacy \in Configs /\ None \notin Configs
ASSUME NoneIsNoInstance == None \notin Instances
ASSUME BoundIsNatural == MaxDisturbances \in Nat
ASSUME HandEditsAreSettings == HandEdits \subseteq {"disk", "image", "shares", "mirror"}

VARIABLES
  cfg,            \* what LoadConfig makes of ~/.marina/config.yaml, or None
  yaml,           \* lima.yaml, or None when there is no instance
  vm,             \* "none", "stopped" or "running"
  root,           \* size of the root disk, 0 before the first start
  started,        \* lima.yaml as the running VM's start read it, or None
  dir,            \* the image disk's directory: "absent", "empty" or "ready"
  size, fs,       \* sizes of the image disk and of the file system on it
  old,            \* what is left of klimax: its config, VM and launchd agent
  cache,          \* the homes that hold a registry cache
  pc,             \* the step the running command is at
  loaded,         \* the config it loaded
  todo,           \* the settings it still has to write to lima.yaml
  want,           \* the size it was asked for
  blank,          \* config.yaml is empty: it has no line to rewrite
  whole,          \* lima.yaml is whole: no write of it under way or cut short
  unfinished,     \* a disk resize stopped before it reached lima.yaml
  torn,           \* a resize left config.yaml empty beside an instance
  disturbances    \* counted for the bound

config == <<cfg, yaml>>
disks == <<root, dir, size, fs>>
legacy == <<old, cache>>
command == <<loaded, todo, want>>
broken == <<unfinished, torn>>
vars == <<config, blank, whole, vm, started, disks, legacy, pc, command, broken, disturbances>>

Refilling == {"fillDisk", "fillImage"}   \* config.yaml is empty, for now
Steps == {"idle", "compare", "write", "fill", "disk", "make", "ensure", "start", "resize", "fillLima",
          "image", "migrateConfig", "migrateWrite", "migrateCache", "migrateAgent"} \cup Refilling

Shapes ==
  /\ cfg \in Configs \cup {None} /\ yaml \in Instances \cup {None}
  /\ vm \in {"none", "stopped", "running"} /\ started \in Instances \cup {None}
  /\ root \in Sizes \cup {0} /\ size \in Sizes \cup {0} /\ fs \in Sizes \cup {0}
  /\ dir \in {"absent", "empty", "ready"}
  /\ old \in [cfg : BOOLEAN, vm : BOOLEAN, agent : BOOLEAN]
  /\ cache \subseteq {"klimax", "marina"}
  /\ pc \in Steps /\ loaded \in Configs \cup {None} /\ todo \subseteq Settings
  /\ want \in Sizes \cup {0}
  /\ blank \in BOOLEAN /\ whole \in BOOLEAN
  /\ unfinished \in BOOLEAN /\ torn \in BOOLEAN /\ disturbances \in 0..MaxDisturbances

(* What is None or 0 together, and what a command knows at each step.       *)
Agree ==
  /\ (yaml = None <=> vm = "none") /\ (started # None <=> vm = "running")
  /\ (dir = "ready" <=> size # 0)
  /\ cfg = None => vm = "none" /\ pc \notin {"resize", "fillLima", "image"}
  /\ blank => cfg = Default
  /\ ~whole => vm # "none" /\ pc \notin {"write", "start"}
  /\ pc \in {"fill", "fillLima"} => ~whole
  /\ pc \in {"compare", "write", "fill", "disk", "make", "ensure", "start"} =>
       cfg # None /\ loaded = cfg
  /\ pc = "compare" => yaml # None
  /\ pc \in {"write", "fill"} => vm = "stopped" /\ todo # {}
  /\ pc = "make" => dir = "empty" /\ loaded.image # 0
  /\ pc = "start" => vm = "stopped"
  /\ pc \in {"resize", "fillLima"} => cfg.disk = want
  /\ pc \in Refilling => cfg # None /\ loaded # None /\ want # 0
  /\ pc = "image" => want = size /\ dir = "ready"
  /\ pc = "migrateWrite" => cfg # None /\ vm = "none"

TypeOK == Shapes /\ Agree

Init ==
  /\ cfg = None /\ yaml = None /\ vm = "none" /\ started = None
  /\ root = 0 /\ dir = "absent" /\ size = 0 /\ fs = 0
  /\ \E klimax \in BOOLEAN :
       /\ old = [cfg |-> klimax, vm |-> klimax, agent |-> klimax]
       /\ cache = IF klimax THEN {"klimax"} ELSE {}
  /\ pc = "idle" /\ loaded = None /\ todo = {} /\ want = 0
  /\ blank = FALSE /\ whole = TRUE
  /\ unfinished = FALSE /\ torn = FALSE /\ disturbances = 0

-----------------------------------------------------------------------------
(* The user, and what goes wrong.                                           *)

Disturb == disturbances < MaxDisturbances /\ disturbances' = disturbances + 1

(* The user saves another value of one setting.                             *)
EditConfig ==
  /\ pc = "idle" /\ cfg # None /\ Disturb
  /\ \E new \in Configs, key \in HandEdits :
       /\ new[key] # cfg[key]
       /\ new = [cfg EXCEPT ![key] = new[key]]
       /\ cfg' = new
  /\ blank' = FALSE
  /\ UNCHANGED <<yaml, whole, vm, started, disks, legacy, pc, command, broken>>

(* `marina config edit` writes the default config when there is none: it    *)
(* does not look for a klimax installation, as `up` does.                   *)
ConfigEdit ==
  /\ pc = "idle" /\ cfg = None /\ Disturb
  /\ cfg' = Default
  /\ UNCHANGED <<yaml, blank, whole, vm, started, disks, legacy, pc, command, broken>>

(* A command is killed, or a step of it fails, where nothing is undone.     *)
Killed ==
  /\ pc # "idle" /\ Disturb
  /\ pc' = "idle"
  /\ unfinished' = (unfinished \/ (pc \in {"resize", "fillLima"} /\ vm # "none"))
  /\ torn' = (torn \/ (pc \in Refilling /\ vm # "none"))
  /\ UNCHANGED <<config, blank, whole, vm, started, disks, legacy, command>>

-----------------------------------------------------------------------------
(* marina up, as far as the running VM.                                     *)

LegacyInstallPresent == old.cfg /\ cfg = None

(* Refused beside a klimax that was not migrated.  A missing config is      *)
(* created; an existing VM is compared with the config, a new one is not.   *)
UpBegin ==
  /\ pc = "idle" /\ ~LegacyInstallPresent
  /\ cfg' = IF cfg = None THEN Default ELSE cfg
  /\ loaded' = cfg'
  /\ pc' = IF vm = "none" THEN "disk" ELSE "compare"
  /\ UNCHANGED <<yaml, blank, whole, vm, started, disks, legacy, todo, want, broken, disturbances>>

Changes == {k \in Settings : yaml[k] # loaded[k]}

(* reconcileInstanceConfig: nothing to change, or nothing the user agrees   *)
(* to stop the VM for (declined, or there is no terminal).  A lima.yaml     *)
(* that was cut short is taken as it is if the config asks for as little.   *)
Unchanged ==
  /\ pc = "compare" /\ (Changes = {} \/ vm = "running" \/ ~whole)
  /\ pc' = "disk"
  /\ UNCHANGED <<config, blank, whole, vm, started, disks, legacy, command, broken, disturbances>>

(* A slip: the edit goes under the running VM.                              *)
ApplyLive ==
  /\ pc = "compare" /\ Changes # {}
  /\ todo' = Changes /\ pc' = "write"
  /\ UNCHANGED <<config, blank, whole, vm, started, disks, legacy, loaded, want, broken, disturbances>>

(* Lima ignores an edit under a running VM: it is stopped first, with the   *)
(* user's consent.                                                          *)
StopToApply ==
  /\ pc = "compare" /\ Changes # {} /\ whole
  /\ vm' = "stopped" /\ started' = None
  /\ todo' = Changes /\ pc' = "write"
  /\ UNCHANGED <<config, blank, whole, disks, legacy, loaded, want, broken, disturbances>>

(* "is not a YAML mapping document": nothing can be written to a lima.yaml  *)
(* that was cut short, and what was stopped for it stays so.                *)
ApplyFails ==
  /\ pc = "compare" /\ ~whole
  /\ \/ vm' = "stopped" /\ started' = None
     \/ UNCHANGED <<vm, started>>
  /\ pc' = "idle"
  /\ UNCHANGED <<config, blank, whole, disks, legacy, command, broken, disturbances>>

(* writeInstanceKey, one key of lima.yaml at a time, vm.mounts first: the   *)
(* file is emptied, and filled with the key replaced.                       *)
OpenSetting ==
  /\ pc = "write"
  /\ whole' = FALSE /\ pc' = "fill"
  /\ UNCHANGED <<config, blank, vm, started, disks, legacy, command, broken, disturbances>>

(* A slip: the first change ends the loop.                                  *)
WriteOneSetting ==
  /\ pc = "fill"
  /\ LET k == IF "shares" \in todo THEN "shares" ELSE "mirror" IN
       yaml' = [yaml EXCEPT ![k] = loaded[k]]
  /\ todo' = {} /\ pc' = "disk" /\ whole' = TRUE
  /\ UNCHANGED <<cfg, blank, vm, started, disks, legacy, loaded, want, broken, disturbances>>

WriteSetting ==
  /\ pc = "fill"
  /\ LET k == IF "shares" \in todo THEN "shares" ELSE "mirror" IN
       /\ yaml' = [yaml EXCEPT ![k] = loaded[k]]
       /\ todo' = todo \ {k}
       /\ pc' = IF todo = {k} THEN "disk" ELSE "write"
  /\ whole' = TRUE
  /\ UNCHANGED <<cfg, blank, vm, started, disks, legacy, loaded, want, broken, disturbances>>

(* EnsureImageDisk: a directory that exists is the disk, whatever is in it. *)
HaveImageDisk ==
  /\ pc = "disk" /\ (loaded.image = 0 \/ dir # "absent")
  /\ pc' = "ensure"
  /\ UNCHANGED <<config, blank, whole, vm, started, disks, legacy, command, broken, disturbances>>

MakeImageDir ==
  /\ pc = "disk" /\ loaded.image # 0 /\ dir = "absent"
  /\ dir' = "empty" /\ pc' = "make"
  /\ UNCHANGED <<config, blank, whole, vm, started, root, size, fs, legacy, command, broken, disturbances>>

CreateImageDisk ==
  /\ pc = "make"
  /\ dir' = "ready" /\ size' = loaded.image /\ fs' = 0
  /\ pc' = "ensure"
  /\ UNCHANGED <<config, blank, whole, vm, started, root, legacy, command, broken, disturbances>>

(* A disk that could not be created takes its directory with it.            *)
CreateImageDiskFails ==
  /\ pc = "make" /\ Disturb
  /\ dir' = "absent" /\ pc' = "idle"
  /\ UNCHANGED <<config, blank, whole, vm, started, root, size, fs, legacy, command, broken>>

Build(c) == [disk |-> c.disk, image |-> c.image # 0, shares |-> c.shares, mirror |-> c.mirror]

(* A slip: an instance that exists counts as running.                       *)
EnsureCreated ==
  /\ pc = "ensure"
  /\ \/ vm = "none" /\ yaml' = Build(loaded) /\ vm' = "stopped" /\ pc' = "start"
     \/ vm # "none" /\ pc' = "idle" /\ UNCHANGED <<yaml, vm>>
  /\ UNCHANGED <<cfg, blank, whole, started, disks, legacy, command, broken, disturbances>>

(* EnsureRunning: what does not exist is created, what runs is left alone,  *)
(* and Lima does not start an instance whose lima.yaml it cannot read.      *)
EnsureRunning ==
  /\ pc = "ensure"
  /\ \/ vm = "none" /\ yaml' = Build(loaded) /\ vm' = "stopped" /\ pc' = "start"
     \/ vm = "stopped" /\ whole /\ pc' = "start" /\ UNCHANGED <<yaml, vm>>
     \/ (vm = "running" \/ ~whole) /\ pc' = "idle" /\ UNCHANGED <<yaml, vm>>
  /\ UNCHANGED <<cfg, blank, whole, started, disks, legacy, command, broken, disturbances>>

(* Lima grows the root disk to lima.yaml's size and attaches the image disk;*)
(* marina-image-disk.sh grows the file system on it.  The mirrors fill the  *)
(* cache of marina's home.                                                  *)
Start ==
  /\ pc = "start" /\ (yaml.image => dir = "ready")
  /\ vm' = "running" /\ started' = yaml
  /\ root' = IF yaml.disk > root THEN yaml.disk ELSE root
  /\ fs' = IF yaml.image THEN size ELSE fs
  /\ cache' = cache \cup {"marina"}
  /\ pc' = "idle"
  /\ UNCHANGED <<config, blank, whole, dir, size, old, command, broken, disturbances>>

(* Lima refuses an instance whose additional disk is missing.               *)
StartRefused ==
  /\ pc = "start" /\ yaml.image /\ dir # "ready"
  /\ pc' = "idle"
  /\ UNCHANGED <<config, blank, whole, vm, started, disks, legacy, command, broken, disturbances>>

-----------------------------------------------------------------------------
(* marina down, destroy and disk.                                           *)

Down ==
  /\ pc = "idle" /\ cfg # None /\ vm = "running" /\ Disturb
  /\ vm' = "stopped" /\ started' = None
  /\ UNCHANGED <<config, blank, whole, disks, legacy, pc, command, broken>>

(* A slip: every disk of the instance goes.                                 *)
DestroyAll ==
  /\ pc = "idle" /\ cfg # None /\ vm # "none" /\ Disturb
  /\ vm' = "none" /\ yaml' = None /\ started' = None /\ root' = 0
  /\ dir' = "absent" /\ size' = 0 /\ fs' = 0
  /\ whole' = TRUE /\ unfinished' = FALSE /\ torn' = FALSE
  /\ UNCHANGED <<cfg, blank, legacy, pc, command>>

(* The instance and its root disk go; a named Lima disk stays.              *)
Destroy ==
  /\ pc = "idle" /\ cfg # None /\ vm # "none" /\ Disturb
  /\ vm' = "none" /\ yaml' = None /\ started' = None /\ root' = 0
  /\ whole' = TRUE /\ unfinished' = FALSE /\ torn' = FALSE
  /\ UNCHANGED <<cfg, blank, dir, size, fs, legacy, pc, command>>

(* os.WriteFile: config.yaml is empty, and reads as the defaults, before it *)
(* is filled with what was read from it (loaded), one line replaced.        *)
EmptyConfig(then) ==
  /\ cfg' = Default /\ blank' = TRUE
  /\ loaded' = cfg /\ pc' = then

(* A slip: any other size is a resize.                                      *)
DiskResizeAny ==
  /\ pc = "idle" /\ cfg # None /\ ~blank /\ Disturb
  /\ \E n \in Sizes : n # cfg.disk /\ want' = n
  /\ EmptyConfig("fillDisk")
  /\ UNCHANGED <<yaml, whole, vm, started, disks, legacy, todo, broken>>

(* disk resize compares with the config, and rewrites it first; an empty    *)
(* one has no vm.disk line to rewrite.                                      *)
DiskResize ==
  /\ pc = "idle" /\ cfg # None /\ ~blank /\ Disturb
  /\ \E n \in Sizes : n > cfg.disk /\ want' = n
  /\ EmptyConfig("fillDisk")
  /\ UNCHANGED <<yaml, whole, vm, started, disks, legacy, todo, broken>>

RewriteVMDisk ==
  /\ pc = "fillDisk"
  /\ cfg' = [loaded EXCEPT !.disk = want] /\ blank' = FALSE
  /\ pc' = "resize"
  /\ UNCHANGED <<yaml, whole, vm, started, disks, legacy, command, broken, disturbances>>

(* Then lima.yaml, where there is an instance: emptied and filled likewise. *)
OpenLimaDisk ==
  /\ pc = "resize" /\ vm # "none" /\ whole
  /\ whole' = FALSE /\ pc' = "fillLima"
  /\ UNCHANGED <<config, blank, vm, started, disks, legacy, command, broken, disturbances>>

(* "no top-level disk: line found" in one that was cut short.               *)
NoLimaDisk ==
  /\ pc = "resize" /\ (vm = "none" \/ ~whole)
  /\ unfinished' = (vm # "none") /\ pc' = "idle"
  /\ UNCHANGED <<config, blank, whole, vm, started, disks, legacy, command, torn, disturbances>>

RewriteLimaDisk ==
  /\ pc = "fillLima"
  /\ yaml' = [yaml EXCEPT !.disk = want] /\ whole' = TRUE
  /\ unfinished' = FALSE /\ pc' = "idle"
  /\ UNCHANGED <<cfg, blank, vm, started, disks, legacy, command, torn, disturbances>>

(* What `disk resize-image` sees: Lima reports no VM as running whose       *)
(* lima.yaml it cannot read.                                                *)
Attached == vm = "running" /\ started.image /\ whole

(* A slip: the disk is not asked whether a running VM has it.               *)
ResizeImageDiskLive ==
  /\ pc = "idle" /\ cfg # None /\ dir = "ready" /\ Disturb
  /\ \E n \in Sizes : n >= size /\ size' = n /\ want' = n
  /\ pc' = "image"
  /\ UNCHANGED <<config, blank, whole, vm, started, root, dir, fs, legacy, loaded, todo, broken>>

(* disk resize-image compares with the disk itself, and wants it detached.  *)
ResizeImageDisk ==
  /\ pc = "idle" /\ cfg # None /\ dir = "ready" /\ Disturb
  /\ \E n \in Sizes :
       /\ n >= size /\ (n > size => ~Attached)
       /\ size' = n /\ want' = n
  /\ pc' = "image"
  /\ UNCHANGED <<config, blank, whole, vm, started, root, dir, fs, legacy, loaded, todo, broken>>

(* The config is brought in sync, unless it says so already or has no       *)
(* imageDisk line to rewrite.                                               *)
ImageDiskWritten ==
  /\ pc = "image" /\ (cfg.image \in {0, want} \/ blank)
  /\ pc' = "idle"
  /\ UNCHANGED <<config, blank, whole, vm, started, disks, legacy, command, broken, disturbances>>

OpenImageDisk ==
  /\ pc = "image" /\ cfg.image \notin {0, want} /\ ~blank
  /\ EmptyConfig("fillImage")
  /\ UNCHANGED <<yaml, whole, vm, started, disks, legacy, todo, want, broken, disturbances>>

RewriteImageDisk ==
  /\ pc = "fillImage"
  /\ cfg' = [loaded EXCEPT !.image = want] /\ blank' = FALSE
  /\ pc' = "idle"
  /\ UNCHANGED <<yaml, whole, vm, started, disks, legacy, command, broken, disturbances>>

-----------------------------------------------------------------------------
(* marina migrate: each step is skipped when it finds nothing to do.        *)

Migrate == pc = "idle" /\ (old.vm \/ old.agent \/ LegacyInstallPresent \/ cache = {"klimax"})

DeleteLegacyVM ==
  /\ Migrate
  /\ old' = [old EXCEPT !.vm = FALSE] /\ pc' = "migrateConfig"
  /\ UNCHANGED <<config, blank, whole, vm, started, disks, cache, command, broken, disturbances>>

(* A slip: the config is copied whether or not marina has one.              *)
MigrateConfigAlways ==
  /\ pc = "migrateConfig"
  /\ IF old.cfg
     THEN cfg' = Default /\ blank' = TRUE /\ pc' = "migrateWrite"
     ELSE UNCHANGED <<cfg, blank>> /\ pc' = "migrateCache"
  /\ UNCHANGED <<yaml, whole, vm, started, disks, legacy, command, broken, disturbances>>

(* os.WriteFile: the file exists, empty, before its contents do.            *)
MigrateConfig ==
  /\ pc = "migrateConfig"
  /\ IF LegacyInstallPresent
     THEN cfg' = Default /\ blank' = TRUE /\ pc' = "migrateWrite"
     ELSE UNCHANGED <<cfg, blank>> /\ pc' = "migrateCache"
  /\ UNCHANGED <<yaml, whole, vm, started, disks, legacy, command, broken, disturbances>>

MigrateWrite ==
  /\ pc = "migrateWrite"
  /\ cfg' = Legacy /\ blank' = FALSE /\ pc' = "migrateCache"
  /\ UNCHANGED <<yaml, whole, vm, started, disks, legacy, command, broken, disturbances>>

(* A rename, unless marina has a cache of its own.                          *)
MigrateCache ==
  /\ pc = "migrateCache"
  /\ cache' = IF cache = {"klimax"} THEN {"marina"} ELSE cache
  /\ pc' = "migrateAgent"
  /\ UNCHANGED <<config, blank, whole, vm, started, disks, old, command, broken, disturbances>>

MigrateAgent ==
  /\ pc = "migrateAgent"
  /\ old' = [old EXCEPT !.agent = FALSE] /\ pc' = "idle"
  /\ UNCHANGED <<config, blank, whole, vm, started, disks, cache, command, broken, disturbances>>

-----------------------------------------------------------------------------
Up ==
  \/ UpBegin \/ Unchanged \/ StopToApply \/ ApplyFails \/ OpenSetting \/ WriteSetting
  \/ HaveImageDisk \/ MakeImageDir \/ CreateImageDisk \/ CreateImageDiskFails
  \/ EnsureRunning \/ Start \/ StartRefused

Disk ==
  \/ DiskResize \/ RewriteVMDisk \/ OpenLimaDisk \/ NoLimaDisk \/ RewriteLimaDisk
  \/ ResizeImageDisk \/ ImageDiskWritten \/ OpenImageDisk \/ RewriteImageDisk

Migration == DeleteLegacyVM \/ MigrateConfig \/ MigrateWrite \/ MigrateCache \/ MigrateAgent

Next == EditConfig \/ ConfigEdit \/ Killed \/ Up \/ Down \/ Destroy \/ Disk \/ Migration

Spec == Init /\ [][Next]_vars

(* A command that was started goes on.  The user who runs `up` again and    *)
(* again in the end agrees to the restart it asks for, and migrates.        *)
Continue ==
  \/ Unchanged \/ OpenSetting \/ WriteSetting \/ HaveImageDisk \/ MakeImageDir \/ CreateImageDisk
  \/ EnsureRunning \/ Start \/ StartRefused
  \/ RewriteVMDisk \/ OpenLimaDisk \/ NoLimaDisk \/ RewriteLimaDisk
  \/ ImageDiskWritten \/ OpenImageDisk \/ RewriteImageDisk
  \/ MigrateConfig \/ MigrateWrite \/ MigrateCache \/ MigrateAgent

FairSpec ==
  /\ Spec /\ WF_vars(Continue)
  /\ SF_vars(UpBegin) /\ SF_vars(StopToApply) /\ SF_vars(DeleteLegacyVM)

-----------------------------------------------------------------------------
(* Properties.                                                              *)

(* Sizes only grow along the chain the start of a VM reads them through:    *)
(* the root disk is never larger than lima.yaml says, nor lima.yaml than    *)
(* the config, and the last two agree unless a resize broke off between     *)
(* them.  (disk.go:60 compares with the config alone.)  Not of a file that  *)
(* is being rewritten or was left empty, nor once a kill between the two    *)
(* halves of os.WriteFile has made the config the default one beside an     *)
(* instance (torn): SizesSurvive says more than the code keeps.             *)
DisksOrdered ==
  vm # "none" /\ whole /\ pc \notin Refilling /\ ~torn =>
    /\ root <= yaml.disk /\ yaml.disk <= cfg.disk
    /\ pc # "resize" /\ ~unfinished => yaml.disk = cfg.disk

(* A running VM was started from the shares and the port mirroring that     *)
(* lima.yaml has now: neither is written under it (up.go:262).              *)
NothingUnderRunning ==
  vm = "running" /\ whole => started.shares = yaml.shares /\ started.mirror = yaml.mirror

(* The image disk of a running VM is there, and the file system fills it:   *)
(* it is not resized while attached (disk.go:83), as long as Lima can read  *)
(* lima.yaml and so knows the VM to be running.                             *)
MountedWhole == Attached => dir = "ready" /\ fs = size

(* Both disks.                                                              *)
DisksFit == DisksOrdered /\ MountedWhole

(* Whatever happens to the VM, the image disk is kept and does not shrink   *)
(* (disk.go:21: it survives destroy).                                       *)
ImageDiskKept == [][dir = "ready" => dir' = "ready" /\ size' >= size /\ fs' >= fs]_vars

(* A VM never starts with other shares or port mirroring than the config    *)
(* `up` loaded asks for, whatever was declined, half written or killed      *)
(* before (up.go:245).                                                      *)
StartsAsConfigured ==
  [][vm # "running" /\ vm' = "running" =>
       started'.shares = cfg.shares /\ started'.mirror = cfg.mirror]_vars

(* Once nothing more is disturbed, running `up` and `migrate` again brings  *)
(* up a VM that follows the config, and klimax's is gone; or the image disk *)
(* was left as an empty directory, which EnsureImageDisk takes for a disk,  *)
(* or lima.yaml was cut short, which only `destroy` repairs.                *)
Follows ==
  /\ vm = "running" /\ ~old.vm
  /\ started.shares = cfg.shares /\ started.mirror = cfg.mirror
UpHeals == <>[](Follows \/ dir = "empty" \/ ~whole)

(* up.go:48: marina never runs a VM beside klimax's.                        *)
OneVM == ~(old.vm /\ vm = "running")

(* What a kill inside os.WriteFile takes away, each with its configuration: *)
(* that the sizes stay in order whatever is killed,                         *)
SizesSurvive ==
  vm # "none" /\ whole /\ pc \notin Refilling => root <= yaml.disk /\ yaml.disk <= cfg.disk

(* and that `up` run again always brings the VM back.                       *)
UpRestores == <>[](Follows \/ dir = "empty")
=============================================================================
