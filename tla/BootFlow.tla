------------------------------ MODULE BootFlow ------------------------------
(***************************************************************************)
(* From power-up to the kernel: the SPL's reset handling                   *)
(* (nand_spl/.../boot_main.c), boot_verify_type and the autoboot sequence  *)
(* of main_loop (common/main.c), the update from a card (burn.c,           *)
(* seperate.c), the battery check (batt_imapx800.c), and bootl with its    *)
(* alternate images (bootl.c).                                             *)
(*                                                                         *)
(* What must survive a reset lives in RTC registers and in one word of     *)
(* DRAM (the skip buffer); the environment, and with it boottype, is lost. *)
(* The property that ties the pieces together: what the running system     *)
(* asked for before the reset is what the next boot delivers.              *)
(***************************************************************************)
EXTENDS Naturals, FiniteSets

CONSTANTS
  Configs,      \* the configurations of the boards looked at
  FileSets,     \* the sets of files an update card may hold
  MaxBoots,     \* bound: how often the machine is started
  MaxFaults,    \* bound: how many images a burn may leave torn
  BodyFaults,   \* TRUE: a torn image may still have a good header
  UsbCable      \* TRUE: the fastboot key may be pressed with a host attached

Images == {"ramdisk", "recovery-rd", "kernel0", "kernel1"}

\* What a read of an image meets: a good image; a header that cannot be read
\* or has a wrong checksum; a good header with a body that cannot be read.
ImageState == {"good", "badhdr", "badbody"}

\* Files the update directory of a FAT card may hold, by how update_images
\* treats them: number 0-3, 5, 6; 4; 7 (burned as 8); 9; 10 and up.
Files == {"early", "ramdisk", "uimage", "recovery-rd", "late", "pcbtest"}

NoCard == [kind |-> "none", files |-> {}]
Cards == {NoCard} \cup {[kind |-> "ius", files |-> {}], [kind |-> "raw", files |-> {}]}
         \cup [kind : {"fat"}, files : FileSets]

\* Configuration items, fixed on a board: board.phase, charger.enable,
\* charger.pwron, pmu.model, whether mmc1 is itself the boot device or the
\* system disk, and whether the system disk can be brought up.
Config == [factory : BOOLEAN, enable : BOOLEAN, pwron : BOOLEAN,
           pmu : {"none", "axp202", "other"}, mmc1boot : BOOLEAN, disk : BOOLEAN]

ASSUME BootAssumption ==
  /\ Configs \subseteq Config /\ FileSets \subseteq SUBSET Files
  /\ MaxBoots \in Nat /\ MaxFaults \in Nat
  /\ BodyFaults \in BOOLEAN /\ UsbCable \in BOOLEAN

VARIABLES
  pc,        \* where the boot stands
  cfg,       \* the configuration items
  rst,       \* how the machine was last started
  info4,     \* RTC_INFO4: the boot mode the system asked for
  bl,        \* RTC_INFO6 bit 2: stop in the boot loader
  masked,    \* RTC_POWMASK: the charger does not power the machine on
  powup,     \* SYS_POWUP_ST bit 1: the charger powered the machine on
  skip,      \* the skip buffer holds CONFIG_SKIP_MAGIC
  boottype,  \* the environment variable
  pwr_st,    \* the value main_loop hands to batt_main, bit 1
  store,     \* the images on the system disk
  card,      \* the card in mmc1
  got,       \* what bootl has loaded and the mode of the command line
  caller,    \* who called bootl
  hist,      \* history: the mode asked for since the last boot, the mode this
             \* boot was asked for, whether the charger started it, and
             \* whether it has written an image of the recovery system
  boots,     \* how often the machine was started
  faults     \* how many images burns have left torn

vars == <<pc, cfg, rst, info4, bl, masked, powup, skip, boottype, pwr_st, store,
          card, got, caller, hist, boots, faults>>

rtc   == <<info4, bl, masked>>
count == <<boots, faults>>

NoLoad == [ramdisk |-> "none", kernel |-> "none", args |-> "none"]

\* got_boot_type: an unset variable reads as BOOT_NORMAL.
got_boot_type == IF boottype = "unset" THEN "normal" ELSE boottype

---------------------------------------------------------------------------
(* Outside: the power button, the running system, and the card slot.       *)

PowerOn ==
  /\ pc = "off" /\ boots < MaxBoots
  /\ boots' = boots + 1
  /\ rst' = "cold"
  /\ powup' \in IF masked THEN {FALSE} ELSE BOOLEAN
  /\ pc' = "spl"
  /\ UNCHANGED <<cfg, rtc, skip, boottype, pwr_st, store, card, got, caller, hist, faults>>

\* The system reboots itself, in a mode of its choice; it leaves a mark in
\* RTC_INFO0, or, after a crash, none.
LinuxReboot ==
  /\ pc = "linux" /\ boots < MaxBoots
  /\ boots' = boots + 1
  /\ \E mode \in 0 .. 2 : info4' = mode /\ hist' = [hist EXCEPT !.req = mode]
  /\ bl' \in {bl, TRUE}
  /\ rst' \in {"marked", "bare"}
  /\ pc' = "spl"
  /\ UNCHANGED <<cfg, masked, powup, skip, boottype, pwr_st, store, card, got, caller,
                 faults>>

LinuxSuspend ==
  /\ pc = "linux" /\ boots < MaxBoots
  /\ boots' = boots + 1
  /\ rst' = "wake" /\ pc' = "spl"
  /\ UNCHANGED <<cfg, rtc, powup, skip, boottype, pwr_st, store, card, got, caller,
                 hist, faults>>

LinuxOff ==
  /\ pc = "linux" /\ pc' = "off"
  /\ UNCHANGED <<cfg, rst, rtc, powup, skip, boottype, pwr_st, store, card, got, caller,
                 hist, count>>

\* Power is lost before the kernel runs.
PowerCut ==
  /\ pc \notin {"off", "linux"} /\ pc' = "off"
  /\ UNCHANGED <<cfg, rst, rtc, powup, skip, boottype, pwr_st, store, card, got, caller,
                 hist, count>>

ChangeCard ==
  /\ pc = "off" /\ card' \in Cards \ {card}
  /\ boots < MaxBoots
  /\ UNCHANGED <<pc, cfg, rst, rtc, powup, skip, boottype, pwr_st, store, got, caller,
                 hist, count>>

---------------------------------------------------------------------------
(* SPL and boot_verify_type.                                               *)

\* Mutant: the mark is written only when it is set.
SkipWord_Sticky == skip \/ rst = "marked"

SkipWord == rst = "marked"

\* try_wake and boot_main: a wake-up jumps back into the system; anything
\* else writes the skip buffer and loads U-Boot, whose environment is empty.
Spl ==
  /\ pc = "spl"
  /\ IF rst = "wake"
       THEN /\ pc' = "linux"
            /\ UNCHANGED <<skip, boottype, got>>
       ELSE /\ pc' = "verify"
            /\ skip' = SkipWord
            /\ boottype' = "unset" /\ got' = NoLoad
  /\ UNCHANGED <<cfg, rst, rtc, powup, pwr_st, store, card, caller, hist, count>>

\* Mutant: the charger wins over the mode the system asked for.
VerifiedType_ChargerFirst ==
  IF (cfg.enable /\ powup) \/ info4 = 2 THEN "charger"
  ELSE IF info4 = 1 THEN "factory"
  ELSE "unset"

\* The type boot_verify_type decides on; "unset" when it leaves it alone.
VerifiedType ==
  IF info4 = 1 THEN "factory"
  ELSE IF (cfg.enable /\ powup /\ got_boot_type = "normal") \/ info4 = 2 THEN "charger"
  ELSE "unset"

\* Mutant: the request stays in the register.
ClearedInfo4_Kept == info4

\* Mutant: written with ones, as the interrupt registers are.
ClearedInfo4_Ones == 255

ClearedInfo4 == 0

\* pwr_st is only assigned when the charger bit is set.
boot_verify_type ==
  /\ pc = "verify"
  /\ boottype' = VerifiedType
  /\ hist' = [req |-> 0, asked |-> hist.req, charger |-> powup, renewed |-> FALSE]
  /\ info4' = ClearedInfo4
  /\ IF powup THEN pwr_st' = TRUE /\ powup' = FALSE
              ELSE pwr_st' \in BOOLEAN /\ UNCHANGED powup
  /\ pc' = "abortboot"
  /\ UNCHANGED <<cfg, rst, bl, masked, skip, store, card, got, caller, count>>

---------------------------------------------------------------------------
(* The autoboot sequence of main_loop.                                     *)

\* Mutant: the tag is left for the next boot.
ClearedTag_Kept == bl

ClearedTag == FALSE

\* The reboot-bootloader tag, else the space key, else on with the boot.
abortboot ==
  /\ pc = "abortboot"
  /\ IF bl THEN bl' = ClearedTag /\ pc' = "shell"
           ELSE UNCHANGED bl /\ pc' \in {"shell", "keys"}
  /\ UNCHANGED <<cfg, rst, info4, masked, powup, skip, boottype, pwr_st, store, card,
                 got, caller, hist, count>>

\* fastboot() waits for a host for ever and never returns once it has one.
FastbootKey ==
  /\ pc = "keys"
  /\ pc' \in IF UsbCable THEN {"fastboot", "burn"} ELSE {"burn"}
  /\ UNCHANGED <<cfg, rst, rtc, powup, skip, boottype, pwr_st, store, card, got, caller,
                 hist, count>>

\* Mutant: factory boards burn on every start.
BurnWanted_Always == TRUE

BurnWanted == ~cfg.factory \/ ~skip

\* The images `done` are burned, the images `torn` were begun and failed.
Burned(done, torn) ==
  /\ \E how \in IF BodyFaults THEN {"badhdr", "badbody"} ELSE {"badhdr"} :
       store' = [i \in Images |-> IF i \in done THEN "good"
                                  ELSE IF i \in torn THEN how ELSE store[i]]
  /\ hist' = [hist EXCEPT !.renewed = @ \/ (done \cup torn) \cap {"kernel1", "recovery-rd"} # {}]

\* burn() found a package in mmc1, of any images: it is burned in its order up
\* to the first failure, and what burn_images returns is not looked at.  An
\* EXEC image is jumped to and does not come back.
burn ==
  /\ pc = "burn" /\ BurnWanted /\ card.kind = "ius"
  /\ \E done \in SUBSET Images : \E torn \in SUBSET (Images \ done) :
       /\ Cardinality(torn) <= 1 /\ faults + Cardinality(torn) <= MaxFaults
       /\ faults' = faults + Cardinality(torn)
       /\ Burned(done, torn)
  /\ \/ boottype' = "factory" /\ pc' = "batt"
     \/ UNCHANGED boottype /\ pc' = "exec"
  /\ UNCHANGED <<cfg, rst, rtc, powup, skip, pwr_st, card, got, caller, boots>>

BurnSkipped ==
  /\ pc = "burn" /\ ~BurnWanted
  /\ pc' = "batt"
  /\ UNCHANGED <<cfg, rst, rtc, powup, skip, boottype, pwr_st, store, card, got, caller,
                 hist, count>>

\* update_images burns the files it finds, whatever the burns return: uimage
\* goes to kernel1, and kernel1, recovery-rd and later images ask for
\* recovery.  A file before them does not.
UpdateTarget == [f \in {"ramdisk", "uimage", "recovery-rd"} |->
                   IF f = "uimage" THEN "kernel1" ELSE f]
\* Mutant: a kernel does not ask for recovery.
update_type_NoKernel(files) ==
  IF files \cap {"recovery-rd", "late"} # {} THEN "factory" ELSE boottype

update_type(files) ==
  IF files \cap {"uimage", "recovery-rd", "late"} # {} THEN "factory" ELSE boottype

update_images(files) ==
  LET hit == {UpdateTarget[f] : f \in files \cap DOMAIN UpdateTarget}
  IN  /\ \E torn \in SUBSET hit :
           /\ faults + Cardinality(torn) <= MaxFaults
           /\ faults' = faults + Cardinality(torn)
           /\ Burned(hit \ torn, torn)
      /\ boottype' = update_type(files)

\* try_seperate_source, after burn() found no package.  run_command answers
\* fatls with a non-zero value whether it worked or not, so that a card that
\* is not FAT is searched all the same and nothing is found on it.
try_seperate_source ==
  /\ pc = "burn" /\ BurnWanted /\ card.kind # "ius"
  /\ pc' = "batt"
  /\ IF cfg.mmc1boot \/ card.kind # "fat"
       THEN UNCHANGED <<store, boottype, faults, hist>>
     ELSE IF card.files \ {"pcbtest"} # {}
       THEN update_images(card.files \ {"pcbtest"})
     ELSE /\ boottype' = IF "pcbtest" \in card.files THEN "factory" ELSE boottype
          /\ UNCHANGED <<store, faults, hist>>
  /\ UNCHANGED <<cfg, rst, rtc, powup, skip, pwr_st, card, got, caller, boots>>

---------------------------------------------------------------------------
(* batt_main and what main_loop does with its answer.                      *)

ChargerBoots == cfg.enable \/ cfg.pwron

MaskFor == ~ChargerBoots

\* PWROFF in main_loop: power-up status and skip buffer cleared, shut down.
Shutdown ==
  /\ pc' = "off" /\ skip' = FALSE /\ powup' = FALSE

\* PWRON in main_loop.
GoOn ==
  /\ pc' = "recovery" /\ skip' = FALSE /\ UNCHANGED <<powup, masked>>

\* An automatic reset or no known PMU skips the check.  axp202 may be
\* unreachable, or find no battery at all.
BattSkips ==
  /\ pc = "batt"
  /\ \/ (skip \/ cfg.pmu \in {"none", "axp202"}) /\ GoOn
     \/ ~skip /\ cfg.pmu = "axp202" /\ Shutdown /\ UNCHANGED masked
  /\ UNCHANGED <<cfg, rst, info4, bl, boottype, pwr_st, store, card, got, caller, hist, count>>

\* Voltage, charger and key are read afresh; a low battery with the charger
\* (or the key) keeps waiting.  With the charger and a good battery, a board
\* that does not boot on it goes off again unless the key is held.
BattChecks ==
  /\ pc \in {"batt", "battwait"} /\ ~skip /\ cfg.pmu # "none"
  /\ \E volt, charger, key \in BOOLEAN :
       LET waited == pc = "battwait" IN
       IF pwr_st
         THEN \/ /\ volt /\ (waited \/ ChargerBoots \/ key) /\ (waited => charger)
                 /\ GoOn
              \/ /\ volt /\ ~waited /\ ~ChargerBoots /\ ~key
                 /\ Shutdown /\ masked' = TRUE
              \/ /\ (~volt \/ waited) /\ ~charger
                 /\ Shutdown /\ masked' = MaskFor
              \/ /\ ~volt /\ charger /\ key
                 /\ GoOn
              \/ /\ ~volt /\ charger /\ ~key
                 /\ pc' = "battwait" /\ UNCHANGED <<skip, powup, masked>>
         ELSE \/ /\ (volt /\ ~waited) \/ (charger /\ (~volt \/ waited))
                 /\ GoOn
              \/ /\ (~volt \/ waited) /\ ~charger /\ ~key
                 /\ Shutdown /\ masked' = MaskFor
              \/ /\ (~volt \/ waited) /\ ~charger /\ key
                 /\ pc' = "battwait" /\ UNCHANGED <<skip, powup, masked>>
  /\ UNCHANGED <<cfg, rst, info4, bl, boottype, pwr_st, store, card, got, caller, hist, count>>

\* The recovery key is looked at unless the type is already factory; with the
\* variable unset strncmp reads address 0, and may find either answer there.
RecoveryKey ==
  /\ pc = "recovery"
  /\ \E looked \in IF boottype = "unset" THEN BOOLEAN ELSE {boottype # "factory"} :
     \E key \in BOOLEAN :
       boottype' = IF looked /\ key THEN "factory" ELSE boottype
  /\ pc' = "bootl" /\ caller' = "main"
  /\ UNCHANGED <<cfg, rst, rtc, powup, skip, pwr_st, store, card, got, hist, count>>

---------------------------------------------------------------------------
(* bootl.                                                                  *)

\* Mutant: recovery starts from the normal ramdisk.
Ramdisk_Same(type) == "ramdisk"

Ramdisk(type) == IF type = "factory" THEN "recovery-rd" ELSE "ramdisk"
Kernel(type)  == IF type = "factory" THEN "kernel1" ELSE "kernel0"

\* Mutant: kernel1 has no alternate.
AltKernel_None(type) == IF type = "factory" THEN "none" ELSE "kernel1"

AltKernel(type) == IF type = "factory" THEN "kernel0" ELSE "kernel1"
AltRamdisk(type) == IF type = "factory" THEN "none" ELSE "recovery-rd"

\* load_image rejects a bad header.  The check after the body was read
\* compares unsigned: a read that failed with -1 passes it.
Loads(i) == store[i] # "badhdr"

\* load_image: the image, else its alternate, else nothing.
load_image(name, alternate) ==
  IF Loads(name) THEN name
  ELSE IF alternate # "none" /\ Loads(alternate) THEN alternate
  ELSE "none"

\* The system disk cannot be brought up: bootl returns, and main_loop runs
\* bootcmd.
bootl_NoDisk ==
  /\ pc = "bootl" /\ ~cfg.disk
  /\ pc' = IF caller = "main" THEN "bootcmd" ELSE "fastboot"
  /\ UNCHANGED <<cfg, rst, rtc, powup, skip, boottype, pwr_st, store, card, got, caller,
                 hist, count>>

\* Mutant: load_image tries the alternate for ever.
bootl_Ramdisk_Retries ==
  /\ pc = "bootl" /\ cfg.disk
  /\ LET i == load_image(Ramdisk(got_boot_type), AltRamdisk(got_boot_type))
     IN  /\ i # "none"
         /\ got' = [got EXCEPT !.ramdisk = i]
         /\ pc' = "kernel"
  /\ UNCHANGED <<cfg, rst, rtc, powup, skip, boottype, pwr_st, store, card, caller,
                 hist, count>>

\* The ramdisk is loaded before the kernel; either missing halts the machine.
bootl_Ramdisk ==
  /\ pc = "bootl" /\ cfg.disk
  /\ LET i == load_image(Ramdisk(got_boot_type), AltRamdisk(got_boot_type))
     IN  /\ got' = [got EXCEPT !.ramdisk = i]
         /\ pc' = IF i = "none" THEN "halt" ELSE "kernel"
  /\ UNCHANGED <<cfg, rst, rtc, powup, skip, boottype, pwr_st, store, card, caller,
                 hist, count>>

\* How bootm may end.  The environment has verify=no, so that only the headers
\* are looked at again: an image whose body was not read may be started all
\* the same.  A gzip image is read behind the header that was checked: where
\* that read failed there is no header and bootm returns, or there is one and
\* the kernel cannot be unpacked, which resets the board.
bootm(kernel, ramdisk) ==
  {"linux"} \cup (IF "badbody" \in {store[kernel], store[ramdisk]} THEN {"halt"} ELSE {})
            \cup (IF store[kernel] = "badbody" THEN {"reset"} ELSE {})

\* do_boot: the command line follows the boot type; bootm does not come back,
\* or the machine halts.
bootl_Kernel ==
  /\ pc = "kernel"
  /\ LET i == load_image(Kernel(got_boot_type), AltKernel(got_boot_type))
     IN  IF i = "none"
           THEN pc' = "halt" /\ got' = [got EXCEPT !.kernel = "none"]
           ELSE /\ pc' \in bootm(i, got.ramdisk)
                /\ got' = [got EXCEPT !.kernel = i, !.args = got_boot_type]
  /\ UNCHANGED <<cfg, rst, rtc, powup, skip, boottype, pwr_st, store, card, caller,
                 hist, count>>

\* do_reset: a start the system has not marked.
BootmReset ==
  /\ pc = "reset" /\ boots < MaxBoots
  /\ boots' = boots + 1
  /\ rst' = "bare" /\ pc' = "spl"
  /\ UNCHANGED <<cfg, rtc, powup, skip, boottype, pwr_st, store, card, got, caller, hist,
                 faults>>

---------------------------------------------------------------------------
(* fastboot, as far as it steers the boot.                                 *)

\* reboot and reboot-bootloader: the tag, then a reset.
FastbootReboot ==
  /\ pc = "fastboot" /\ boots < MaxBoots
  /\ boots' = boots + 1
  /\ bl' \in {bl, TRUE}
  /\ rst' = "bare" /\ pc' = "spl"
  /\ UNCHANGED <<cfg, info4, masked, powup, skip, boottype, pwr_st, store, card, got,
                 caller, hist, faults>>

\* boot without a download, or continue: bootl, for recovery or not.
FastbootBoot ==
  /\ pc = "fastboot"
  /\ boottype' \in {boottype, "factory"}
  /\ pc' = "bootl" /\ caller' = "fastboot"
  /\ UNCHANGED <<cfg, rst, rtc, powup, skip, pwr_st, store, card, got, hist, count>>

\* The fastboot command of the shell.
ShellFastboot ==
  /\ pc = "shell" /\ UsbCable
  /\ pc' = "fastboot"
  /\ UNCHANGED <<cfg, rst, rtc, powup, skip, boottype, pwr_st, store, card, got, caller,
                 hist, count>>

---------------------------------------------------------------------------
Init ==
  /\ pc = "off"
  /\ cfg \in Configs
  /\ rst = "cold" /\ info4 = 0 /\ bl = FALSE /\ masked = FALSE /\ powup = FALSE
  /\ skip = FALSE /\ boottype = "unset" /\ pwr_st = FALSE
  /\ store = [i \in Images |-> "good"]
  /\ card = NoCard /\ got = NoLoad /\ caller = "main"
  /\ hist = [req |-> 0, asked |-> 0, charger |-> FALSE, renewed |-> FALSE]
  /\ boots = 0 /\ faults = 0

Env == PowerOn \/ LinuxReboot \/ LinuxSuspend \/ LinuxOff \/ PowerCut \/ ChangeCard
       \/ BootmReset \/ FastbootReboot \/ FastbootBoot \/ ShellFastboot

Boot ==
  \/ Spl \/ boot_verify_type \/ abortboot \/ FastbootKey
  \/ burn \/ BurnSkipped \/ try_seperate_source
  \/ BattSkips \/ BattChecks \/ RecoveryKey
  \/ bootl_NoDisk \/ bootl_Ramdisk \/ bootl_Kernel

Next == Env \/ Boot

Spec == Init /\ [][Next]_vars

\* The boot is one thread that runs on by itself; nothing outside it is fair.
FairSpec == Spec /\ WF_vars(Boot)

---------------------------------------------------------------------------
(* Properties.                                                             *)

\* Type invariant.
TypeOK ==
  /\ pc \in {"off", "spl", "verify", "abortboot", "keys", "burn", "batt", "battwait",
             "recovery", "bootl", "kernel", "linux", "shell", "fastboot", "bootcmd",
             "exec", "halt", "reset"}
  /\ cfg \in Configs /\ rst \in {"cold", "bare", "marked", "wake"}
  /\ info4 \in 0 .. 2 /\ bl \in BOOLEAN /\ masked \in BOOLEAN /\ powup \in BOOLEAN
  /\ skip \in BOOLEAN /\ pwr_st \in BOOLEAN
  /\ boottype \in {"unset", "normal", "factory", "charger"}
  /\ store \in [Images -> ImageState] /\ card \in Cards
  /\ got \in [ramdisk : Images \cup {"none"}, kernel : Images \cup {"none"},
              args : {"none", "normal", "factory", "charger"}]
  /\ caller \in {"main", "fastboot"}
  /\ hist \in [req : 0 .. 2, asked : 0 .. 2, charger : BOOLEAN, renewed : BOOLEAN]
  /\ boots \in 0 .. MaxBoots /\ faults \in 0 .. MaxFaults

\* A system that asked for recovery (RTC_INFO4 = 1, bootl.c:204) and is
\* started again gets the recovery command line and the recovery ramdisk,
\* whatever charger, cards, keys and faulty images come in between.
RecoveryHonoured ==
  pc = "linux" /\ hist.asked = 1 => got.args = "factory" /\ got.ramdisk = "recovery-rd"

\* A request is good for one boot (bootl.c:213): the charger mode is entered
\* when this very boot was asked for it, or was started by the charger on a
\* board that charges.
ChargerModeExplained ==
  pc = "bootl" /\ boottype = "charger" => hist.asked = 2 \/ (cfg.enable /\ hist.charger)

\* After a reset the system marked (boot_main.c:253), a factory board does
\* not touch the images, whatever card is in the slot: the burn that a
\* package causes is not repeated at every automatic reboot (main.c:544).
NoRepeatedBurn ==
  [][store' # store => ~(cfg.factory /\ rst = "marked")]_vars

\* The machine halts for one of three reasons: no ramdisk it may fall back to
\* has a readable header (a recovery boot has no alternate), no kernel has, or
\* an image that load_image passed has a body that could not be read, for
\* which the alternate is never tried (bootl.c:190-197, 258-292).
HaltsOnlyOnBadImages ==
  pc = "halt" =>
    \/ /\ store["recovery-rd"] = "badhdr"
       /\ got_boot_type # "factory" => store["ramdisk"] = "badhdr"
    \/ store["kernel0"] = "badhdr" /\ store["kernel1"] = "badhdr"
    \/ /\ got.ramdisk # "none" /\ got.kernel # "none"
       /\ "badbody" \in {store[got.kernel], store[got.ramdisk]}

\* The boot loader tag stops one boot only (main.c:342-347): no boot, however
\* it ends, leaves the tag for the next one unless the system sets it again.
TagStopsOneBoot == pc \in {"shell", "keys", "burn", "batt", "recovery", "kernel"} => ~bl

\* Only the automatic reset of the running system saves the battery check
\* (batt_imapx800.c:349): a mark from an earlier start that ended in the
\* shell or lost power does not.
CheckedUnlessReset ==
  [][pc = "batt" /\ pc' = "recovery" /\ skip => rst = "marked"]_vars

\* A start that has written the recovery kernel or the recovery ramdisk, from
\* a package or from files, goes on into that recovery system and no other,
\* however the burns went and whatever battery, keys and alternates come after
\* them (burn.c:320-330, seperate.c:277-288, bootl.c:258-269).
RenewedRecoveryStarts ==
  pc = "linux" /\ hist.renewed => got.args = "factory" /\ got.ramdisk = "recovery-rd"

\* A boot that has begun ends: in a system, a prompt, a halt, a reset or
\* power-off, or at a battery that is charging (main.c:521-567).
BootSettles ==
  pc = "verify" ~> pc \in {"linux", "shell", "fastboot", "bootcmd", "exec", "halt",
                           "reset", "off", "battwait"}

\* bootl.c:63, "Load the rest OS image": what is started has been read.
StartsReadImages ==
  [][pc = "kernel" /\ pc' = "linux" =>
       store[got'.kernel] = "good" /\ store[got'.ramdisk] = "good"]_vars
=============================================================================
