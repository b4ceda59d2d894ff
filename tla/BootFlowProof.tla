--------------------------- MODULE BootFlowProof ---------------------------
(***************************************************************************)
(* Theorems about BootFlow for every set of boards, every kind of update   *)
(* card and any number of starts and torn images.                          *)
(***************************************************************************)
EXTENDS BootFlow, FiniteSetTheorems, TLAPS

\* A burn leaves finitely many images torn, since there are only four.
LEMMA TornCount ==
  ASSUME NEW torn \in SUBSET Images
  PROVE  Cardinality(torn) \in Nat
  <1>1. IsFiniteSet({"ramdisk"} \cup {"recovery-rd"} \cup {"kernel0"} \cup {"kernel1"})
    BY FS_Singleton, FS_Union
  <1>2. Images = {"ramdisk"} \cup {"recovery-rd"} \cup {"kernel0"} \cup {"kernel1"}
    BY DEF Images
  <1>3. IsFiniteSet(torn)
    BY <1>1, <1>2, FS_Subset
  <1>4. QED
    BY <1>3, FS_CardinalityType

\* What a burn makes of the images is images.
LEMMA BurnedType ==
  ASSUME NEW done, NEW torn, TypeOK, Burned(done, torn)
  PROVE  /\ store' \in [Images -> ImageState]
         /\ hist' \in [req : 0 .. 2, asked : 0 .. 2, charger : BOOLEAN, renewed : BOOLEAN]
         /\ hist'.req = hist.req /\ hist'.asked = hist.asked /\ hist'.charger = hist.charger
  <1>1. store' \in [Images -> ImageState]
    BY DEF Burned, ImageState, TypeOK
  <1> DEFINE w == hist.renewed \/ (done \cup torn) \cap {"kernel1", "recovery-rd"} # {}
  <1>2. w \in BOOLEAN
    BY Zenon
  <1>3. hist' = [hist EXCEPT !.renewed = w]
    BY DEF Burned
  <1> HIDE DEF w
  <1>4. QED
    BY <1>1, <1>2, <1>3 DEF TypeOK

\* load_image answers the image, its alternate, or nothing, and nothing only
\* when neither header can be read.
LEMMA LoadType ==
  ASSUME NEW name \in Images, NEW alternate \in Images \cup {"none"}
  PROVE  /\ load_image(name, alternate) \in {name, alternate, "none"}
         /\ load_image(name, alternate) = "none" =>
              store[name] = "badhdr" /\ (alternate # "none" => store[alternate] = "badhdr")
  BY DEF load_image, Loads, Images

\* The type bootl works with is one of three.
LEMMA BootTypes ==
  ASSUME boottype \in {"unset", "normal", "factory", "charger"}
  PROVE  got_boot_type \in {"normal", "factory", "charger"}
  BY DEF got_boot_type

---------------------------------------------------------------------------
(* Types.                                                                  *)

LEMMA InitTypes ==
  ASSUME Init
  PROVE  TypeOK
  <1>1. card \in Cards
    BY DEF Init, Cards
  <1>2. /\ bl \in BOOLEAN /\ masked \in BOOLEAN /\ powup \in BOOLEAN
        /\ skip \in BOOLEAN /\ pwr_st \in BOOLEAN
    BY Zenon DEF Init
  <1>3. QED
    BY <1>1, <1>2, BootAssumption DEF Init, TypeOK, NoLoad, ImageState

LEMMA EnvTypes ==
  ASSUME TypeOK, Env
  PROVE  TypeOK'
  <1> USE BootAssumption DEF TypeOK, rtc, count
  <1>1. CASE PowerOn
    <2>1. powup' \in BOOLEAN
      BY <1>1, Zenon DEF PowerOn
    <2>2. QED
      BY <1>1, <2>1 DEF PowerOn
  <1>2. CASE LinuxReboot
    <2>1. bl' \in BOOLEAN
      BY <1>2, Zenon DEF LinuxReboot
    <2>2. QED
      BY <1>2, <2>1 DEF LinuxReboot
  <1>3. CASE LinuxSuspend
    BY <1>3 DEF LinuxSuspend
  <1>4. CASE LinuxOff
    BY <1>4 DEF LinuxOff
  <1>5. CASE PowerCut
    BY <1>5 DEF PowerCut
  <1>6. CASE ChangeCard
    BY <1>6 DEF ChangeCard
  <1>7. CASE FastbootReboot
    <2>1. bl' \in BOOLEAN
      BY <1>7, Zenon DEF FastbootReboot
    <2>2. QED
      BY <1>7, <2>1 DEF FastbootReboot
  <1>8. CASE FastbootBoot
    BY <1>8 DEF FastbootBoot
  <1>9. CASE ShellFastboot
    BY <1>9 DEF ShellFastboot
  <1>10. CASE BootmReset
    BY <1>10 DEF BootmReset
  <1>11. QED
    BY <1>1, <1>2, <1>3, <1>4, <1>5, <1>6, <1>7, <1>8, <1>9, <1>10 DEF Env

LEMMA BootStepTypes ==
  ASSUME TypeOK, Boot
  PROVE  TypeOK'
  <1> USE BootAssumption DEF TypeOK, rtc, count
  <1>1. CASE Spl
    <2>1. skip' \in BOOLEAN
      BY <1>1, Zenon DEF Spl, SkipWord
    <2>2. QED
      BY <1>1, <2>1 DEF Spl, NoLoad
  <1>2. CASE boot_verify_type
    <2>1. pwr_st' \in BOOLEAN /\ powup' \in BOOLEAN
      BY <1>2, Zenon DEF boot_verify_type
    <2>2. QED
      BY <1>2, <2>1 DEF boot_verify_type, VerifiedType, ClearedInfo4
  <1>3. CASE abortboot
    <2>1. bl' \in BOOLEAN
      BY <1>3, Zenon DEF abortboot, ClearedTag
    <2>2. QED
      BY <1>3, <2>1 DEF abortboot
  <1>4. CASE FastbootKey
    BY <1>4 DEF FastbootKey
  <1>5. CASE burn
    <2>1. PICK done \in SUBSET Images, torn \in SUBSET Images :
            /\ faults + Cardinality(torn) <= MaxFaults
            /\ faults' = faults + Cardinality(torn)
            /\ Burned(done, torn)
      BY <1>5 DEF burn
    <2>2. Cardinality(torn) \in Nat
      BY TornCount
    <2>3. /\ store' \in [Images -> ImageState] /\ faults' \in 0 .. MaxFaults
          /\ hist' \in [req : 0 .. 2, asked : 0 .. 2, charger : BOOLEAN, renewed : BOOLEAN]
      BY <2>1, <2>2, BurnedType
    <2>4. QED
      BY <1>5, <2>3 DEF burn
  <1>6. CASE BurnSkipped
    BY <1>6 DEF BurnSkipped
  <1>7. CASE try_seperate_source
    <2>1. ASSUME NEW files \in SUBSET Files, update_images(files)
          PROVE  /\ store' \in [Images -> ImageState] /\ faults' \in 0 .. MaxFaults
                 /\ hist' \in [req : 0 .. 2, asked : 0 .. 2, charger : BOOLEAN,
                               renewed : BOOLEAN]
      <3> DEFINE hit == {UpdateTarget[f] : f \in files \cap DOMAIN UpdateTarget}
      <3>1. PICK torn \in SUBSET hit :
              /\ faults + Cardinality(torn) <= MaxFaults
              /\ faults' = faults + Cardinality(torn)
              /\ Burned(hit \ torn, torn)
        BY <2>1 DEF update_images
      <3>2. hit \subseteq Images
        BY DEF UpdateTarget, Images
      <3>3. Cardinality(torn) \in Nat
        BY <3>2, TornCount
      <3>4. QED
        BY <3>1, <3>3, BurnedType
    <2>2. card.kind = "fat" => card.files \ {"pcbtest"} \in SUBSET Files
      BY DEF Cards, NoCard
    <2>3. /\ store' \in [Images -> ImageState] /\ faults' \in 0 .. MaxFaults
          /\ hist' \in [req : 0 .. 2, asked : 0 .. 2, charger : BOOLEAN, renewed : BOOLEAN]
      BY <1>7, <2>1, <2>2 DEF try_seperate_source
    <2>4. boottype' \in {boottype, "factory"}
      BY <1>7 DEF try_seperate_source, update_images, update_type
    <2>5. QED
      BY <1>7, <2>3, <2>4 DEF try_seperate_source
  <1>8. CASE BattSkips
    <2>1. skip' \in BOOLEAN /\ powup' \in BOOLEAN /\ masked' \in BOOLEAN
      BY <1>8, Zenon DEF BattSkips, GoOn, Shutdown
    <2>2. pc' \in {"off", "recovery"}
      BY <1>8, Zenon DEF BattSkips, GoOn, Shutdown
    <2>3. QED
      BY <1>8, <2>1, <2>2 DEF BattSkips
  <1>9. CASE BattChecks
    <2>1. \/ GoOn
          \/ Shutdown /\ masked' \in {TRUE, MaskFor}
          \/ pc' = "battwait" /\ UNCHANGED <<skip, powup, masked>>
      <3> HIDE DEF TypeOK, Boot
      <3>1. CASE pwr_st
        BY ONLY <1>9, <3>1, ZenonT(60) DEF BattChecks
      <3>2. CASE ~pwr_st
        BY ONLY <1>9, <3>2, ZenonT(60) DEF BattChecks
      <3>3. QED
        BY ONLY <3>1, <3>2, Zenon
    <2>2. MaskFor \in BOOLEAN
      BY Zenon DEF MaskFor, ChargerBoots
    <2>3. skip' \in BOOLEAN /\ powup' \in BOOLEAN /\ masked' \in BOOLEAN
      BY <2>1, <2>2, Zenon DEF GoOn, Shutdown
    <2>4. pc' \in {"off", "recovery", "battwait"}
      BY <2>1, Zenon DEF GoOn, Shutdown
    <2>5. QED
      BY <1>9, <2>3, <2>4 DEF BattChecks
  <1>10. CASE RecoveryKey
    BY <1>10 DEF RecoveryKey
  <1>11. CASE bootl_NoDisk
    BY <1>11 DEF bootl_NoDisk
  <1>12. CASE bootl_Ramdisk
    <2>1. load_image(Ramdisk(got_boot_type), AltRamdisk(got_boot_type)) \in Images \cup {"none"}
      BY LoadType DEF Ramdisk, AltRamdisk, Images
    <2>2. QED
      BY <1>12, <2>1 DEF bootl_Ramdisk
  <1>13. CASE bootl_Kernel
    <2>1. load_image(Kernel(got_boot_type), AltKernel(got_boot_type)) \in Images \cup {"none"}
      BY LoadType DEF Kernel, AltKernel, Images
    <2> DEFINE i == load_image(Kernel(got_boot_type), AltKernel(got_boot_type))
    <2>2. CASE i = "none"
      BY <1>13, <2>2 DEF bootl_Kernel
    <2>3. CASE i # "none"
      <3>1. /\ pc' \in {"linux", "halt", "reset"}
            /\ got' = [got EXCEPT !.kernel = i, !.args = got_boot_type]
            /\ UNCHANGED <<cfg, rst, rtc, powup, skip, boottype, pwr_st, store, card,
                           caller, hist, count>>
        BY <1>13, <2>3 DEF bootl_Kernel, bootm
      <3>2. got' \in [ramdisk : Images \cup {"none"}, kernel : Images \cup {"none"},
                      args : {"none", "normal", "factory", "charger"}]
        BY <2>1, <3>1, BootTypes
      <3>3. QED
        BY <3>1, <3>2
    <2>4. QED
      BY <2>2, <2>3
  <1>14. QED
    BY <1>1, <1>2, <1>3, <1>4, <1>5, <1>6, <1>7, <1>8, <1>9, <1>10, <1>11, <1>12, <1>13
       DEF Boot

\* Every register, variable and image keeps to its values: what the SPL, the
\* autoboot sequence, the burns and bootl assign stays within them.
THEOREM TypesHold == Spec => []TypeOK
  <1>1. Init => TypeOK
    BY InitTypes
  <1>2. TypeOK /\ [Next]_vars => TypeOK'
    <2>1. TypeOK /\ UNCHANGED vars => TypeOK'
      BY DEF TypeOK, vars
    <2>2. QED
      BY <2>1, EnvTypes, BootStepTypes DEF Next
  <1>3. QED
    BY <1>1, <1>2, PTL DEF Spec

---------------------------------------------------------------------------
(* The registers and the boots they steer.                                 *)

\* Where a boot stands once boot_verify_type has run and before the kernel.
Verified == {"abortboot", "keys", "burn", "batt", "battwait", "recovery", "bootl",
             "kernel", "shell", "fastboot", "bootcmd", "exec", "halt", "reset"}

\* Past abortboot the tag is gone, wherever the boot went from there.
TagInv == pc \in Verified \ {"abortboot"} => ~bl

\* Until batt_main has answered, the skip buffer says how this start came about.
SkipInv == pc \in {"verify", "abortboot", "keys", "burn", "batt"} => (skip <=> rst = "marked")

\* A request for recovery is in the register, then in boottype, then in the
\* loaded ramdisk, then in the system; a suspend keeps that system.
RecoverySystem == got.args = "factory" /\ got.ramdisk = "recovery-rd"
RequestInv ==
  /\ hist.req = info4
  /\ pc \in Verified /\ hist.asked = 1 => boottype = "factory"
  /\ pc = "kernel" /\ hist.asked = 1 => got.ramdisk = "recovery-rd"
  /\ pc = "linux" /\ hist.asked = 1 => RecoverySystem
  /\ pc = "spl" /\ rst = "wake" /\ hist.asked = 1 => RecoverySystem

\* So does a recovery system written in this start: boottype, then the loaded
\* ramdisk, then the system.  An EXEC image does not come back to bootl.
RenewInv ==
  /\ pc \in Verified \ {"exec"} /\ hist.renewed => boottype = "factory"
  /\ pc \in {"abortboot", "keys", "burn", "shell"} => ~hist.renewed
  /\ pc = "kernel" /\ hist.renewed => got.ramdisk = "recovery-rd"
  /\ pc = "linux" /\ hist.renewed => RecoverySystem
  /\ pc = "spl" /\ rst = "wake" /\ hist.renewed => RecoverySystem

\* From the ramdisk on, an image is loaded.
LoadInv == pc = "kernel" => got.ramdisk # "none"

\* The charger mode has its reason from boot_verify_type on.
ChargerInv ==
  pc \in Verified /\ boottype = "charger" => hist.asked = 2 \/ (cfg.enable /\ hist.charger)

\* Together with TypeOK, the inductive invariant.
Safe == /\ TagInv /\ SkipInv /\ RequestInv /\ RenewInv /\ LoadInv /\ ChargerInv
        /\ HaltsOnlyOnBadImages

LEMMA InitSafe ==
  ASSUME Init
  PROVE  Safe
  BY DEF Init, Safe, TagInv, SkipInv, RequestInv, RenewInv, LoadInv, ChargerInv,
         HaltsOnlyOnBadImages, Verified

LEMMA EnvSafe ==
  ASSUME TypeOK, Safe, Env
  PROVE  Safe'
  <1> USE DEF TypeOK, Safe, TagInv, SkipInv, RequestInv, RenewInv, LoadInv, RecoverySystem,
              ChargerInv, HaltsOnlyOnBadImages, Verified, got_boot_type, rtc, count
  <1>1. CASE PowerOn
    BY <1>1 DEF PowerOn
  <1>2. CASE LinuxReboot
    BY <1>2 DEF LinuxReboot
  <1>3. CASE LinuxSuspend
    BY <1>3 DEF LinuxSuspend
  <1>4. CASE LinuxOff
    BY <1>4 DEF LinuxOff
  <1>5. CASE PowerCut
    BY <1>5 DEF PowerCut
  <1>6. CASE ChangeCard
    BY <1>6 DEF ChangeCard
  <1>7. CASE FastbootReboot
    BY <1>7 DEF FastbootReboot
  <1>8. CASE FastbootBoot
    BY <1>8 DEF FastbootBoot
  <1>9. CASE ShellFastboot
    BY <1>9 DEF ShellFastboot
  <1>10. CASE BootmReset
    BY <1>10 DEF BootmReset
  <1>11. QED
    BY <1>1, <1>2, <1>3, <1>4, <1>5, <1>6, <1>7, <1>8, <1>9, <1>10 DEF Env

LEMMA BootStepSafe ==
  ASSUME TypeOK, Safe, Boot
  PROVE  Safe'
  <1> USE DEF TypeOK, Safe, TagInv, SkipInv, RequestInv, RenewInv, LoadInv, RecoverySystem,
              ChargerInv, HaltsOnlyOnBadImages, Verified, got_boot_type, rtc, count
  <1>1. CASE Spl
    BY <1>1 DEF Spl, SkipWord, NoLoad
  <1>2. CASE boot_verify_type
    BY <1>2 DEF boot_verify_type, VerifiedType, ClearedInfo4
  <1>3. CASE abortboot
    BY <1>3 DEF abortboot, ClearedTag
  <1>4. CASE FastbootKey
    BY <1>4 DEF FastbootKey
  <1>5. CASE burn
    <2>1. PICK done, torn : Burned(done, torn)
      BY <1>5 DEF burn
    <2>2. hist'.req = hist.req /\ hist'.asked = hist.asked /\ hist'.charger = hist.charger
      BY <2>1, BurnedType
    <2>3. QED
      BY <1>5, <2>2 DEF burn
  <1>6. CASE BurnSkipped
    BY <1>6 DEF BurnSkipped
  <1>7. CASE try_seperate_source
    <2>1. CASE UNCHANGED hist
      BY <1>7, <2>1 DEF try_seperate_source, update_images, update_type
    <2>2. CASE ~UNCHANGED hist
      <3> DEFINE files == card.files \ {"pcbtest"}
      <3>1. update_images(files) /\ pc = "burn" /\ pc' = "batt" /\ ~hist.renewed
        BY <1>7, <2>2 DEF try_seperate_source
      <3> DEFINE hit == {UpdateTarget[f] : f \in files \cap DOMAIN UpdateTarget}
      <3>2. PICK torn \in SUBSET hit : Burned(hit \ torn, torn)
        BY <3>1 DEF update_images
      <3>3. hist'.req = hist.req /\ hist'.asked = hist.asked /\ hist'.charger = hist.charger
        BY <3>2, BurnedType
      <3>4. hit \cap {"kernel1", "recovery-rd"} # {} => files \cap {"uimage", "recovery-rd"} # {}
        <4>1. \A f \in files \cap DOMAIN UpdateTarget :
                UpdateTarget[f] \in {"kernel1", "recovery-rd"} => f \in {"uimage", "recovery-rd"}
          BY DEF UpdateTarget
        <4> HIDE DEF files
        <4>2. QED
          BY <4>1
      <3>5. hist'.renewed = (hist.renewed \/ ((hit \ torn) \cup torn) \cap {"kernel1", "recovery-rd"} # {})
        BY <3>2 DEF Burned
      <3>6. hist'.renewed => hit \cap {"kernel1", "recovery-rd"} # {}
        BY <3>1, <3>5, Zenon
      <3>7. hist'.renewed => boottype' = "factory"
        BY <3>1, <3>4, <3>6 DEF update_images, update_type
      <3>8. boottype' \in {boottype, "factory"}
        BY <3>1 DEF update_images, update_type
      <3> HIDE DEF hit, files
      <3>9. QED
        BY <1>7, <3>1, <3>3, <3>7, <3>8 DEF try_seperate_source
    <2>3. QED
      BY <2>1, <2>2
  <1>8. CASE BattSkips
    BY <1>8 DEF BattSkips, GoOn, Shutdown
  <1>9. CASE BattChecks
    BY <1>9 DEF BattChecks, GoOn, Shutdown
  <1>10. CASE RecoveryKey
    BY <1>10 DEF RecoveryKey
  <1>11. CASE bootl_NoDisk
    BY <1>11 DEF bootl_NoDisk
  <1>12. CASE bootl_Ramdisk
    <2> DEFINE i == load_image(Ramdisk(got_boot_type), AltRamdisk(got_boot_type))
    <2>1. /\ i = "none" =>
               /\ store["recovery-rd"] = "badhdr"
               /\ got_boot_type # "factory" => store["ramdisk"] = "badhdr"
          /\ i # "none" /\ boottype = "factory" => i = "recovery-rd"
      BY DEF load_image, Loads, Ramdisk, AltRamdisk
    <2>2. got' = [got EXCEPT !.ramdisk = i] /\ pc' = IF i = "none" THEN "halt" ELSE "kernel"
      BY <1>12 DEF bootl_Ramdisk
    <2>3. got'.ramdisk = i
      BY <2>2
    <2>4. TagInv' /\ SkipInv' /\ ChargerInv'
      BY <1>12, <2>2 DEF bootl_Ramdisk
    <2>5. RequestInv'
      BY <1>12, <2>1, <2>2, <2>3 DEF bootl_Ramdisk
    <2>6. HaltsOnlyOnBadImages'
      BY <1>12, <2>1, <2>2 DEF bootl_Ramdisk
    <2>7. RenewInv' /\ LoadInv'
      BY <1>12, <2>1, <2>2, <2>3 DEF bootl_Ramdisk
    <2>8. QED
      BY <2>4, <2>5, <2>6, <2>7
  <1>13. CASE bootl_Kernel
    <2> DEFINE i == load_image(Kernel(got_boot_type), AltKernel(got_boot_type))
    <2>1. i = "none" => store["kernel0"] = "badhdr" /\ store["kernel1"] = "badhdr"
      BY DEF load_image, Loads, Kernel, AltKernel
    <2>2. CASE i = "none"
      <3>1. pc' = "halt"
        BY <1>13, <2>2 DEF bootl_Kernel
      <3>2. QED
        BY <1>13, <2>1, <2>2, <3>1 DEF bootl_Kernel
    <2>3. CASE i # "none"
      <3>1. /\ pc' \in bootm(i, got.ramdisk)
            /\ got' = [got EXCEPT !.kernel = i, !.args = got_boot_type]
        BY <1>13, <2>3 DEF bootl_Kernel
      <3>2. got'.ramdisk = got.ramdisk /\ got'.args = got_boot_type /\ got'.kernel = i
        BY <3>1
      <3> HIDE DEF i
      <3>3. pc' \in {"linux", "halt", "reset"}
        BY <3>1 DEF bootm
      <3>4. pc' = "halt" => "badbody" \in {store[i], store[got.ramdisk]}
        BY <3>1 DEF bootm
      <3>5. HaltsOnlyOnBadImages'
        BY <1>13, <2>3, <3>2, <3>4 DEF bootl_Kernel
      <3>6. TagInv' /\ SkipInv' /\ RequestInv' /\ RenewInv' /\ LoadInv' /\ ChargerInv'
        BY <1>13, <3>2, <3>3 DEF bootl_Kernel
      <3>7. QED
        BY <3>5, <3>6
    <2>4. QED
      BY <2>2, <2>3
  <1>14. QED
    BY <1>1, <1>2, <1>3, <1>4, <1>5, <1>6, <1>7, <1>8, <1>9, <1>10, <1>11, <1>12, <1>13 DEF Boot

LEMMA BootInvariant == Spec => [](TypeOK /\ Safe)
  <1>1. Init => TypeOK /\ Safe
    BY InitTypes, InitSafe
  <1>2. TypeOK /\ Safe /\ [Next]_vars => TypeOK' /\ Safe'
    <2>1. TypeOK /\ Safe /\ UNCHANGED vars => TypeOK' /\ Safe'
      BY DEF vars, TypeOK, Safe, TagInv, SkipInv, RequestInv, RenewInv, LoadInv,
             RecoverySystem, ChargerInv, HaltsOnlyOnBadImages, got_boot_type
    <2>2. QED
      BY <2>1, EnvTypes, BootStepTypes, EnvSafe, BootStepSafe DEF Next
  <1>3. QED
    BY <1>1, <1>2, PTL DEF Spec

\* A request for recovery written to RTC_INFO4 reaches the system: its command
\* line and its ramdisk are the recovery ones, whatever power cuts, suspends,
\* cards, keys and torn images come in between.
THEOREM RequestReachesSystem == Spec => []RecoveryHonoured
  <1>1. Safe => RecoveryHonoured
    BY DEF Safe, RequestInv, RecoverySystem, RecoveryHonoured
  <1>2. QED
    BY <1>1, BootInvariant, PTL

\* No boot enters the charger mode on a request that was for an earlier one.
THEOREM ChargerModeHasReason == Spec => []ChargerModeExplained
  <1>1. Safe => ChargerModeExplained
    BY DEF Safe, ChargerInv, ChargerModeExplained, Verified
  <1>2. QED
    BY <1>1, BootInvariant, PTL

\* abortboot consumes the reboot-bootloader tag: no later point of the boot,
\* on any path, still carries it.
THEOREM TagConsumed == Spec => []TagStopsOneBoot
  <1>1. Safe => TagStopsOneBoot
    BY DEF Safe, TagInv, TagStopsOneBoot, Verified
  <1>2. QED
    BY <1>1, BootInvariant, PTL

\* The machine halts only where every image load_image may fall back to has a
\* bad header, or where an image it passed could not be read to its end.
THEOREM HaltHasReason == Spec => []HaltsOnlyOnBadImages
  <1>1. Safe => HaltsOnlyOnBadImages
    BY DEF Safe
  <1>2. QED
    BY <1>1, BootInvariant, PTL

\* Only the two burns change an image, and BurnWanted keeps both from a
\* factory board whose skip buffer is set.
THEOREM MarkedResetSparesImages == Spec => NoRepeatedBurn
  <1>1. Safe /\ [Next]_vars => [store' # store => ~(cfg.factory /\ rst = "marked")]_vars
    <2> SUFFICES ASSUME Safe, Next, store' # store
                 PROVE  ~(cfg.factory /\ rst = "marked")
      BY DEF vars
    <2>1. burn \/ try_seperate_source
      BY DEF Next, Env, Boot, PowerOn, LinuxReboot, LinuxSuspend, LinuxOff, PowerCut,
             ChangeCard, BootmReset, FastbootReboot, FastbootBoot, ShellFastboot, Spl, boot_verify_type,
             abortboot, FastbootKey, BurnSkipped, BattSkips, BattChecks, RecoveryKey,
             bootl_NoDisk, bootl_Ramdisk, bootl_Kernel
    <2>2. pc = "burn" /\ BurnWanted
      BY <2>1 DEF burn, try_seperate_source
    <2>3. QED
      BY <2>2 DEF BurnWanted, Safe, SkipInv
  <1>2. QED
    BY <1>1, BootInvariant, PTL DEF Spec, NoRepeatedBurn

\* The battery check is skipped by a skip buffer only when it was this start
\* that the system marked.
THEOREM MarkedResetSkipsCheck == Spec => CheckedUnlessReset
  <1>1. Safe => [pc = "batt" /\ pc' = "recovery" /\ skip => rst = "marked"]_vars
    BY DEF Safe, SkipInv
  <1>2. QED
    BY <1>1, BootInvariant, PTL DEF CheckedUnlessReset

\* A start that wrote a recovery image reaches that recovery system or no
\* system: the boot type it set outlives the battery check and the keys, bootl
\* takes the recovery ramdisk for it, and a suspend keeps the system.
THEOREM RenewedRecoveryIsStarted == Spec => []RenewedRecoveryStarts
  <1>1. Safe => RenewedRecoveryStarts
    BY DEF Safe, RenewInv, RecoverySystem, RenewedRecoveryStarts
  <1>2. QED
    BY <1>1, BootInvariant, PTL
=============================================================================
