--------------------------- MODULE WebServerProofs ---------------------------
(***************************************************************************)
(* Theorems about what the web server's task works on.  OtaManager, for    *)
(* images, chunks, windows and partitions of any length: types, that every *)
(* failure leaves the manager free, that the device always starts, what    *)
(* the user is told, the edition and the key.  CaptivePortal with          *)
(* LogStream in it, for any descriptors, limits and scenes: the list of    *)
(* the log's pages, the DNS server and the scan.                           *)
(***************************************************************************)
EXTENDS OtaManager, CaptivePortal, FiniteSetTheorems, TLAPS

USE DEF Slots

(***************************************************************************)
(* Types, in parts that the steps change apart from each other             *)
(***************************************************************************)
SlotsTyped == chip \in Slots /\ boot \in Slots /\ running \in Slots /\ target \in Slots
AppTyped == app \in [Slots -> [img : Images \cup {Blank}, filled : Nat]]
StorageTyped == storage \in [len : Files \cup {0}, filled : SUBSET (1 .. StorageSize)]
FlagsTyped ==
  /\ inProgress \in BOOLEAN /\ storageUpdate \in BOOLEAN /\ handle \in BOOLEAN
  /\ excused \in BOOLEAN
CountsTyped ==
  /\ written \in Nat /\ remaining \in Nat /\ pieces \in Nat
  /\ window \in 0 .. Window
  /\ edition \in Editions \cup {"none"}
JobTyped ==
  /\ at \in {"idle", "begin", "firmware", "second", "storage", "restart"}
  /\ job \in [kind : Kinds, img : Images \cup {Blank}, files : Files \cup {0}]
  /\ answer \in {"none", "ok", "failed"}
BoundsTyped == uploads \in 0 .. MaxUploads /\ restarts \in 0 .. MaxRestarts
KeyRange == 0 .. MaxUploads + MaxRestarts + 1
KeysTyped ==
  /\ apiKey \in KeyRange /\ storedKey \in KeyRange /\ shown \in KeyRange
  /\ keyLost \in BOOLEAN

LEMMA TypeParts ==
  TypeOK <=> /\ SlotsTyped /\ AppTyped /\ StorageTyped /\ FlagsTyped
             /\ CountsTyped /\ JobTyped /\ BoundsTyped /\ KeysTyped
  BY Zenon DEF TypeOK, SlotsTyped, AppTyped, StorageTyped, FlagsTyped, CountsTyped,
               JobTyped, BoundsTyped, KeysTyped, KeyRange

LEMMA PartsTyped ==
  ASSUME SlotsTyped', AppTyped', StorageTyped', FlagsTyped', CountsTyped', JobTyped',
         BoundsTyped', KeysTyped'
  PROVE  TypeOK'
  BY Zenon DEF TypeOK, SlotsTyped, AppTyped, StorageTyped, FlagsTyped, CountsTyped,
               JobTyped, BoundsTyped, KeysTyped, KeyRange

\* The numbers among the constants, without the images.
LEMMA Numbers ==
  /\ HeaderLen \in Nat \ {0} /\ Window \in Nat \ {0} /\ Buffer \in Nat /\ Window <= Buffer
  /\ StorageSize \in Nat /\ MaxUploads \in Nat /\ MaxRestarts \in Nat
  /\ Files \subseteq Nat \ {0}
  BY OtaAssumption, Zenon DEF OtaAssumption

LEMMA InitTyped == Init => TypeOK
<1> SUFFICES ASSUME Init PROVE TypeOK
  OBVIOUS
<1>1. PICK i \in Images, f \in Files :
        /\ i.sound /\ Marked(i) /\ f <= StorageSize
        /\ app = [s \in Slots |-> IF s = 1 THEN [img |-> i, filled |-> i.len] ELSE Erased]
        /\ storage = Whole(f)
  BY Zenon DEF Init
<1>2. /\ chip \in Slots /\ boot = 1 /\ running = 1 /\ target = 1
      /\ inProgress = FALSE /\ storageUpdate = FALSE /\ handle = FALSE /\ excused = FALSE
      /\ written = 0 /\ window = 0 /\ edition = "none" /\ remaining = 0 /\ pieces = 0
      /\ uploads = 0 /\ restarts = 0
      /\ apiKey = 0 /\ storedKey = 0 /\ shown = 0 /\ keyLost = FALSE
  BY Zenon DEF Init
<1>3. SlotsTyped /\ FlagsTyped /\ CountsTyped /\ BoundsTyped /\ KeysTyped
  <2>1. SlotsTyped
    BY <1>2 DEF SlotsTyped
  <2>2. FlagsTyped
    BY <1>2 DEF FlagsTyped
  <2>3. CountsTyped
    BY <1>2, Numbers DEF CountsTyped
  <2>4. BoundsTyped /\ KeysTyped
    <3>1. 0 \in 0 .. MaxUploads /\ 0 \in 0 .. MaxRestarts /\ 0 \in KeyRange
      BY Numbers DEF KeyRange
    <3>2. QED BY <1>2, <3>1 DEF BoundsTyped, KeysTyped
  <2>5. QED BY <2>1, <2>2, <2>3, <2>4
<1>4. JobTyped
  BY DEF Init, JobTyped, NoJob, Kinds
<1>5. AppTyped
  BY <1>1, OtaAssumption DEF AppTyped, Erased, OtaAssumption, Image
<1>6. StorageTyped
  BY <1>1, OtaAssumption DEF StorageTyped, Whole, OtaAssumption
<1>7. QED BY <1>3, <1>4, <1>5, <1>6, TypeParts

LEMMA NextSlotTyped == SlotsTyped => NextUpdatePartition \in Slots
  BY DEF SlotsTyped, NextUpdatePartition

LEMMA ErasedTyped ==
  ASSUME AppTyped, NEW s \in Slots
  PROVE  [app EXCEPT ![s] = Erased] \in [Slots -> [img : Images \cup {Blank}, filled : Nat]]
  BY DEF AppTyped, Erased

LEMMA HaveKeyTyped ==
  ASSUME KeysTyped, BoundsTyped, HaveKey, shown' \in {shown, apiKey'}
  PROVE  KeysTyped'
<1>1. NewKey \in KeyRange
  BY Numbers DEF BoundsTyped, NewKey, KeyRange
<1>2. QED BY <1>1, Zenon DEF KeysTyped, HaveKey, KeyUnreadable, GenerateKey

\* A restart leaves the flash and the request, and resets the rest.
LEMMA JobSized ==
  ASSUME TypeOK
  PROVE  job.img.len \in Nat /\ job.img.edition \in Editions \cup {"none"} /\ job.files \in Nat
<1>1. job.img \in Images \cup {Blank} /\ job.files \in Files \cup {0}
  BY TypeParts DEF JobTyped
<1>2. Images \subseteq Image
  BY OtaAssumption, Zenon DEF OtaAssumption
<1>3. job.files \in Nat
  <2>1. \A f \in Files : f \in Nat
    BY Numbers
  <2>2. QED BY <1>1, <2>1
<1>4. CASE job.img \in Images
  <2>1. job.img \in Image
    BY <1>2, <1>4
  <2>2. QED BY <2>1, <1>3 DEF Image
<1>5. CASE job.img = Blank
  BY <1>5, <1>3 DEF Blank
<1>6. QED BY <1>1, <1>4, <1>5

LEMMA RebootTyped == ASSUME TypeOK, Reboot, restarts' \in 0 .. MaxRestarts PROVE TypeOK'
<1>1. SlotsTyped'
  BY TypeParts DEF SlotsTyped, Reboot, Bootable, flash
<1>2. FlagsTyped' /\ CountsTyped'
  <2>1. FlagsTyped'
    BY TypeParts DEF FlagsTyped, Reboot
  <2>2. CountsTyped'
    BY Numbers DEF CountsTyped, Reboot
  <2>3. QED BY <2>1, <2>2
<1>3. AppTyped' /\ StorageTyped'
  BY TypeParts, Zenon DEF AppTyped, StorageTyped, Reboot, flash
<1>4. JobTyped' /\ BoundsTyped'
  BY TypeParts DEF JobTyped, BoundsTyped, Reboot, request
<1>5. KeysTyped'
  BY TypeParts, Numbers DEF KeysTyped, KeyRange, Reboot
<1>6. QED BY <1>1, <1>2, <1>3, <1>4, <1>5, PartsTyped

LEMMA RequestTyped ==
  ASSUME TypeOK, NEW k \in Kinds, NEW i \in Images \cup {Blank}, NEW f \in Files \cup {0},
         Request(k, i, f)
  PROVE  TypeOK'
<1>1. SlotsTyped' /\ AppTyped' /\ StorageTyped' /\ FlagsTyped' /\ CountsTyped'
  BY TypeParts, Zenon DEF Request, flash, mgr, SlotsTyped, AppTyped, StorageTyped, FlagsTyped,
                          CountsTyped
<1>2. JobTyped'
  BY TypeParts DEF Request, JobTyped, Fails
<1>3. BoundsTyped'
  BY TypeParts, Numbers DEF Request, BoundsTyped
<1>4. KeysTyped'
  BY TypeParts, HaveKeyTyped, Zenon DEF Request
<1>5. QED BY <1>1, <1>2, <1>3, <1>4, PartsTyped

\* The steps that leave flash as it is.
Quiet == FirmwareFails \/ FirmwareRefused \/ StorageFails \/ EndStorage \/ RefuseFirmware

LEMMA ScanTyped ==
  ASSUME TypeOK, NEW n \in Chunks, Scan(n)
  PROVE  edition' \in Editions \cup {"none"} /\ window' \in 0 .. Window
<1>1. n \in Nat /\ Smaller(n, Window) \in 0 .. Window
  BY TypeParts, Numbers DEF Chunks, Smaller, CountsTyped
<1>2. job.img.edition \in Editions \cup {"none"}
  BY JobSized
<1>3. QED BY <1>1, <1>2, TypeParts, Zenon DEF Scan, CountsTyped

LEMMA QuietTyped == ASSUME TypeOK, Quiet PROVE TypeOK'
<1>1. SlotsTyped' /\ AppTyped' /\ StorageTyped'
  BY TypeParts, Zenon DEF Quiet, FirmwareFails, FirmwareRefused, StorageFails, EndStorage,
     RefuseFirmware, SlotsTyped, AppTyped, StorageTyped, flash, mgr
<1>2. FlagsTyped'
  BY TypeParts, Zenon DEF Quiet, FirmwareFails, FirmwareRefused, StorageFails, EndStorage,
     RefuseFirmware, FlagsTyped, Cleanup, AbortOta, mgr
<1>3. CountsTyped'
  <2>1. CASE FirmwareFails
    <3>1. edition' \in Editions \cup {"none"} /\ window' \in 0 .. Window
      BY <2>1, ScanTyped, TypeParts, Zenon DEF FirmwareFails, CountsTyped
    <3>2. QED BY <2>1, <3>1, TypeParts DEF FirmwareFails, CountsTyped
  <2>2. CASE ~FirmwareFails
    BY <2>2, TypeParts, Zenon DEF Quiet, FirmwareRefused, StorageFails, EndStorage,
       RefuseFirmware, CountsTyped, mgr
  <2>3. QED BY <2>1, <2>2
<1>4. JobTyped'
  BY TypeParts DEF Quiet, FirmwareFails, FirmwareRefused, StorageFails, EndStorage,
     RefuseFirmware, JobTyped, Fails, request
<1>5. BoundsTyped' /\ KeysTyped'
  BY TypeParts, Zenon DEF Quiet, FirmwareFails, FirmwareRefused, StorageFails, EndStorage,
     RefuseFirmware, BoundsTyped, KeysTyped, request, keyvars
<1>6. QED BY <1>1, <1>2, <1>3, <1>4, <1>5, PartsTyped

\* The steps that begin a part, successfully or not.
Begins == StartFirmware \/ FirmwareNotStarted \/ StartStorage \/ StorageNotStarted

LEMMA BeginsTyped == ASSUME TypeOK, Begins PROVE TypeOK'
<1>1. SlotsTyped'
  BY TypeParts, NextSlotTyped, Zenon DEF Begins, StartFirmware, FirmwareNotStarted, StartStorage,
     StorageNotStarted, BeginOta, BeginOtaFails, BeginStorage, BeginStorageFails, SlotsTyped, mgr
<1>2. AppTyped'
  BY TypeParts, NextSlotTyped, ErasedTyped, Zenon DEF Begins, StartFirmware, FirmwareNotStarted,
     StartStorage, StorageNotStarted, BeginOta, BeginOtaFails, BeginStorage, BeginStorageFails,
     AppTyped
<1>3. StorageTyped'
  <2>1. NoFiles \in [len : Files \cup {0}, filled : SUBSET (1 .. StorageSize)]
    BY DEF NoFiles
  <2>2. QED
    BY <2>1, TypeParts, Zenon DEF Begins, StartFirmware, FirmwareNotStarted, StartStorage,
       StorageNotStarted, BeginOta, BeginOtaFails, BeginStorage, BeginStorageFails, StorageTyped
<1>4. FlagsTyped'
  BY TypeParts, Zenon DEF Begins, StartFirmware, FirmwareNotStarted, StartStorage,
     StorageNotStarted, BeginOta, BeginOtaFails, BeginStorage, BeginStorageFails, FlagsTyped, mgr
<1>5. CountsTyped'
  <2>1. job.img.len \in Nat /\ job.files \in Nat
    BY JobSized
  <2>2. 0 \in Nat /\ 0 \in 0 .. Window
    BY Numbers
  <2>3. QED
    BY <2>1, <2>2, TypeParts, Zenon DEF Begins, StartFirmware, FirmwareNotStarted, StartStorage,
       StorageNotStarted, BeginOta, BeginOtaFails, BeginStorage, BeginStorageFails, CountsTyped, mgr
<1>6. JobTyped'
  BY TypeParts DEF Begins, StartFirmware, FirmwareNotStarted, StartStorage, StorageNotStarted,
     JobTyped, Fails, request
<1>7. BoundsTyped' /\ KeysTyped'
  BY TypeParts, Zenon DEF Begins, StartFirmware, FirmwareNotStarted, StartStorage,
     StorageNotStarted, BoundsTyped, KeysTyped, request, keyvars
<1>8. QED BY <1>1, <1>2, <1>3, <1>4, <1>5, <1>6, <1>7, PartsTyped

\* The steps that write flash.
LEMMA ReceiveFirmwareTyped == ASSUME TypeOK, ReceiveFirmware PROVE TypeOK'
<1>1. PICK n \in Chunks :
        /\ Scan(n)
        /\ app' = [app EXCEPT ![target] = [img |-> job.img, filled |-> written + n]]
        /\ written' = written + n /\ remaining' = remaining - n
  BY Zenon DEF ReceiveFirmware
<1>2. n \in Nat /\ n <= remaining
  BY TypeParts, Numbers DEF Chunks, Smaller, CountsTyped
<1>3. SlotsTyped' /\ StorageTyped' /\ BoundsTyped' /\ KeysTyped'
  BY TypeParts, Zenon DEF ReceiveFirmware, SlotsTyped, StorageTyped, BoundsTyped, KeysTyped,
                          request, keyvars
<1>4. JobTyped'
  BY TypeParts, Zenon DEF ReceiveFirmware, JobTyped, request
<1>5. AppTyped'
  <2>1. [img |-> job.img, filled |-> written + n] \in [img : Images \cup {Blank}, filled : Nat]
    BY <1>2, TypeParts DEF JobTyped, CountsTyped
  <2>2. QED BY <1>1, <2>1, TypeParts, Zenon DEF AppTyped
<1>6. CountsTyped'
  <2>1. edition' \in Editions \cup {"none"} /\ window' \in 0 .. Window
    BY <1>1, ScanTyped
  <2>2. pieces' \in {pieces, pieces + 1}
    BY DEF ReceiveFirmware
  <2>3. QED BY <1>1, <1>2, <2>1, <2>2, TypeParts DEF CountsTyped
<1>7. FlagsTyped'
  BY TypeParts DEF ReceiveFirmware, FlagsTyped
<1>8. QED BY <1>3, <1>4, <1>5, <1>6, <1>7, PartsTyped

LEMMA ReceiveStorageTyped == ASSUME TypeOK, ReceiveStorage PROVE TypeOK'
<1>1. PICK n \in Chunks :
        /\ written + n <= StorageSize
        /\ storage' = [len |-> job.files, filled |-> storage.filled \cup (written + 1 .. written + n)]
        /\ written' = written + n /\ remaining' = remaining - n
  BY Zenon DEF ReceiveStorage
<1>2. n \in Nat /\ n <= remaining
  BY TypeParts, Numbers DEF Chunks, Smaller, CountsTyped
<1>3. SlotsTyped' /\ AppTyped' /\ BoundsTyped' /\ KeysTyped' /\ FlagsTyped'
  BY TypeParts, Zenon DEF ReceiveStorage, SlotsTyped, AppTyped, BoundsTyped, KeysTyped,
                          FlagsTyped, request, keyvars
<1>4. JobTyped'
  BY TypeParts, Zenon DEF ReceiveStorage, JobTyped, request
<1>5. CountsTyped'
  BY <1>1, <1>2, TypeParts DEF ReceiveStorage, CountsTyped
<1>6. StorageTyped'
  <2>1. written + 1 .. written + n \subseteq 1 .. StorageSize
    BY <1>1, <1>2, TypeParts, Numbers DEF CountsTyped
  <2>2. storage.filled \subseteq 1 .. StorageSize /\ job.files \in Files \cup {0}
    BY TypeParts DEF StorageTyped, JobTyped
  <2>3. QED BY <1>1, <2>1, <2>2 DEF StorageTyped
<1>7. QED BY <1>3, <1>4, <1>5, <1>6, PartsTyped

LEMMA FirmwareAcceptedTyped == ASSUME TypeOK, FirmwareAccepted PROVE TypeOK'
<1>1. SlotsTyped' /\ AppTyped' /\ StorageTyped' /\ BoundsTyped' /\ KeysTyped'
  BY TypeParts, Zenon DEF FirmwareAccepted, SlotsTyped, AppTyped, StorageTyped, BoundsTyped,
                          KeysTyped, request, keyvars
<1>2. FlagsTyped' /\ CountsTyped'
  BY TypeParts, Zenon DEF FirmwareAccepted, FlagsTyped, CountsTyped
<1>3. JobTyped'
  BY TypeParts DEF FirmwareAccepted, JobTyped, request
<1>4. QED BY <1>1, <1>2, <1>3, PartsTyped

LEMMA ShowKeyTyped == ASSUME TypeOK, ShowKey PROVE TypeOK'
<1>1. SlotsTyped' /\ AppTyped' /\ StorageTyped'
  BY TypeParts, Zenon DEF ShowKey, SlotsTyped, AppTyped, StorageTyped, flash, mgr
<1>2. FlagsTyped' /\ CountsTyped'
  BY TypeParts, Zenon DEF ShowKey, FlagsTyped, CountsTyped, mgr
<1>3. JobTyped' /\ BoundsTyped'
  BY TypeParts, Zenon DEF ShowKey, JobTyped, BoundsTyped, request
<1>4. KeysTyped'
  BY TypeParts, HaveKeyTyped, Zenon DEF ShowKey
<1>5. QED BY <1>1, <1>2, <1>3, <1>4, PartsTyped

LEMMA StutterTyped == ASSUME TypeOK, UNCHANGED vars PROVE TypeOK'
<1>1. /\ UNCHANGED <<chip, app, storage, boot, running, inProgress, storageUpdate, target, handle>>
      /\ UNCHANGED <<written, window, edition, at, remaining, answer, apiKey, storedKey, shown>>
      /\ UNCHANGED <<keyLost, job, uploads, restarts, pieces, excused>>
  BY DEF vars, flash, mgr, keyvars, request
<1>2. SlotsTyped' /\ AppTyped' /\ StorageTyped'
  BY <1>1, TypeParts DEF SlotsTyped, AppTyped, StorageTyped
<1>3. FlagsTyped' /\ CountsTyped'
  BY <1>1, TypeParts DEF FlagsTyped, CountsTyped
<1>4. JobTyped' /\ BoundsTyped' /\ KeysTyped'
  BY <1>1, TypeParts, Zenon DEF JobTyped, BoundsTyped, KeysTyped, KeyRange
<1> QED BY <1>2, <1>3, <1>4, PartsTyped

LEMMA NextTyped == ASSUME TypeOK, [Next]_vars PROVE TypeOK'
<1>1. CASE ShowKey
  BY <1>1, ShowKeyTyped
<1>2. CASE RequestFirmware \/ RequestStorage \/ RequestBundle
  <2>1. \E k \in Kinds, i \in Images \cup {Blank}, f \in Files \cup {0} : Request(k, i, f)
    BY <1>2 DEF RequestFirmware, RequestStorage, RequestBundle, Kinds
  <2>2. QED BY <2>1, RequestTyped
<1>3. CASE Quiet
  BY <1>3, QuietTyped
<1>4. CASE Begins
  BY <1>4, BeginsTyped
<1>5. CASE ReceiveFirmware
  BY <1>5, ReceiveFirmwareTyped
<1>6. CASE ReceiveStorage
  BY <1>6, ReceiveStorageTyped
<1>7. CASE FirmwareAccepted
  BY <1>7, FirmwareAcceptedTyped
<1>8. CASE Restart \/ PowerFails
  <2>1. restarts' \in 0 .. MaxRestarts
    BY <1>8, TypeParts, Numbers DEF Restart, PowerFails, BoundsTyped
  <2>2. QED BY <1>8, <2>1, RebootTyped DEF Restart, PowerFails
<1>9. CASE UNCHANGED vars
  BY <1>9, StutterTyped
<1>10. QED
  BY <1>1, <1>2, <1>3, <1>4, <1>5, <1>6, <1>7, <1>8, <1>9 DEF Next, Quiet, Begins

\* Every state of the manager, its handlers and the flash is well-typed, whatever lengths
\* images, chunks, window and partition have.
THEOREM OtaTypeCorrect == Spec => []TypeOK
  BY InitTyped, NextTyped, PTL DEF Spec

(***************************************************************************)
(* The manager is free between uploads                                     *)
(***************************************************************************)
ReadyInv ==
  /\ at \in {"idle", "begin", "second", "restart"} => ~inProgress /\ ~storageUpdate /\ ~handle
  /\ at = "firmware" => inProgress /\ ~storageUpdate /\ handle
  /\ at = "storage" => inProgress /\ storageUpdate /\ ~handle

LEMMA ReadyNext == ASSUME TypeOK, ReadyInv, [Next]_vars PROVE ReadyInv'
<1>1. FlagsTyped /\ JobTyped
  BY TypeParts
<1>2. CASE ShowKey \/ RefuseFirmware \/ UNCHANGED vars
  BY <1>1, <1>2 DEF ShowKey, RefuseFirmware, Fails, mgr, vars, ReadyInv
<1>3. CASE RequestFirmware \/ RequestStorage \/ RequestBundle
  BY <1>3 DEF RequestFirmware, RequestStorage, RequestBundle, Request, Fails, mgr, ReadyInv
<1>4. CASE Begins
  BY <1>4 DEF Begins, StartFirmware, FirmwareNotStarted, StartStorage, StorageNotStarted, AtStorage,
     BeginOta, BeginOtaFails, BeginStorage, BeginStorageFails, Fails, mgr, ReadyInv
<1>5. CASE ReceiveFirmware \/ ReceiveStorage
  BY <1>5 DEF ReceiveFirmware, ReceiveStorage, ReadyInv
<1>6. CASE FirmwareFails \/ StorageFails
  BY <1>6 DEF FirmwareFails, StorageFails, Cleanup, AbortOta, Fails, ReadyInv
<1>7. CASE FirmwareRefused \/ FirmwareAccepted \/ EndStorage
  BY <1>7 DEF FirmwareRefused, FirmwareAccepted, EndStorage, Fails, ReadyInv
<1>8. CASE Restart \/ PowerFails
  BY <1>8 DEF Restart, PowerFails, Reboot, ReadyInv
<1>9. QED
  BY <1>2, <1>3, <1>4, <1>5, <1>6, <1>7, <1>8 DEF Next, Begins

\* Whichever step of an upload fails, neither the flag nor the handle that would refuse or
\* leak the next one is left behind.
THEOREM OtaReady == Spec => []ReadyWhenIdle
<1>1. Init => ReadyInv
  BY DEF Init, ReadyInv
<1>2. ReadyInv => ReadyWhenIdle
  BY DEF ReadyInv, ReadyWhenIdle
<1>3. QED BY <1>1, <1>2, ReadyNext, OtaTypeCorrect, PTL DEF Spec

(***************************************************************************)
(* The device always starts                                                *)
(***************************************************************************)
\* The running slot is sound and never the one written, so it is there to fall back to;
\* chips with one slot never write any.
BootInv ==
  /\ Sound(running)
  /\ running <= chip /\ boot <= chip
  /\ at = "firmware" => chip = 2 /\ target # running

LEMMA BootInit == Init => BootInv
<1> SUFFICES ASSUME Init PROVE BootInv
  OBVIOUS
<1>1. PICK i \in Images :
        /\ i.sound
        /\ app = [s \in Slots |-> IF s = 1 THEN [img |-> i, filled |-> i.len] ELSE Erased]
  BY Zenon DEF Init
<1>2. chip \in Slots /\ boot = 1 /\ running = 1 /\ at = "idle"
  BY Zenon DEF Init
<1>3. QED BY <1>1, <1>2 DEF BootInv, Sound

\* What the bootloader would take.
bootvars == <<chip, app, boot, running>>

LEMMA BootStutter ==
  ASSUME BootInv, UNCHANGED bootvars, at' = "firmware" => at = "firmware" /\ target' = target
  PROVE  BootInv'
  BY DEF BootInv, Sound, bootvars

\* Writing to a slot that does not run.
LEMMA BootWrites ==
  ASSUME TypeOK, BootInv, NEW s \in Slots, s # running, NEW r, app' = [app EXCEPT ![s] = r],
         UNCHANGED <<chip, boot, running>>, at' = "firmware" => chip = 2 /\ target' # running
  PROVE  BootInv'
<1>1. app'[running] = app[running]
  BY TypeParts DEF AppTyped, SlotsTyped
<1>2. QED BY <1>1 DEF BootInv, Sound

LEMMA BootReboots == ASSUME TypeOK, BootInv, Reboot PROVE BootInv'
<1>1. Bootable \in {running, boot} /\ Sound(Bootable)
  BY TypeParts DEF BootInv, Bootable, SlotsTyped
<1>2. running' = Bootable /\ app' = app /\ chip' = chip /\ boot' = boot /\ at' = "idle"
  BY DEF Reboot, flash
<1>3. QED BY <1>1, <1>2 DEF BootInv, Sound

LEMMA BootNext == ASSUME TypeOK, BootInv, [Next]_vars PROVE BootInv'
<1>1. SlotsTyped /\ AppTyped
  BY TypeParts
<1>2. Supported => chip = 2 /\ NextUpdatePartition \in Slots /\ NextUpdatePartition # running
  BY <1>1 DEF Supported, NextUpdatePartition, SlotsTyped
<1>3. CASE StartFirmware
  BY <1>2, <1>3, BootWrites DEF StartFirmware, BeginOta
<1>4. CASE FirmwareNotStarted
  <2>1. CASE app' = app
    BY <1>4, <2>1, BootStutter DEF FirmwareNotStarted, BeginOtaFails, Fails, bootvars
  <2>2. CASE app' # app
    BY <1>2, <1>4, <2>2, BootWrites DEF FirmwareNotStarted, BeginOtaFails, Fails
  <2>3. QED BY <2>1, <2>2
<1>5. CASE ReceiveFirmware
  <2>1. PICK n \in Chunks : app' = [app EXCEPT ![target] = [img |-> job.img, filled |-> written + n]]
    BY <1>5, Zenon DEF ReceiveFirmware
  <2>2. target \in Slots /\ target # running /\ chip = 2
    BY <1>1, <1>5 DEF ReceiveFirmware, BootInv, SlotsTyped
  <2>3. UNCHANGED <<chip, boot, running, target>>
    BY <1>5, Zenon DEF ReceiveFirmware
  <2>4. QED BY <2>1, <2>2, <2>3, BootWrites
<1>6. CASE FirmwareAccepted
  BY <1>1, <1>6 DEF FirmwareAccepted, BootInv, Sound, SlotsTyped
<1>7. CASE Restart \/ PowerFails
  BY <1>7, BootReboots DEF Restart, PowerFails
<1>8. CASE ShowKey \/ UNCHANGED vars
  BY <1>8, BootStutter DEF ShowKey, vars, flash, mgr, bootvars
<1>9. CASE RequestFirmware \/ RequestStorage \/ RequestBundle
  BY <1>9, BootStutter DEF RequestFirmware, RequestStorage, RequestBundle, Request, Fails, flash,
     bootvars
<1>10. CASE StartStorage \/ StorageNotStarted \/ ReceiveStorage
  BY <1>10, BootStutter DEF StartStorage, StorageNotStarted, ReceiveStorage, BeginStorage,
     BeginStorageFails, Fails, bootvars
<1>11. CASE Quiet
  BY <1>11, BootStutter DEF Quiet, FirmwareFails, FirmwareRefused, StorageFails, EndStorage,
     RefuseFirmware, Fails, flash, bootvars
<1>12. QED
  BY <1>3, <1>4, <1>5, <1>6, <1>7, <1>8, <1>9, <1>10, <1>11 DEF Next, Quiet

\* Power may fail at any step of any upload: the bootloader finds a sound image.
THEOREM OtaAlwaysBoots == Spec => []AlwaysBoots
<1>1. TypeOK /\ BootInv => AlwaysBoots
  BY TypeParts DEF BootInv, AlwaysBoots, SlotsTyped
<1>2. QED BY <1>1, BootInit, BootNext, OtaTypeCorrect, PTL DEF Spec

(***************************************************************************)
(* What the user is told                                                   *)
(***************************************************************************)
\* The firmware sent is whole in the slot that is selected.
FirmwareIn == app[boot].img = job.img /\ Sound(boot)

JobInv ==
  /\ job.kind \in WithFirmware => job.img \in Images
  /\ job.kind \in {"storage", "bundle"} => job.files # 0
  /\ at = "firmware" => job.kind \in WithFirmware
  /\ at = "second" => job.kind = "bundle"
  /\ at = "storage" => job.kind \in {"storage", "bundle"}
  /\ at = "restart" => job.kind \in WithFirmware

\* How far the part that is being received has come.
PartInv ==
  /\ at = "firmware" =>
       /\ written + remaining = job.img.len
       /\ app[target].filled = written
       /\ written # 0 => app[target].img = job.img
  /\ at = "storage" =>
       /\ written + remaining = job.files
       /\ storage.filled = 1 .. written
       /\ written # 0 => storage.len = job.files

\* What of the answer holds already.
AnswerInv ==
  /\ answer = "ok" => at \in {"idle", "restart"}
  /\ at \in {"second", "storage", "restart"} /\ job.kind # "storage" => FirmwareIn
  /\ KeepsItsWord

WordInv == JobInv /\ PartInv /\ AnswerInv

LEMMA JobLens ==
  ASSUME TypeOK, JobInv
  PROVE  /\ job.img.len \in Nat /\ job.files \in Nat
         /\ job.kind \in WithFirmware => job.img.len > 0
<1>1. \A i \in Images : i.len > 0
  BY OtaAssumption, Zenon DEF OtaAssumption
<1>2. QED BY <1>1, JobSized, Zenon DEF JobInv

LEMMA WordInit == Init => WordInv
<1> SUFFICES ASSUME Init PROVE WordInv
  OBVIOUS
<1>1. at = "idle" /\ answer = "none" /\ job.kind = "none"
  BY DEF Init, NoJob
<1>2. QED BY <1>1 DEF WithFirmware, WordInv, JobInv, PartInv, AnswerInv, KeepsItsWord

\* A failure promises nothing.
LEMMA WordFails == ASSUME WordInv, Fails, job' = job PROVE WordInv'
  BY DEF Fails, WordInv, JobInv, PartInv, AnswerInv, KeepsItsWord

LEMMA WordStutter ==
  ASSUME WordInv, UNCHANGED <<app, storage, boot, running, written, target, at, job, remaining, answer>>
  PROVE  WordInv'
  BY Zenon DEF WordInv, JobInv, PartInv, AnswerInv, KeepsItsWord, FirmwareIn, Sound

LEMMA WordRequest ==
  ASSUME WordInv, RequestFirmware \/ RequestStorage \/ RequestBundle
  PROVE  WordInv'
<1>1. /\ at' \in {"begin", "idle"} /\ answer' # "ok"
      /\ job'.kind \in WithFirmware => job'.img \in Images
      /\ job'.kind \in {"storage", "bundle"} => job'.files # 0
  BY Numbers DEF RequestFirmware, RequestStorage, RequestBundle, Request, Fails, WithFirmware
<1>2. QED BY <1>1 DEF WordInv, JobInv, PartInv, AnswerInv, KeepsItsWord

LEMMA WordReboots == ASSUME WordInv, Reboot PROVE WordInv'
<1>1. UNCHANGED <<app, boot, storage, job, answer>> /\ at' = "idle" /\ running' = Bootable
  BY DEF Reboot, flash, request
<1>2. Sound(boot) => Bootable = boot
  BY DEF Bootable
<1>3. Sound(boot)' <=> Sound(boot)
  BY <1>1 DEF Sound
<1>4. QED BY <1>1, <1>2, <1>3 DEF WordInv, JobInv, PartInv, AnswerInv, KeepsItsWord

LEMMA WordBegins == ASSUME TypeOK, WordInv, Begins PROVE WordInv'
<1>1. CASE StartFirmware
  <2>1. /\ at' = "firmware" /\ remaining' = job.img.len /\ written' = 0 /\ job' = job
        /\ app' = [app EXCEPT ![NextUpdatePartition] = Erased] /\ target' = NextUpdatePartition
        /\ answer' = answer /\ at = "begin" /\ job.kind \in WithFirmware
    BY <1>1 DEF StartFirmware, BeginOta, request
  <2>2. app'[target'] = Erased
    BY <2>1, TypeParts, NextSlotTyped DEF AppTyped
  <2>3. PartInv'
    BY <2>1, <2>2, JobSized DEF PartInv, Erased
  <2>4. JobInv' /\ AnswerInv'
    BY <2>1 DEF WordInv, JobInv, AnswerInv, KeepsItsWord
  <2>5. QED BY <2>3, <2>4 DEF WordInv
<1>2. CASE StartStorage
  <2>1. /\ at' = "storage" /\ remaining' = job.files /\ written' = 0 /\ job' = job
        /\ storage' = NoFiles /\ UNCHANGED <<app, boot, answer>>
        /\ at = "second" \/ (at = "begin" /\ job.kind = "storage")
    BY <1>2 DEF StartStorage, AtStorage, BeginStorage, request
  <2>2. PartInv'
    BY <2>1, JobSized DEF PartInv, NoFiles
  <2>3. JobInv' /\ AnswerInv'
    BY <2>1 DEF WordInv, JobInv, AnswerInv, KeepsItsWord, FirmwareIn, Sound
  <2>4. QED BY <2>2, <2>3 DEF WordInv
<1>3. CASE FirmwareNotStarted \/ StorageNotStarted
  BY <1>3, WordFails DEF FirmwareNotStarted, StorageNotStarted, request
<1>4. QED BY <1>1, <1>2, <1>3 DEF Begins

LEMMA WordReceives == ASSUME TypeOK, WordInv, ReceiveFirmware \/ ReceiveStorage PROVE WordInv'
<1>1. CASE ReceiveFirmware
  <2>1. PICK n \in Chunks :
          /\ app' = [app EXCEPT ![target] = [img |-> job.img, filled |-> written + n]]
          /\ written' = written + n /\ remaining' = remaining - n
    BY <1>1, Zenon DEF ReceiveFirmware
  <2>2. n \in Nat /\ n <= remaining /\ written \in Nat /\ remaining \in Nat
    BY TypeParts, Numbers DEF Chunks, Smaller, CountsTyped
  <2>3. at = "firmware" /\ at' = at /\ job' = job /\ answer' = answer /\ target' = target
    BY <1>1 DEF ReceiveFirmware, request
  <2>4. app'[target'] = [img |-> job.img, filled |-> written + n]
    BY <2>1, <2>3, TypeParts DEF AppTyped, SlotsTyped
  <2>5. PartInv'
    BY <2>1, <2>2, <2>3, <2>4, JobSized DEF WordInv, PartInv
  <2>6. JobInv' /\ AnswerInv'
    BY <2>3 DEF WordInv, JobInv, AnswerInv, KeepsItsWord
  <2>7. QED BY <2>5, <2>6 DEF WordInv
<1>2. CASE ReceiveStorage
  <2>1. PICK n \in Chunks :
          /\ storage' = [len |-> job.files, filled |-> storage.filled \cup (written + 1 .. written + n)]
          /\ written' = written + n /\ remaining' = remaining - n
    BY <1>2, Zenon DEF ReceiveStorage
  <2>2. n \in Nat /\ n <= remaining /\ written \in Nat /\ remaining \in Nat
    BY TypeParts, Numbers DEF Chunks, Smaller, CountsTyped
  <2>3. /\ at = "storage" /\ at' = at /\ job' = job /\ answer' = answer
        /\ UNCHANGED <<app, boot>>
    BY <1>2 DEF ReceiveStorage, request
  <2>4. storage'.filled = 1 .. written'
    <3>1. storage.filled = 1 .. written
      BY <2>3 DEF WordInv, PartInv
    <3>2. 1 .. written + n = (1 .. written) \cup (written + 1 .. written + n)
      BY <2>2
    <3>3. QED BY <2>1, <3>1, <3>2
  <2>5. PartInv'
    BY <2>1, <2>2, <2>3, <2>4, JobSized DEF WordInv, PartInv
  <2>6. JobInv' /\ AnswerInv'
    BY <2>3 DEF WordInv, JobInv, AnswerInv, KeepsItsWord, FirmwareIn, Sound
  <2>7. QED BY <2>5, <2>6 DEF WordInv
<1>3. QED BY <1>1, <1>2

LEMMA WordEnds == ASSUME TypeOK, WordInv, FirmwareAccepted \/ EndStorage PROVE WordInv'
<1>1. CASE FirmwareAccepted
  <2>1. /\ at = "firmware" /\ remaining = 0 /\ boot' = target /\ job' = job /\ Sound(target)
        /\ UNCHANGED <<app, storage>>
        /\ IF job.kind = "bundle" THEN at' = "second" /\ answer' = answer
                                  ELSE at' = "restart" /\ answer' = "ok"
    BY <1>1 DEF FirmwareAccepted, request
  <2>2. written # 0 /\ job.kind \in WithFirmware
    BY <2>1, JobLens, TypeParts DEF WordInv, PartInv, JobInv, CountsTyped
  <2>3. FirmwareIn'
    BY <2>1, <2>2 DEF WordInv, PartInv, FirmwareIn, Sound
  <2>4. JobInv' /\ PartInv'
    BY <2>1, <2>2 DEF WordInv, JobInv, PartInv
  <2>5. AnswerInv'
    BY <2>1, <2>2, <2>3 DEF WordInv, AnswerInv, KeepsItsWord, FirmwareIn, WithFirmware
  <2>6. QED BY <2>4, <2>5 DEF WordInv
<1>2. CASE EndStorage
  <2>1. /\ at = "storage" /\ remaining = 0 /\ job' = job /\ answer' = "ok"
        /\ UNCHANGED <<app, boot, storage>>
        /\ at' = IF job.kind = "bundle" THEN "restart" ELSE "idle"
    BY <1>2 DEF EndStorage, flash, request
  <2>2. storage' = Whole(job.files)
    <3>1. written = job.files /\ storage.filled = 1 .. job.files
      BY <2>1, JobSized, TypeParts DEF WordInv, PartInv, CountsTyped
    <3>2. job.files # 0
      BY <2>1 DEF WordInv, JobInv
    <3>3. storage.len = job.files
      BY <2>1, <3>1, <3>2 DEF WordInv, PartInv
    <3>4. QED BY <2>1, <3>1, <3>3, TypeParts DEF StorageTyped, Whole
  <2>3. JobInv' /\ PartInv'
    BY <2>1 DEF WordInv, JobInv, PartInv, WithFirmware
  <2>4. job.kind # "storage" => FirmwareIn'
    BY <2>1 DEF WordInv, AnswerInv, FirmwareIn, Sound
  <2>5. AnswerInv'
    BY <2>1, <2>2, <2>4 DEF WordInv, JobInv, AnswerInv, KeepsItsWord, FirmwareIn
  <2>6. QED BY <2>3, <2>5 DEF WordInv
<1>3. QED BY <1>1, <1>2

LEMMA WordNext == ASSUME TypeOK, WordInv, [Next]_vars PROVE WordInv'
<1>1. CASE RequestFirmware \/ RequestStorage \/ RequestBundle
  BY <1>1, WordRequest
<1>2. CASE Begins
  BY <1>2, WordBegins
<1>3. CASE ReceiveFirmware \/ ReceiveStorage
  BY <1>3, WordReceives
<1>4. CASE FirmwareAccepted \/ EndStorage
  BY <1>4, WordEnds
<1>5. CASE FirmwareFails \/ FirmwareRefused \/ StorageFails \/ RefuseFirmware
  BY <1>5, WordFails DEF FirmwareFails, FirmwareRefused, StorageFails, RefuseFirmware, request
<1>6. CASE Restart \/ PowerFails
  BY <1>6, WordReboots DEF Restart, PowerFails
<1>7. CASE ShowKey \/ UNCHANGED vars
  BY <1>7, WordStutter DEF ShowKey, vars, flash, mgr, request
<1>8. QED
  BY <1>1, <1>2, <1>3, <1>4, <1>5, <1>6, <1>7 DEF Next, Begins

\* What the user was told of an upload stays true until the next one: each part lies whole
\* in its place, and the new firmware runs after the restart.
THEOREM OtaKeepsItsWord == Spec => []KeepsItsWord
<1>1. WordInv => KeepsItsWord
  BY DEF WordInv, AnswerInv
<1>2. QED BY <1>1, WordInit, WordNext, OtaTypeCorrect, PTL DEF Spec

(***************************************************************************)
(* The edition stays                                                       *)
(***************************************************************************)
\* What is known of the marker while firmware is received.  If a single chunk so far holds
\* bytes of it, the window still holds them: the next chunk completes it, or the marker
\* comes in three.
Midway == job.img.from <= written /\ written < job.img.to

ScanInv ==
  at = "firmware" =>
    /\ edition \in {"none", job.img.edition}
    /\ ~Marked(job.img) => edition = "none"
    /\ ~excused /\ Marked(job.img) =>
         /\ written < job.img.from => pieces = 0
         /\ Midway /\ pieces < 2 /\ edition = "none" => pieces = 1 /\ job.img.from + window > written
         /\ written >= job.img.to => edition = job.img.edition

\* Until excused, an upload never writes the selected slot, and the slot holds this edition.
SlotInv ==
  ~excused =>
    /\ at = "firmware" => target # boot
    /\ Sound(boot) => app[boot].img.edition = OwnEdition

\* Where a marker may lie in an image users send.
LEMMA MarkerLies ==
  ASSUME TypeOK, JobInv, job.kind \in WithFirmware
  PROVE  LET i == job.img IN
         /\ i.from \in Nat /\ i.to \in Nat /\ i.edition \in Editions
         /\ Marked(i) => i.from > 0 /\ i.from <= i.to /\ i.to <= i.len /\ i.to < i.from + Window
         /\ ~Marked(i) => i.edition = "Standalone"
<1>1. job.img \in Images
  BY DEF JobInv
<1>2. job.img \in Image
  BY <1>1, OtaAssumption, Zenon DEF OtaAssumption
<1>3. job.img.from \in Nat /\ job.img.to \in Nat
  BY <1>2 DEF Image
<1>4. QED BY <1>1, <1>3, OtaAssumption, Zenon DEF OtaAssumption

LEMMA ScanReceives ==
  ASSUME TypeOK, JobInv, PartInv, ScanInv, ReceiveFirmware
  PROVE  ScanInv'
<1> DEFINE i == job.img
<1>1. PICK n \in Chunks :
        /\ Scan(n)
        /\ written' = written + n /\ remaining' = remaining - n
        /\ pieces' = IF written < i.to /\ i.from <= written + n THEN pieces + 1 ELSE pieces
  BY Zenon DEF ReceiveFirmware
<1>2. /\ at = "firmware" /\ job' = job /\ excused' = (excused \/ pieces' > 2)
  BY DEF ReceiveFirmware, request
<1>3. /\ n \in Nat /\ n > 0 /\ written \in Nat /\ pieces \in Nat /\ window \in Nat /\ window <= Window
      /\ Window \in Nat
  BY TypeParts, Numbers DEF Chunks, Smaller, CountsTyped
<1>4. /\ i.from \in Nat /\ i.to \in Nat /\ i.edition \in Editions
      /\ Marked(i) => i.from > 0 /\ i.from <= i.to /\ i.to < i.from + Window
  BY <1>2, MarkerLies, Zenon DEF JobInv
<1>5. i.edition # "none"
  BY <1>4 DEF Editions
<1>6. edition' \in {"none", i.edition} /\ (~Marked(i) => edition' = "none")
  BY <1>1, <1>2, Zenon DEF ScanInv, Scan, Completes
<1>7. ASSUME ~excused', Marked(i)
      PROVE  /\ written' < i.from => pieces' = 0
             /\ i.from <= written' /\ written' < i.to /\ pieces' < 2 /\ edition' = "none"
                  => pieces' = 1 /\ i.from + window' > written'
             /\ written' >= i.to => edition' = i.edition
  <2>1. ~excused /\ pieces' <= 2
    <3>1. ~excused /\ ~(pieces' > 2)
      BY <1>2, <1>7, Zenon
    <3>2. pieces' \in {pieces, pieces + 1}
      BY <1>1
    <3>3. QED BY <1>3, <3>1, <3>2
  <2>2. written' = written + n
    BY <1>1
  <2>3. /\ written < i.from => pieces = 0
        /\ Midway /\ pieces < 2 /\ edition = "none" => pieces = 1 /\ i.from + window > written
        /\ written >= i.to => edition = i.edition
    BY <1>2, <1>7, <2>1 DEF ScanInv
  <2>4. CASE edition # "none"
    <3>1. edition' = edition /\ edition = i.edition
      BY <1>1, <1>2, <2>4 DEF Scan, ScanInv
    <3>2. QED BY <1>1, <1>3, <1>4, <1>5, <2>3, <3>1
  <2>5. CASE edition = "none" /\ Completes(n)
    <3>1. edition' = i.edition
      BY <1>1, <2>5 DEF Scan
    <3>2. i.to <= written'
      BY <1>1, <1>3, <1>4, <2>5 DEF Completes, InJoined, InChunk, Smaller
    <3>3. ~(written' < i.from) /\ ~(written' < i.to)
      BY <1>3, <1>4, <1>7, <2>2, <2>5, <3>2 DEF Completes
    <3>4. QED BY <1>5, <3>1, <3>3, Zenon
  <2>6. CASE edition = "none" /\ ~Completes(n)
    <3>1. edition' = "none" /\ window' = IF n < Window THEN n ELSE Window
      BY <1>1, <2>6 DEF Scan, Smaller
    <3>2. /\ ~(i.from > written /\ i.to <= written + n)
          /\ ~(i.from + window > written /\ i.to <= written + (IF n < Window THEN n ELSE Window))
      BY <1>7, <2>6 DEF Completes, InJoined, InChunk, Smaller
    <3>3. written < i.to
      BY <1>3, <1>4, <1>5, <2>3, <2>6
    <3>4. CASE written < i.from
      BY <1>1, <1>3, <1>4, <1>7, <2>3, <3>1, <3>2, <3>4
    <3>5. CASE i.from <= written
      <4>1. pieces' = pieces + 1 /\ pieces < 2
        BY <1>1, <1>3, <1>4, <2>1, <3>3, <3>5
      <4>2. pieces = 1 /\ i.from + window > written
        BY <2>3, <2>6, <3>3, <3>5, <4>1 DEF Midway
      <4>3. i.to > written + n
        BY <1>3, <1>4, <1>7, <3>2, <3>5, <4>2
      <4>4. ~(written' < i.from) /\ ~(written' >= i.to) /\ ~(pieces' < 2)
        BY <1>3, <1>4, <2>2, <3>5, <4>1, <4>2, <4>3
      <4>5. QED BY <4>4, Zenon
    <3>6. QED BY <1>3, <1>4, <3>4, <3>5
  <2>7. QED BY <2>4, <2>5, <2>6
<1>8. QED BY <1>2, <1>6, <1>7, Zenon DEF ScanInv, Midway, Marked

LEMMA ScanNext == ASSUME TypeOK, JobInv, PartInv, ScanInv, [Next]_vars PROVE ScanInv'
<1>1. CASE ReceiveFirmware
  BY <1>1, ScanReceives
<1>2. CASE StartFirmware
  <2>1. job.kind \in WithFirmware /\ edition' = "none" /\ written' = 0 /\ pieces' = 0 /\ job' = job
    BY <1>2 DEF StartFirmware, BeginOta, request
  <2>2. /\ job.img.from \in Nat /\ job.img.to \in Nat
        /\ Marked(job.img) => job.img.from > 0 /\ job.img.from <= job.img.to
    BY <2>1, MarkerLies, Zenon
  <2>3. QED BY <2>1, <2>2 DEF ScanInv, Midway, Marked
<1>3. CASE ShowKey \/ UNCHANGED vars
  <2>1. UNCHANGED <<at, job, edition, window, written, pieces, excused>>
    BY <1>3, Zenon DEF ShowKey, vars, mgr, request
  <2>2. QED BY <2>1, Zenon DEF ScanInv, Midway, Marked
<1>4. CASE RequestFirmware \/ RequestStorage \/ RequestBundle
  BY <1>4 DEF RequestFirmware, RequestStorage, RequestBundle, Request, Fails, ScanInv
<1>5. CASE FirmwareNotStarted \/ StartStorage \/ StorageNotStarted \/ ReceiveStorage
  BY <1>5 DEF FirmwareNotStarted, StartStorage, StorageNotStarted, ReceiveStorage, Fails, ScanInv
<1>6. CASE Quiet \/ FirmwareAccepted
  BY <1>6 DEF Quiet, FirmwareFails, FirmwareRefused, StorageFails, EndStorage, RefuseFirmware,
     FirmwareAccepted, Fails, ScanInv
<1>7. CASE Restart \/ PowerFails
  BY <1>7 DEF Restart, PowerFails, Reboot, ScanInv
<1>8. QED
  BY <1>1, <1>2, <1>3, <1>4, <1>5, <1>6, <1>7 DEF Next, Quiet

\* The edition read from an image received in full is the image's.
LEMMA EditionRead ==
  ASSUME TypeOK, JobInv, PartInv, ScanInv, at = "firmware", remaining = 0, ~excused
  PROVE  ImageEdition = job.img.edition
<1>1. job.kind \in WithFirmware /\ written = job.img.len
  BY JobSized, TypeParts DEF JobInv, PartInv, CountsTyped
<1>2. /\ job.img.edition \in Editions
      /\ Marked(job.img) => job.img.to <= job.img.len
      /\ ~Marked(job.img) => job.img.edition = "Standalone"
  BY <1>1, MarkerLies, Zenon
<1>3. CASE Marked(job.img)
  <2>1. job.img.to \in Nat /\ written >= job.img.to
    BY <1>1, <1>2, <1>3, MarkerLies, JobSized
  <2>2. edition = job.img.edition
    BY <1>3, <2>1 DEF ScanInv
  <2>3. QED BY <1>2, <2>2 DEF ImageEdition, Editions
<1>4. CASE ~Marked(job.img)
  BY <1>2, <1>4 DEF ScanInv, ImageEdition
<1>5. QED BY <1>3, <1>4

\* Everything the steps need to keep the edition.
EditionInv == BootInv /\ JobInv /\ PartInv /\ ScanInv /\ SlotInv

\* Slots whose content and selection a step leaves alone.
LEMMA SlotStutter ==
  ASSUME SlotInv, UNCHANGED <<app, boot, running>>, excused => excused',
         at' = "firmware" => at = "firmware" /\ target' = target
  PROVE  SlotInv' /\ OwnEdition' = OwnEdition
  BY DEF SlotInv, Sound, OwnEdition

\* Writing a slot that does not run, and is selected only when excused or left unsound.
LEMMA SlotWrites ==
  ASSUME TypeOK, SlotInv, NEW s \in Slots, s # running, NEW r, app' = [app EXCEPT ![s] = r],
         UNCHANGED <<boot, running>>, excused => excused',
         s # boot \/ excused' \/ r = Erased,
         at' = "firmware" => excused' \/ target' # boot
  PROVE  SlotInv' /\ OwnEdition' = OwnEdition
<1>1. app'[running] = app[running] /\ app'[s] = r /\ (s # boot => app'[boot] = app[boot])
  BY TypeParts DEF AppTyped, SlotsTyped
<1>2. OwnEdition' = OwnEdition
  BY <1>1 DEF OwnEdition
<1>3. CASE s # boot \/ excused'
  BY <1>1, <1>2, <1>3 DEF SlotInv, Sound
<1>4. CASE s = boot /\ r = Erased
  <2>1. ~Sound(boot)'
    BY <1>1, <1>4 DEF Sound, Erased, Blank
  <2>2. QED BY <1>2, <2>1 DEF SlotInv
<1>5. QED BY <1>2, <1>3, <1>4

LEMMA SlotNext ==
  ASSUME TypeOK, EditionInv, [Next]_vars
  PROVE  SlotInv' /\ (OwnEdition' = OwnEdition \/ excused')
<1>1. SlotInv /\ SlotsTyped
  BY TypeParts DEF EditionInv
<1>2. Supported => NextUpdatePartition \in Slots /\ NextUpdatePartition # running
  BY <1>1 DEF Supported, NextUpdatePartition, SlotsTyped
<1>3. CASE StartFirmware
  BY <1>1, <1>2, <1>3, SlotWrites DEF StartFirmware, BeginOta
<1>4. CASE FirmwareNotStarted
  <2>1. CASE app' = app
    BY <1>1, <1>4, <2>1, SlotStutter DEF FirmwareNotStarted, BeginOtaFails, Fails
  <2>2. CASE app' # app
    BY <1>1, <1>2, <1>4, <2>2, SlotWrites DEF FirmwareNotStarted, BeginOtaFails, Fails
  <2>3. QED BY <2>1, <2>2
<1>5. CASE ReceiveFirmware
  <2>1. PICK n \in Chunks : app' = [app EXCEPT ![target] = [img |-> job.img, filled |-> written + n]]
    BY <1>5, Zenon DEF ReceiveFirmware
  <2>2. /\ at = "firmware" /\ UNCHANGED <<at, boot, running, target>>
        /\ excused' = (excused \/ pieces' > 2)
    BY <1>5, Zenon DEF ReceiveFirmware
  <2>3. target \in Slots /\ target # running
    BY <1>1, <2>2 DEF EditionInv, BootInv, SlotsTyped
  <2>4. (excused => excused') /\ (excused' \/ target # boot)
    BY <1>1, <2>2, Zenon DEF SlotInv
  <2>5. QED BY <1>1, <2>1, <2>2, <2>3, <2>4, SlotWrites, Zenon
<1>6. CASE FirmwareAccepted
  <2>1. /\ at = "firmware" /\ remaining = 0 /\ ImageEdition = OwnEdition
        /\ Sound(target) /\ boot' = target
        /\ UNCHANGED <<app, running, excused>> /\ at' # "firmware"
    BY <1>6 DEF FirmwareAccepted
  <2>2. OwnEdition' = OwnEdition
    BY <2>1 DEF OwnEdition
  <2>3. ~excused => app[target].img.edition = OwnEdition
    <3>1. written # 0
      BY <2>1, JobLens, TypeParts DEF EditionInv, PartInv, JobInv, CountsTyped
    <3>2. app[target].img = job.img
      BY <2>1, <3>1 DEF EditionInv, PartInv
    <3>3. QED BY <2>1, <3>2, EditionRead DEF EditionInv
  <2>4. QED BY <2>1, <2>2, <2>3 DEF SlotInv, Sound
<1>7. CASE Restart \/ PowerFails
  <2>1. /\ UNCHANGED <<app, boot, excused>> /\ running' = Bootable /\ at' = "idle"
    BY <1>7 DEF Restart, PowerFails, Reboot, flash
  <2>2. ~Sound(boot) => Bootable = running
    BY <1>1 DEF EditionInv, BootInv, Bootable, SlotsTyped
  <2>3. ~excused => app[Bootable].img.edition = OwnEdition
    BY <1>1, <2>2 DEF SlotInv, Bootable, OwnEdition
  <2>4. ~excused => OwnEdition' = OwnEdition
    BY <2>1, <2>3 DEF OwnEdition
  <2>5. SlotInv'
    BY <1>1, <2>1, <2>4 DEF SlotInv, Sound
  <2>6. QED BY <2>1, <2>4, <2>5
<1>8. CASE ShowKey \/ UNCHANGED vars
  BY <1>1, <1>8, SlotStutter DEF ShowKey, vars, flash, mgr
<1>9. CASE RequestFirmware \/ RequestStorage \/ RequestBundle
  BY <1>1, <1>9, SlotStutter DEF RequestFirmware, RequestStorage, RequestBundle, Request, Fails, flash
<1>10. CASE StartStorage \/ StorageNotStarted \/ ReceiveStorage
  BY <1>1, <1>10, SlotStutter DEF StartStorage, StorageNotStarted, ReceiveStorage, BeginStorage,
     BeginStorageFails, Fails
<1>11. CASE Quiet
  BY <1>1, <1>11, SlotStutter DEF Quiet, FirmwareFails, FirmwareRefused, StorageFails, EndStorage,
     RefuseFirmware, Fails, flash
<1>12. QED
  BY <1>3, <1>4, <1>5, <1>6, <1>7, <1>8, <1>9, <1>10, <1>11 DEF Next, Quiet

LEMMA EditionInit == Init => EditionInv
<1> SUFFICES ASSUME Init PROVE EditionInv
  OBVIOUS
<1>1. at = "idle" /\ boot = 1 /\ running = 1
  BY DEF Init
<1>2. SlotInv /\ ScanInv
  BY <1>1 DEF SlotInv, ScanInv, OwnEdition
<1>3. QED BY <1>2, BootInit, WordInit DEF EditionInv, WordInv

\* No restart brings up the other edition, whatever was sent and however it was cut into
\* chunks, unless a marker came in three of them or the selected slot was overwritten.
THEOREM OtaKeepsEdition == Spec => KeepsEdition
<1>1. TypeOK /\ WordInv /\ EditionInv /\ [Next]_vars => EditionInv'
  <2> SUFFICES ASSUME TypeOK, WordInv, EditionInv, [Next]_vars PROVE EditionInv'
    OBVIOUS
  <2>1. BootInv' /\ WordInv'
    BY BootNext, WordNext DEF EditionInv
  <2>2. ScanInv' /\ SlotInv'
    BY ScanNext, SlotNext DEF EditionInv
  <2>3. QED BY <2>1, <2>2 DEF EditionInv, WordInv
<1>2. TypeOK /\ EditionInv /\ [Next]_vars => [OwnEdition' = OwnEdition \/ excused']_vars
  BY SlotNext
<1>3. QED
  BY <1>1, <1>2, EditionInit, WordInit, WordNext, OtaTypeCorrect, PTL DEF Spec, KeepsEdition

(***************************************************************************)
(* The key                                                                 *)
(***************************************************************************)
\* The key in use is the stored one, unless one could not be stored.
KeyInv == ShownKeyWorks /\ (apiKey # 0 /\ ~keyLost => storedKey = apiKey)

LEMMA HaveKeyKeeps ==
  ASSUME TypeOK, KeyInv, HaveKey, shown' \in {shown, apiKey'}
  PROVE  KeyInv'
<1>1. NewKey # 0
  BY TypeParts, Numbers DEF BoundsTyped, NewKey
<1>2. CASE apiKey # 0 \/ KeyUnreadable
  BY <1>2 DEF HaveKey, GenerateKey, KeyUnreadable, KeyInv, ShownKeyWorks
<1>3. CASE apiKey = 0 /\ storedKey # 0 /\ apiKey' = storedKey /\ UNCHANGED <<storedKey, keyLost>>
  BY <1>3 DEF KeyInv, ShownKeyWorks
<1>4. CASE apiKey = 0 /\ storedKey = 0 /\ GenerateKey
  BY <1>1, <1>4 DEF GenerateKey, KeyInv, ShownKeyWorks
<1>5. QED BY <1>2, <1>3, <1>4 DEF HaveKey

LEMMA KeyNext == ASSUME TypeOK, KeyInv, [Next]_vars PROVE KeyInv'
<1>1. CASE ShowKey
  BY <1>1, HaveKeyKeeps DEF ShowKey
<1>2. CASE RequestFirmware \/ RequestStorage \/ RequestBundle
  BY <1>2, HaveKeyKeeps DEF RequestFirmware, RequestStorage, RequestBundle, Request
<1>3. CASE Restart \/ PowerFails
  BY <1>3 DEF Restart, PowerFails, Reboot, KeyInv, ShownKeyWorks
<1>4. CASE UNCHANGED keyvars
  BY <1>4 DEF keyvars, KeyInv, ShownKeyWorks
<1>5. QED
  BY <1>1, <1>2, <1>3, <1>4, Zenon DEF Next, vars, RefuseFirmware, StartFirmware, FirmwareNotStarted,
     ReceiveFirmware, FirmwareFails, FirmwareRefused, FirmwareAccepted, StartStorage,
     StorageNotStarted, ReceiveStorage, StorageFails, EndStorage

\* The key the page showed is the one uploads are asked for, across any restarts, unless it
\* could never be stored.
THEOREM OtaShownKeyWorks == Spec => []ShownKeyWorks
<1>1. Init => KeyInv
  BY DEF Init, KeyInv, ShownKeyWorks
<1>2. KeyInv => ShownKeyWorks
  BY DEF KeyInv
<1>3. QED BY <1>1, <1>2, KeyNext, OtaTypeCorrect, PTL DEF Spec

-----------------------------------------------------------------------------
(***************************************************************************)
(* The log's pages: types, with the two limits.                            *)
(***************************************************************************)

\* One more client is taken in only while there is room.
LEMMA RoomForOne ==
  ASSUME NEW S, IsFiniteSet(S), NEW x, NEW m \in Nat, Cardinality(S) <= m,
         x \in S \/ Cardinality(S) < m
  PROVE  Cardinality(S \union {x}) <= m
<1>1. /\ Cardinality(S) \in Nat
      /\ Cardinality(S \union {x}) = IF x \in S THEN Cardinality(S) ELSE Cardinality(S) + 1
  BY FS_AddElement, FS_CardinalityType
<1> QED BY <1>1

LEMMA FewerClients ==
  ASSUME LogTypeOK, NEW S
  PROVE  clients \ S \subseteq Fds /\ Cardinality(clients \ S) <= MaxClients
<1>1. IsFiniteSet(clients)
  BY LogAssumption, FS_Subset DEF LogTypeOK, LogAssumption
<1>2. /\ Cardinality(clients) \in Nat /\ Cardinality(clients \ S) \in Nat
      /\ Cardinality(clients \ S) <= Cardinality(clients)
  BY <1>1, FS_Subset, FS_CardinalityType
<1> QED BY <1>2, LogAssumption DEF LogTypeOK, LogAssumption

LEMMA WebTyped ==
  ASSUME LogTypeOK, WebNext \/ (\E fd \in Fds : Open(fd, "ws"))
  PROVE  LogTypeOK'
<1>1. CASE Join
  <2>1. Cardinality(clients') <= MaxClients
    <3>1. IsFiniteSet(clients) /\ MaxClients \in Nat /\ Cardinality(clients) <= MaxClients
      BY LogAssumption, FS_Subset DEF LogTypeOK, LogAssumption
    <3>2. CASE joining \in clients \/ Cardinality(clients) < MaxClients
      BY <1>1, <3>1, <3>2, RoomForOne DEF Join
    <3>3. CASE ~(joining \in clients \/ Cardinality(clients) < MaxClients)
      BY <1>1, <3>1, <3>3 DEF Join
    <3> QED BY <3>2, <3>3
  <2>2. conn' \in [Fds -> {"closed", "http", "ws"}] /\ joining' \in Fds \union {Nobody} /\ clients' \subseteq Fds
    BY <1>1 DEF Join, LogTypeOK
  <2> QED BY <1>1, <2>1, <2>2 DEF Join, LogTypeOK, passes, retention
<1>2. ASSUME NEW fd \in Fds, NEW kind \in {"http", "ws"}, Open(fd, kind) PROVE LogTypeOK'
  <2>1. /\ conn' \in [Fds -> {"closed", "http", "ws"}] /\ joining' \in Fds \union {Nobody}
        /\ opened' \in Nat /\ reused' \subseteq Fds /\ refused' \subseteq Fds
    BY <1>2 DEF Open, LogTypeOK
  <2> QED BY <1>2, <2>1 DEF Open, LogTypeOK, passes, retention
<1>3. ASSUME NEW fd \in Fds, Close(fd) \/ Frame(fd) PROVE LogTypeOK'
  BY <1>3 DEF Close, Frame, LogTypeOK, passes, retention
<1> QED BY <1>1, <1>2, <1>3 DEF WebNext

LEMMA LoggerTyped == ASSUME LogTypeOK, LogNext \/ TurnOn PROVE LogTypeOK'
<1>1. CASE SenderTakes
  <2>1. sender' \in Passes
    BY <1>1 DEF SenderTakes, LogTypeOK, Pass, Idle, Passes
  <2>2. lines' \in 0 .. MaxLines
    BY <1>1, LogAssumption DEF SenderTakes, LogTypeOK, LogAssumption
  <2> QED BY <1>1, <2>1, <2>2 DEF SenderTakes, LogTypeOK, web, retention
<1>2. ASSUME NEW fd \in Fds, SenderLooks(fd) PROVE LogTypeOK'
  <2>1. sender' \in Passes
    BY <1>2 DEF SenderLooks, LogTypeOK, Passes
  <2> QED BY <1>2, <2>1 DEF SenderLooks, LogTypeOK, web, retention
<1>3. CASE SenderSends
  <2>1. sender' \in Passes
    <3>1. sender \in Passes /\ sender.at \in Fds
      BY <1>3 DEF SenderSends, LogTypeOK, Passes
    <3>2. \/ sender' = [sender EXCEPT !.at = Nobody]
          \/ sender' = [sender EXCEPT !.at = Nobody, !.gone = @ \union {sender.at}]
      BY <1>3 DEF SenderSends
    <3> QED BY <3>1, <3>2 DEF Passes
  <2>2. refused' \subseteq Fds
    BY <1>3 DEF SenderSends, LogTypeOK, Passes
  <2> QED BY <1>3, <2>1, <2>2 DEF SenderSends, LogTypeOK, web, retention
<1>4. CASE SenderRemoves
  <2>1. sender' \in Passes
    BY <1>4 DEF SenderRemoves, Idle, Passes
  <2> QED BY <1>4, <2>1, FewerClients DEF SenderRemoves, LogTypeOK, web, retention
<1>5. CASE CleanerTakes
  BY <1>5 DEF CleanerTakes, LogTypeOK, web, retention, Pass, Idle, Passes
<1>6. ASSUME NEW fd \in Fds, CleanerLooks(fd) PROVE LogTypeOK'
  <2>1. cleaner' \in Passes
    BY <1>6 DEF CleanerLooks, LogTypeOK, Passes
  <2> QED BY <1>6, <2>1 DEF CleanerLooks, LogTypeOK, web, retention
<1>7. CASE CleanerRemoves
  <2>1. cleaner' \in Passes
    BY <1>7 DEF CleanerRemoves, Idle, Passes
  <2> QED BY <1>7, <2>1, FewerClients DEF CleanerRemoves, LogTypeOK, web, retention
<1>8. ASSUME NEW t \in Tasks, Log(t) \/ Retain(t) PROVE LogTypeOK'
  <2>1. /\ lines' \in 0 .. MaxLines /\ history' \in 0 .. MaxHistory /\ logged' \in Nat
        /\ writers' \subseteq Tasks
    BY <1>8, LogAssumption DEF Log, Retain, LogTypeOK, LogAssumption
  <2> QED BY <1>8, <2>1 DEF Log, Retain, LogTypeOK, web, passes
<1>9. CASE TurnOn \/ TurnOff \/ ClearHistory
  <2>1. /\ UNCHANGED <<web, clients, lines, passes, writers, logged, reused, refused>>
        /\ enabled' \in BOOLEAN /\ turningOff' \in BOOLEAN /\ history' \in {0, history}
    BY <1>9 DEF TurnOn, TurnOff, ClearHistory, LogTypeOK
  <2>2. history' \in 0 .. MaxHistory
    BY <2>1, LogAssumption DEF LogTypeOK, LogAssumption
  <2> QED BY <2>1, <2>2 DEF LogTypeOK, web, passes
<1> QED BY <1>1, <1>2, <1>3, <1>4, <1>5, <1>6, <1>7, <1>8, <1>9
        DEF LogNext, SenderStep, CleanerStep

LEMMA PortalInitTyped == PortalInit => LogTypeOK
<1> SUFFICES ASSUME PortalInit PROVE LogTypeOK
  OBVIOUS
<1>1. PICK s \in Scenes : budget = s[1] /\ LogInit(budget["opens"], budget["logs"])
  BY DEF PortalInit, WebInit
<1>2. s[1]["opens"] \in Nat /\ s[1]["logs"] \in Nat /\ s[1]["opens"] <= MaxOpen /\ s[1]["logs"] <= MaxLogged
  BY WebAssumption DEF WebAssumption, Counts
<1>3. LogInit(s[1]["opens"], s[1]["logs"])
  BY <1>1
<1>4. opened \in Nat /\ logged \in Nat /\ lines \in 0 .. MaxLines /\ history \in 0 .. MaxHistory
  BY <1>2, <1>3, LogAssumption DEF LogInit, LogAssumption
<1>5. clients \subseteq Fds /\ Cardinality(clients) <= MaxClients
  BY <1>3, LogAssumption, FS_EmptySet DEF LogInit, LogAssumption
<1>6. sender \in Passes /\ cleaner \in Passes
  BY <1>3 DEF LogInit, Idle, Passes
<1> QED BY <1>3, <1>4, <1>5, <1>6 DEF LogInit, LogTypeOK

\* What a step of the whole does to the log's part.
LEMMA LogSteps ==
  ASSUME [PortalNext]_allvars
  PROVE  \/ WebNext \/ (\E fd \in Fds : Open(fd, "ws")) \/ LogNext \/ TurnOn
         \/ UNCHANGED logvars
<1>1. ASSUME NEW t \in Reporters, NEW s, StateChanged(t, s) \/ ChangeEntry(t) PROVE UNCHANGED logvars
  BY <1>1 DEF StateChanged, ChangeEntry
<1>2. ASSUME DnsStart \/ DnsStep \/ ScanRequest \/ HandlerStep \/ ScanDone \/ ScanAges \/ PhoneServed \/ StopRequest
      PROVE  UNCHANGED logvars
  BY <1>2 DEF DnsStart, DnsStep, DnsOpens, DnsBinds, DnsLoop, DnsAnswers, DnsFails, DnsLeaves, ScanRequest,
     HandlerStep, ScanStarts, DnsFlag, DnsClose, DnsDelete, StopRadio, ScanDone, ScanAges, PhoneServed,
     StopRequest, webvars
<1>3. CASE UNCHANGED allvars
  BY <1>3 DEF allvars, webvars
<1>4. CASE Pages \/ Logger
  BY <1>4 DEF Pages, Logger, OpenLog
<1>5. CASE Retention
  BY <1>5 DEF Retention
<1>6. CASE TableNext
  BY <1>1, <1>6 DEF TableNext
<1> QED BY <1>2, <1>3, <1>4, <1>5, <1>6 DEF PortalNext

\* The descriptors, the list, the passes over it and what is retained keep to their types, and the
\* list and the ring buffer to their limits.
THEOREM LogTypeCorrect == PortalSpec => []LogTypeOK
<1>1. LogTypeOK /\ [PortalNext]_allvars => LogTypeOK'
  <2> SUFFICES ASSUME LogTypeOK, [PortalNext]_allvars PROVE LogTypeOK'
    OBVIOUS
  <2>1. CASE UNCHANGED logvars
    BY <2>1 DEF logvars, LogTypeOK, web, passes, retention
  <2> QED BY <2>1, LogSteps, WebTyped, LoggerTyped
<1> QED BY <1>1, PortalInitTyped, PTL DEF PortalSpec

-----------------------------------------------------------------------------
(***************************************************************************)
(* The pages.  What a pass found gone and is a page again was given to it  *)
(* in the meantime, or refused a line.                                     *)
(***************************************************************************)
GoneKnown == \A fd \in FoundGone : conn[fd] = "ws" => fd \in reused \union refused
PagesInv == LogTypeOK /\ PagesListed /\ GoneKnown

LEMMA PagesWeb ==
  ASSUME PagesInv, WebNext \/ (\E fd \in Fds : Open(fd, "ws"))
  PROVE  PagesListed' /\ GoneKnown'
<1>0. /\ conn \in [Fds -> {"closed", "http", "ws"}] /\ joining \in Fds \union {Nobody}
      /\ clients \subseteq Fds /\ FoundGone \subseteq Fds /\ Nobody \notin Fds
  BY LogAssumption DEF PagesInv, LogTypeOK, Passes, FoundGone, LogAssumption
<1>1. CASE Join
  <2>1. \/ conn' = conn /\ clients' = clients \union {joining}
        \/ conn' = [conn EXCEPT ![joining] = "closed"] /\ clients' = clients
    BY <1>1 DEF Join
  <2>2. joining \in Fds /\ joining' = Nobody /\ FoundGone' = FoundGone /\ reused' = reused /\ refused' = refused
    BY <1>0, <1>1 DEF Join, passes, FoundGone
  <2> QED BY <1>0, <2>1, <2>2 DEF PagesInv, PagesListed, GoneKnown
<1>2. ASSUME NEW fd \in Fds, NEW kind \in {"http", "ws"}, Open(fd, kind) PROVE PagesListed' /\ GoneKnown'
  <2>1. /\ conn[fd] = "closed" /\ joining = Nobody /\ conn' = [conn EXCEPT ![fd] = kind]
        /\ joining' = IF kind = "ws" THEN fd ELSE Nobody
        /\ clients' = clients /\ FoundGone' = FoundGone
        /\ reused' = IF fd \in FoundGone THEN reused \union {fd} ELSE reused \ {fd}
        /\ refused' = refused \ {fd}
    BY <1>2 DEF Open, passes, FoundGone
  <2>2. PagesListed'
    BY <1>0, <2>1 DEF PagesInv, PagesListed
  <2>3. GoneKnown'
    BY <1>0, <2>1 DEF PagesInv, GoneKnown
  <2> QED BY <2>2, <2>3
<1>3. ASSUME NEW fd \in Fds, Close(fd) \/ Frame(fd) PROVE PagesListed' /\ GoneKnown'
  <2>1. /\ UNCHANGED <<clients, reused, refused>> /\ FoundGone' = FoundGone /\ joining = Nobody
        /\ \/ conn' = [conn EXCEPT ![fd] = "closed"] /\ joining' = joining
           \/ conn' = conn /\ joining' = fd
    BY <1>3 DEF Close, Frame, passes, FoundGone
  <2> QED BY <1>0, <2>1 DEF PagesInv, PagesListed, GoneKnown
<1> QED BY <1>1, <1>2, <1>3 DEF WebNext

LEMMA PagesLogger ==
  ASSUME PagesInv, LogNext \/ TurnOn
  PROVE  PagesListed' /\ GoneKnown'
<1> USE DEF PagesInv, PagesListed, GoneKnown, FoundGone
<1>1. CASE SenderTakes
  BY <1>1 DEF SenderTakes, web, Pass, Idle
<1>2. ASSUME NEW fd \in Fds, SenderLooks(fd) PROVE PagesListed' /\ GoneKnown'
  <2>1. sender'.gone = sender.gone \/ (sender'.gone = sender.gone \union {fd} /\ conn[fd] # "ws")
    BY <1>2 DEF SenderLooks, LogTypeOK, Passes
  <2> QED BY <1>2, <2>1 DEF SenderLooks, web
<1>3. CASE SenderSends
  <2>1. \/ sender'.gone = sender.gone /\ refused' = refused
        \/ sender'.gone = sender.gone \union {sender.at} /\ refused' = refused \union {sender.at}
    BY <1>3 DEF SenderSends, LogTypeOK, Passes
  <2> QED BY <1>3, <2>1 DEF SenderSends, web
<1>4. CASE SenderRemoves
  BY <1>4 DEF SenderRemoves, web, Idle
<1>5. CASE CleanerTakes
  BY <1>5 DEF CleanerTakes, web, Pass, Idle
<1>6. ASSUME NEW fd \in Fds, CleanerLooks(fd) PROVE PagesListed' /\ GoneKnown'
  <2>1. cleaner'.gone = cleaner.gone \/ (cleaner'.gone = cleaner.gone \union {fd} /\ conn[fd] # "ws")
    BY <1>6 DEF CleanerLooks, LogTypeOK, Passes
  <2> QED BY <1>6, <2>1 DEF CleanerLooks, web
<1>7. CASE CleanerRemoves
  BY <1>7 DEF CleanerRemoves, web, Idle
<1>8. ASSUME NEW t \in Tasks, Log(t) \/ Retain(t) PROVE PagesListed' /\ GoneKnown'
  BY <1>8 DEF Log, Retain, web, passes
<1>9. CASE TurnOn \/ TurnOff \/ ClearHistory
  BY <1>9 DEF TurnOn, TurnOff, ClearHistory, web, passes
<1> QED BY <1>1, <1>2, <1>3, <1>4, <1>5, <1>6, <1>7, <1>8, <1>9
        DEF LogNext, SenderStep, CleanerStep

LEMMA PagesInvariant == PortalSpec => []PagesInv
<1>1. PortalInit => PagesInv
  BY PortalInitTyped DEF PortalInit, WebInit, LogInit, PagesInv, PagesListed, GoneKnown, FoundGone, Idle
<1>2. PagesInv /\ [PortalNext]_allvars => PagesInv'
  <2> SUFFICES ASSUME PagesInv, [PortalNext]_allvars PROVE PagesInv'
    OBVIOUS
  <2>1. CASE UNCHANGED logvars
    BY <2>1 DEF PagesInv, PagesListed, GoneKnown, FoundGone, logvars, LogTypeOK, web, passes, retention
  <2>2. LogTypeOK
    BY DEF PagesInv
  <2> QED BY <2>1, <2>2, LogSteps, PagesWeb, PagesLogger, WebTyped, LoggerTyped DEF PagesInv
<1> QED BY <1>1, <1>2, PTL DEF PortalSpec

\* However connections come and go beneath the two passes over the list: a page that is connected
\* is on it, unless it refused a line or has the descriptor of one a pass had just found gone.
THEOREM PagesStayListed == PortalSpec => []PagesListed
<1>1. PagesInv => PagesListed
  BY DEF PagesInv
<1> QED BY <1>1, PagesInvariant, PTL

-----------------------------------------------------------------------------
(***************************************************************************)
(* The DNS server, started once, ended by itself or by the wizard's end,   *)
(* whose steps may find it anywhere.                                       *)
(***************************************************************************)
Stopping == {"flag", "close", "delete"}

Places == {"none", "socket", "bind", "loop", "receive", "leave", "ended"}
DnsStates == [running : BOOLEAN, socket : BOOLEAN, handle : BOOLEAN, at : Places]

DnsTyped ==
  /\ dns \in DnsStates
  /\ http \in {"idle", "scan", "stop radio", "restart"} \union Stopping

\* Outside the wizard's end the flag says whether the task serves, and only a server that is told
\* to ends its loop; at it, each step finds what the one before it has left, or the task further on.
DnsInv ==
  /\ DnsTyped
  /\ radio = "none" => dns.at = "none" /\ http = "idle"
  /\ http \notin Stopping => (dns.running <=> Live) /\ dns.at # "leave"
  /\ http = "flag" => dns.running /\ dns.at \in {"loop", "receive"}
  /\ http \in {"close", "delete"} => ~dns.running /\ dns.at \in {"loop", "receive", "leave", "ended"}
  /\ ~Live => ~dns.socket
  /\ http = "delete" => ~dns.socket

LEMMA DnsSteps ==
  ASSUME DnsInv, DnsStart \/ DnsStep
  PROVE  DnsInv'
<1>0. dns \in DnsStates
  BY DEF DnsInv, DnsTyped
<1>1. CASE DnsStart
  <2>1. /\ dns' \in DnsStates /\ UNCHANGED http /\ radio = "none" /\ radio' = "ap" /\ ~dns'.socket
        /\ \/ dns'.running /\ dns'.at = "socket"
           \/ ~dns'.running /\ dns'.at = "none"
    <3>1. NoDns \in DnsStates /\ ~NoDns.running /\ ~NoDns.socket /\ NoDns.at = "none"
      BY DEF NoDns, DnsStates, Places
    <3> QED BY <1>1, <3>1 DEF DnsStart, DnsTask, DnsStates, Places
  <2> QED BY <2>1 DEF DnsInv, DnsTyped, Stopping, Live
<1>2. CASE DnsOpens
  <2>1. /\ dns' \in DnsStates /\ UNCHANGED http /\ UNCHANGED radio
        /\ dns.at = "socket"
        /\ \/ dns'.running = dns.running /\ dns'.at = "bind"
           \/ ~dns'.running /\ ~dns'.socket /\ dns'.at = "ended"
    BY <1>0, <1>2 DEF DnsOpens, Gone, DnsStates, Places
  <2> QED BY <2>1 DEF DnsInv, DnsTyped, Stopping, Live
<1>3. CASE DnsBinds
  <2>1. /\ dns' \in DnsStates /\ UNCHANGED http /\ UNCHANGED radio
        /\ dns.at = "bind"
        /\ \/ dns'.running = dns.running /\ dns'.at = "loop"
           \/ ~dns'.running /\ ~dns'.socket /\ dns'.at = "ended"
    BY <1>0, <1>3 DEF DnsBinds, Gone, DnsStates, Places
  <2> QED BY <2>1 DEF DnsInv, DnsTyped, Stopping, Live
<1>4. CASE DnsLoop
  <2>1. /\ dns' \in DnsStates /\ UNCHANGED http /\ UNCHANGED radio
        /\ dns.at = "loop" /\ dns'.running = dns.running /\ dns'.socket = dns.socket
        /\ dns'.at = IF dns.running THEN "receive" ELSE "leave"
    BY <1>0, <1>4 DEF DnsLoop, DnsStates, Places
  <2> QED BY <2>1 DEF DnsInv, DnsTyped, Stopping, Live
<1>5. ASSUME (\E q \in Queries : DnsAnswers(q)) \/ DnsFails
      PROVE  DnsInv'
  <2>1. /\ dns' \in DnsStates /\ UNCHANGED http /\ UNCHANGED radio
        /\ dns.at = "receive" /\ dns'.at = "loop" /\ dns'.running = dns.running /\ dns'.socket = dns.socket
    BY <1>0, <1>5 DEF DnsAnswers, DnsFails, DnsStates, Places
  <2> QED BY <2>1 DEF DnsInv, DnsTyped, Stopping, Live
<1>6. CASE DnsLeaves
  <2>1. /\ dns' \in DnsStates /\ UNCHANGED http /\ UNCHANGED radio
        /\ dns.at = "leave" /\ dns'.running = dns.running /\ ~dns'.socket /\ dns'.at = "ended"
    BY <1>0, <1>6 DEF DnsLeaves, DnsStates, Places
  <2> QED BY <2>1 DEF DnsInv, DnsTyped, Stopping, Live
<1> QED BY <1>1, <1>2, <1>3, <1>4, <1>5, <1>6 DEF DnsStep

LEMMA WizardSteps ==
  ASSUME DnsInv, ScanRequest \/ HandlerStep \/ ScanDone \/ ScanAges \/ PhoneServed \/ StopRequest
  PROVE  DnsInv'
<1> USE DEF DnsInv, DnsTyped, DnsStates, Places, Stopping, Live
<1>1. CASE ScanRequest
  BY <1>1 DEF ScanRequest, Requested
<1>2. CASE ScanStarts
  BY <1>2 DEF ScanStarts
<1>3. CASE DnsFlag
  BY <1>3 DEF DnsFlag
<1>4. CASE DnsClose
  BY <1>4 DEF DnsClose
<1>5. CASE DnsDelete
  BY <1>5 DEF DnsDelete
<1>6. CASE StopRadio
  BY <1>6 DEF StopRadio
<1>7. CASE ScanDone \/ ScanAges \/ PhoneServed
  BY <1>7 DEF ScanDone, ScanAges, PhoneServed
<1>8. CASE StopRequest
  BY <1>8 DEF StopRequest, Requested
<1> QED BY <1>1, <1>2, <1>3, <1>4, <1>5, <1>6, <1>7, <1>8 DEF HandlerStep

LEMMA DnsInvariant == PortalSpec => []DnsInv
<1>1. PortalInit => DnsInv
  BY DEF PortalInit, NoDns, DnsInv, DnsTyped, DnsStates, Places, Live, Stopping
<1>2. DnsInv /\ [PortalNext]_allvars => DnsInv'
  <2> SUFFICES ASSUME DnsInv, [PortalNext]_allvars PROVE DnsInv'
    OBVIOUS
  <2>1. CASE UNCHANGED portalvars
    BY <2>1 DEF portalvars, DnsInv, DnsTyped, Live
  <2> QED BY <2>1, DnsSteps, WizardSteps DEF PortalNext, allvars
<1> QED BY <1>1, <1>2, PTL DEF PortalSpec

\* Wherever the wizard's end finds the DNS server: its flag is up exactly while its task serves,
\* and no socket outlives it, but in between the steps that end it.
THEOREM DnsServesOrNot == PortalSpec => []DnsAtRest
<1>1. DnsInv => DnsAtRest
  BY DEF DnsInv, DnsTyped, DnsAtRest, Stopping, Live
<1> QED BY <1>1, DnsInvariant, PTL

-----------------------------------------------------------------------------
(***************************************************************************)
(* The scan.                                                               *)
(***************************************************************************)

\* A scan is marked as under way only while the driver scans, so that its end is to come, or the
\* radio is off for good: the safety half of ScanEnds.
ScanUnderWay == scan.busy => scan.driver = "scanning" \/ radio = "off"

RadioInv ==
  /\ scan \in [busy : BOOLEAN, found : BOOLEAN, fresh : BOOLEAN, driver : {"idle", "scanning", "done"}]
  /\ ScanUnderWay
  /\ scan.fresh => scan.found

THEOREM ScansEndOrRadio == PortalSpec => []ScanUnderWay
<1>1. PortalInit => RadioInv
  BY DEF PortalInit, NoScan, RadioInv, ScanUnderWay
<1>2. RadioInv /\ [PortalNext]_allvars => RadioInv'
  <2> SUFFICES ASSUME RadioInv, [PortalNext]_allvars PROVE RadioInv'
    OBVIOUS
  <2>0. scan \in [busy : BOOLEAN, found : BOOLEAN, fresh : BOOLEAN, driver : {"idle", "scanning", "done"}]
    BY DEF RadioInv
  <2>1. CASE UNCHANGED <<scan, radio>>
    BY <2>1 DEF RadioInv, ScanUnderWay
  <2>2. CASE ScanStarts
    BY <2>0, <2>2 DEF ScanStarts, ScanRefused, RadioInv, ScanUnderWay
  <2>3. CASE ScanDone
    BY <2>0, <2>3 DEF ScanDone, RadioInv, ScanUnderWay
  <2>4. CASE ScanAges
    BY <2>0, <2>4 DEF ScanAges, RadioInv, ScanUnderWay
  <2>5. CASE StopRadio
    BY <2>0, <2>5 DEF StopRadio, RadioInv, ScanUnderWay
  <2>6. CASE DnsStart \/ PhoneServed
    BY <2>0, <2>6 DEF DnsStart, PhoneServed, RadioInv, ScanUnderWay
  <2>7. ASSUME DnsStep \/ ScanRequest \/ DnsFlag \/ DnsClose \/ DnsDelete \/ StopRequest
        PROVE  UNCHANGED <<scan, radio>>
    BY <2>7 DEF DnsStep, DnsOpens, DnsBinds, DnsLoop, DnsAnswers, DnsFails, DnsLeaves, ScanRequest,
       DnsFlag, DnsClose, DnsDelete, StopRequest
  <2> QED BY <2>1, <2>2, <2>3, <2>4, <2>5, <2>6, <2>7 DEF PortalNext, HandlerStep, portalvars, allvars
<1>3. RadioInv => ScanUnderWay
  BY DEF RadioInv
<1> QED BY <1>1, <1>2, <1>3, PTL DEF PortalSpec

=============================================================================
