------------------------------ MODULE OtaManager ------------------------------
(***************************************************************************)
(* Updating the bridge over the air: the three upload handlers             *)
(* (web_server/web_server.cpp), the manager they call (ota/ota_manager.cpp)*)
(* and the two firmware slots, the boot choice and the web interface's     *)
(* partition they write.                                                   *)
(*                                                                         *)
(* The web server runs one handler at a time, so a step is one request of  *)
(* a handler to the network, the manager or the flash; power may fail, or  *)
(* another component restart the device, between any two.  An image is its *)
(* length, its soundness and where its edition marker lies; a chunk is a   *)
(* length, chosen by the network.                                          *)
(***************************************************************************)
EXTENDS Naturals

CONSTANTS
  Images,       \* the firmware files users send
  Files,        \* the web interfaces they send, each given by its length
  HeaderLen,    \* sizeof(esp_image_header_t)
  Window,       \* sizeof(edition_window_)
  Buffer,       \* OTA_BUFFER_SIZE
  StorageSize,  \* size of the partition "storage"
  MaxUploads,   \* bound: uploads requested
  MaxRestarts   \* bound: power failures, and restarts asked of other components

Editions == {"Standalone", "Companion"}

\* The marker takes the bytes from .. to; an image from before editions has none (to = 0).
Marked(i) == i.to # 0

Image == [edition : Editions \cup {"none"}, from : Nat, to : Nat, len : Nat,
          header : BOOLEAN, sound : BOOLEAN]

Blank == [edition |-> "none", from |-> 0, to |-> 0, len |-> 0, header |-> FALSE, sound |-> FALSE]

ASSUME OtaAssumption ==
  /\ Images \subseteq Image
  /\ \A i \in Images :
       /\ i.len > 0 /\ i.edition \in Editions
       /\ Marked(i) => i.from > 0 /\ i.from <= i.to /\ i.to <= i.len /\ i.to < i.from + Window
       /\ ~Marked(i) => i.edition = "Standalone"
  /\ Files \subseteq Nat \ {0}
  /\ HeaderLen \in Nat \ {0}
  /\ Window \in Nat \ {0} /\ Buffer \in Nat /\ Window <= Buffer
  /\ StorageSize \in Nat
  /\ MaxUploads \in Nat /\ MaxRestarts \in Nat

VARIABLES
  chip,           \* external: firmware slots the partition table has
  app,            \* flash: per firmware slot the image in it and how much of it was written
  storage,        \* flash: the web interface's length and the bytes of it that were written
  boot,           \* flash: the slot otadata selects
  storedKey,      \* flash: NVS key "api_key", 0 for none
  running,        \* the slot the firmware was started from
  inProgress,     \* ota_in_progress_
  storageUpdate,  \* storage_update_
  target,         \* update_partition_
  handle,         \* ota_handle_ is open
  written,        \* progress_info_.written_size
  window,         \* edition_window_len_
  edition,        \* image_edition_
  apiKey,         \* ota_api_key, 0 for none
  at,             \* where the upload handler is
  job,            \* what it was asked to install
  remaining,      \* bytes of the present part it has yet to receive
  answer,         \* what the user was told of the last upload
  shown,          \* the key the page showed last
  uploads, restarts,  \* bounds
  pieces,         \* history: chunks of this upload that held bytes of the marker
  excused,        \* history: a marker came in three chunks, or the selected slot was overwritten
  keyLost         \* history: a new key could not be stored

flash == <<app, storage, boot>>
mgr == <<inProgress, storageUpdate, target, handle, written, window, edition>>
keyvars == <<apiKey, storedKey, shown, keyLost>>
request == <<job, uploads>>
vars == <<chip, flash, running, mgr, at, remaining, answer, keyvars, request, restarts, pieces, excused>>

Slots == {1, 2}
Kinds == {"none", "firmware", "storage", "bundle"}
WithFirmware == {"firmware", "bundle"}
Erased == [img |-> Blank, filled |-> 0]
NoFiles == [len |-> 0, filled |-> {}]
NoJob == [kind |-> "none", img |-> Blank, files |-> 0]

TypeOK ==
  /\ chip \in Slots /\ boot \in Slots /\ running \in Slots /\ target \in Slots
  /\ app \in [Slots -> [img : Images \cup {Blank}, filled : Nat]]
  /\ storage \in [len : Files \cup {0}, filled : SUBSET (1 .. StorageSize)]
  /\ {inProgress, storageUpdate, handle, excused, keyLost} \subseteq BOOLEAN
  /\ written \in Nat /\ remaining \in Nat /\ pieces \in Nat
  /\ window \in 0 .. Window
  /\ edition \in Editions \cup {"none"}
  /\ at \in {"idle", "begin", "firmware", "second", "storage", "restart"}
  /\ job \in [kind : Kinds, img : Images \cup {Blank}, files : Files \cup {0}]
  /\ answer \in {"none", "ok", "failed"}
  /\ uploads \in 0 .. MaxUploads /\ restarts \in 0 .. MaxRestarts
  /\ {apiKey, storedKey, shown} \subseteq 0 .. MaxUploads + MaxRestarts + 1

\* What the bootloader and esp_ota_end check of an image.
Sound(s) == app[s].img.sound /\ app[s].filled = app[s].img.len

Whole(f) == [len |-> f, filled |-> 1 .. f]

\* FIRMWARE_EDITION of the code that runs.
OwnEdition == app[running].img.edition

\* The code modelled here runs, not a firmware from before editions.
Ours == Marked(app[running].img)

Init ==
  /\ chip \in Slots
  /\ \E i \in Images, f \in Files :
       /\ i.sound /\ Marked(i) /\ f <= StorageSize
       /\ app = [s \in Slots |-> IF s = 1 THEN [img |-> i, filled |-> i.len] ELSE Erased]
       /\ storage = Whole(f)
  /\ boot = 1 /\ running = 1
  /\ inProgress = FALSE /\ storageUpdate = FALSE /\ target = 1 /\ handle = FALSE
  /\ written = 0 /\ window = 0 /\ edition = "none"
  /\ apiKey = 0 /\ storedKey = 0 /\ shown = 0
  /\ at = "idle" /\ job = NoJob /\ remaining = 0 /\ answer = "none"
  /\ uploads = 0 /\ restarts = 0 /\ pieces = 0 /\ excused = FALSE /\ keyLost = FALSE

(***************************************************************************)
(* The key of the upload page                                              *)
(***************************************************************************)
\* A random key is like no earlier one.
NewKey == uploads + restarts + 1

\* generate_secure_ota_key: the key is used even if it cannot be stored.
GenerateKey ==
  /\ apiKey' = NewKey
  /\ \/ storedKey' = NewKey /\ UNCHANGED keyLost
     \/ keyLost' = TRUE /\ UNCHANGED storedKey

\* NVS cannot be read: there is no key until the next request.
KeyUnreadable == apiKey = 0 /\ UNCHANGED <<apiKey, storedKey, keyLost>>

\* get_ota_api_key: load_or_generate_ota_key unless there is a key.
HaveKey ==
  \/ apiKey # 0 /\ UNCHANGED <<apiKey, storedKey, keyLost>>
  \/ apiKey = 0 /\ storedKey # 0 /\ apiKey' = storedKey /\ UNCHANGED <<storedKey, keyLost>>
  \/ apiKey = 0 /\ storedKey = 0 /\ GenerateKey
  \/ KeyUnreadable

\* ota_status_handler, which the page asks for the key it shows.
ShowKey ==
  /\ at = "idle" /\ Ours
  /\ HaveKey
  /\ shown' = apiKey'
  /\ UNCHANGED <<chip, flash, running, mgr, at, remaining, answer, request, restarts, pieces, excused>>

(***************************************************************************)
(* The manager                                                             *)
(***************************************************************************)
\* External: the slot after the running one; with one slot, the running one.
NextUpdatePartition == IF chip = 2 THEN 3 - running ELSE running

\* Does not notice that there is one slot only.
AnySlotSupported == TRUE

\* firmware_update_supported
Supported == NextUpdatePartition # running

\* Forgets to clear the edition found in an earlier image.
BeginOtaKeepingEdition ==
  /\ ~inProgress /\ Supported
  /\ target' = NextUpdatePartition
  /\ app' = [app EXCEPT ![NextUpdatePartition] = Erased]
  /\ inProgress' = TRUE /\ storageUpdate' = FALSE /\ handle' = TRUE
  /\ written' = 0 /\ window' = 0
  /\ UNCHANGED <<storage, boot, edition>>

\* begin_ota_update
BeginOta ==
  /\ ~inProgress /\ Supported
  /\ target' = NextUpdatePartition
  /\ app' = [app EXCEPT ![NextUpdatePartition] = Erased]
  /\ inProgress' = TRUE /\ storageUpdate' = FALSE /\ handle' = TRUE
  /\ written' = 0 /\ window' = 0 /\ edition' = "none"
  /\ UNCHANGED <<storage, boot>>

\* begin_ota_update is refused, or esp_ota_begin fails before or after it erased the slot.
BeginOtaFails ==
  /\ \/ (inProgress \/ ~Supported) /\ UNCHANGED <<target, app>>
     \/ /\ ~inProgress /\ Supported
        /\ target' = NextUpdatePartition
        /\ app' \in {app, [app EXCEPT ![NextUpdatePartition] = Erased]}
  /\ UNCHANGED <<storage, boot, inProgress, storageUpdate, handle, written, window, edition>>

\* Starts writing where the part before it ended.
BeginStorageBehind ==
  /\ ~inProgress /\ job.files <= StorageSize
  /\ storage' = NoFiles
  /\ inProgress' = TRUE /\ storageUpdate' = TRUE
  /\ UNCHANGED <<app, boot, target, handle, written, window, edition>>

\* begin_storage_update: the partition is erased before anything is received.
BeginStorage ==
  /\ ~inProgress /\ job.files <= StorageSize
  /\ storage' = NoFiles
  /\ inProgress' = TRUE /\ storageUpdate' = TRUE /\ written' = 0
  /\ UNCHANGED <<app, boot, target, handle, window, edition>>

\* begin_storage_update is refused, or erasing fails half-way.
BeginStorageFails ==
  /\ \/ (inProgress \/ job.files > StorageSize) /\ UNCHANGED storage
     \/ ~inProgress /\ job.files <= StorageSize /\ storage' \in {storage, NoFiles}
  /\ UNCHANGED <<app, boot, mgr>>

\* abort_ota_update
AbortOta ==
  /\ inProgress' = FALSE
  /\ storageUpdate' = (storageUpdate /\ ~inProgress)
  /\ handle' = (handle /\ (storageUpdate \/ ~inProgress))

\* No abort: the manager is left as it is.
AbortNothing == UNCHANGED <<inProgress, storageUpdate, handle>>

\* The handlers' cleanup after a failure; a failed write has called it before.
Cleanup == AbortOta

Smaller(m, n) == IF m < n THEN m ELSE n

\* Does an upload part's next n bytes complete the marker, in the tail of the chunk before
\* joined with the head of this one, or within this one?
InJoined(n) ==
  /\ job.img.from + window > written
  /\ job.img.to <= written + Smaller(n, Window)
InChunk(n) == job.img.from > written /\ job.img.to <= written + n
Completes(n) == Marked(job.img) /\ (InJoined(n) \/ InChunk(n))

\* scan_for_edition
Scan(n) ==
  IF edition # "none" THEN UNCHANGED <<edition, window>>
  ELSE IF Completes(n) THEN edition' = job.img.edition /\ UNCHANGED window
  ELSE window' = Smaller(n, Window) /\ UNCHANGED edition

\* validate_firmware_header, asked of the first chunk only.
HeaderAccepted(n) == written # 0 \/ (n >= HeaderLen /\ job.img.header)

ImageEdition == IF edition = "none" THEN "Standalone" ELSE edition

(***************************************************************************)
(* The upload handlers                                                     *)
(***************************************************************************)
Fails == at' = "idle" /\ answer' = "failed"

\* A request with the key the page showed; the handler authenticates it.
Request(kind, img, files) ==
  /\ at = "idle" /\ Ours /\ uploads < MaxUploads
  /\ HaveKey
  /\ uploads' = uploads + 1
  /\ job' = [kind |-> kind, img |-> img, files |-> files]
  /\ \/ shown # 0 /\ apiKey' = shown /\ at' = "begin" /\ answer' = "none"
     \/ (shown = 0 \/ apiKey' # shown) /\ Fails
  /\ UNCHANGED <<chip, flash, running, mgr, remaining, shown, restarts, pieces, excused>>

RequestFirmware == \E i \in Images : Request("firmware", i, 0)
RequestStorage == \E f \in Files : Request("storage", Blank, f)
RequestBundle == \E i \in Images, f \in Files : Request("bundle", i, f)

\* The chip has one slot, or the bundle's header or a buffer for it is not to be had.
RefuseFirmware ==
  /\ at = "begin" /\ job.kind \in WithFirmware
  /\ ~Supported \/ job.kind = "bundle"
  /\ Fails
  /\ UNCHANGED <<chip, flash, running, mgr, remaining, keyvars, request, restarts, pieces, excused>>

StartFirmware ==
  /\ at = "begin" /\ job.kind \in WithFirmware
  /\ BeginOta
  /\ at' = "firmware" /\ remaining' = job.img.len
  /\ pieces' = 0 /\ excused' = (excused \/ target' = boot)
  /\ UNCHANGED <<chip, running, answer, keyvars, request, restarts>>

FirmwareNotStarted ==
  /\ at = "begin" /\ job.kind \in WithFirmware
  /\ BeginOtaFails
  /\ Fails
  /\ UNCHANGED <<chip, running, remaining, keyvars, request, restarts, pieces, excused>>

Chunks == 1 .. Smaller(Buffer, remaining)

\* write_ota_data of a chunk of firmware
ReceiveFirmware ==
  /\ at = "firmware"
  /\ \E n \in Chunks :
       /\ HeaderAccepted(n)
       /\ Scan(n)
       /\ app' = [app EXCEPT ![target] = [img |-> job.img, filled |-> written + n]]
       /\ written' = written + n /\ remaining' = remaining - n
       /\ pieces' = IF written < job.img.to /\ job.img.from <= written + n THEN pieces + 1 ELSE pieces
  /\ excused' = (excused \/ pieces' > 2)
  /\ UNCHANGED <<chip, storage, boot, running, inProgress, storageUpdate, target, handle,
                 at, answer, keyvars, request, restarts>>

\* Nothing, too little or no firmware is received, there is no buffer, or a write fails.
FirmwareFails ==
  /\ at = "firmware" /\ remaining > 0
  /\ \/ UNCHANGED <<edition, window>>
     \/ \E n \in Chunks : HeaderAccepted(n) /\ Scan(n)
  /\ Cleanup
  /\ Fails
  /\ UNCHANGED <<chip, flash, running, target, written, remaining, keyvars, request, restarts,
                 pieces, excused>>

\* end_ota_update of an image that is broken or another edition's, or that cannot be
\* finished or selected; nothing is aborted, as the flag is down already.
FirmwareRefused ==
  /\ at = "firmware" /\ remaining = 0
  /\ inProgress' = FALSE /\ handle' = FALSE
  /\ Fails
  /\ UNCHANGED <<chip, flash, running, storageUpdate, target, written, window, edition, remaining,
                 keyvars, request, restarts, pieces, excused>>

\* end_ota_update selects the image for the next start.
FirmwareAccepted ==
  /\ at = "firmware" /\ remaining = 0
  /\ Sound(target) /\ ImageEdition = OwnEdition
  /\ boot' = target
  /\ inProgress' = FALSE /\ handle' = FALSE
  /\ IF job.kind = "bundle" THEN at' = "second" /\ UNCHANGED answer
                            ELSE at' = "restart" /\ answer' = "ok"
  /\ UNCHANGED <<chip, app, storage, running, storageUpdate, target, written, window, edition,
                 remaining, keyvars, request, restarts, pieces, excused>>

AtStorage == at = "second" \/ (at = "begin" /\ job.kind = "storage")

StartStorage ==
  /\ AtStorage
  /\ BeginStorage
  /\ at' = "storage" /\ remaining' = job.files
  /\ UNCHANGED <<chip, running, answer, keyvars, request, restarts, pieces, excused>>

StorageNotStarted ==
  /\ AtStorage
  /\ BeginStorageFails
  /\ Fails
  /\ UNCHANGED <<chip, running, remaining, keyvars, request, restarts, pieces, excused>>

\* write_ota_data of a chunk of the web interface, at the offset written so far
ReceiveStorage ==
  /\ at = "storage"
  /\ \E n \in Chunks :
       /\ written + n <= StorageSize
       /\ storage' = [len |-> job.files, filled |-> storage.filled \cup (written + 1 .. written + n)]
       /\ written' = written + n /\ remaining' = remaining - n
  /\ UNCHANGED <<chip, app, boot, running, inProgress, storageUpdate, target, handle, window, edition,
                 at, answer, keyvars, request, restarts, pieces, excused>>

\* Nothing is received, there is no buffer, or a write fails.
StorageFails ==
  /\ at = "storage" /\ remaining > 0
  /\ Cleanup
  /\ Fails
  /\ UNCHANGED <<chip, flash, running, target, written, window, edition, remaining, keyvars, request,
                 restarts, pieces, excused>>

\* end_ota_update of the web interface; only a bundle restarts the device.
EndStorage ==
  /\ at = "storage" /\ remaining = 0
  /\ inProgress' = FALSE /\ storageUpdate' = FALSE
  /\ answer' = "ok"
  /\ at' = IF job.kind = "bundle" THEN "restart" ELSE "idle"
  /\ UNCHANGED <<chip, flash, running, target, handle, written, window, edition, remaining, keyvars,
                 request, restarts, pieces, excused>>

(***************************************************************************)
(* Restarts                                                                *)
(***************************************************************************)
\* External: the bootloader takes the selected slot, or the other if that is not sound.
Bootable == IF Sound(boot) THEN boot ELSE 3 - boot

Reboot ==
  /\ running' = Bootable
  /\ inProgress' = FALSE /\ storageUpdate' = FALSE /\ target' = 1 /\ handle' = FALSE
  /\ written' = 0 /\ window' = 0 /\ edition' = "none"
  /\ apiKey' = 0 /\ at' = "idle" /\ remaining' = 0 /\ pieces' = 0
  /\ UNCHANGED <<chip, flash, answer, storedKey, shown, keyLost, request, excused>>

\* esp_restart, three seconds after the answer
Restart == at = "restart" /\ Reboot /\ UNCHANGED restarts

\* At any time: power fails, the user asks for a restart, another component restarts.
PowerFails == restarts < MaxRestarts /\ restarts' = restarts + 1 /\ Reboot

Next ==
  \/ ShowKey
  \/ RequestFirmware \/ RequestStorage \/ RequestBundle
  \/ RefuseFirmware \/ StartFirmware \/ FirmwareNotStarted
  \/ ReceiveFirmware \/ FirmwareFails \/ FirmwareRefused \/ FirmwareAccepted
  \/ StartStorage \/ StorageNotStarted \/ ReceiveStorage \/ StorageFails \/ EndStorage
  \/ Restart \/ PowerFails

Spec == Init /\ [][Next]_vars

(***************************************************************************)
(* Properties                                                              *)
(***************************************************************************)
\* Whichever step of an upload failed, the manager is free for the next one: a flag or a
\* handle left behind would refuse every update until a restart.
ReadyWhenIdle ==
  at \in {"idle", "begin", "second", "restart"} => ~inProgress /\ ~storageUpdate /\ ~handle

\* Power may fail at any step of an upload: the bootloader finds a sound image.
AlwaysBoots == \E s \in Slots : s <= chip /\ Sound(s)

\* A restart never brings up the other edition, whatever was sent, unless a marker came in
\* three chunks or an upload overwrote the slot that was already selected.
KeepsEdition == [][OwnEdition' = OwnEdition \/ excused']_vars

\* What the user was told stays true until the next upload: the parts sent are in flash,
\* whole and in their place, and after the restart the new firmware is the one that runs.
KeepsItsWord ==
  answer = "ok" =>
    /\ job.kind # "firmware" => storage = Whole(job.files)
    /\ job.kind # "storage" => app[boot].img = job.img /\ Sound(boot)
    /\ job.kind # "storage" /\ at = "idle" => running = boot

\* The key the page showed is the one uploads are asked for, before and after restarts,
\* unless it could never be stored.
ShownKeyWorks ==
  shown # 0 /\ ~keyLost => apiKey = shown \/ (apiKey = 0 /\ storedKey = shown)
=============================================================================
