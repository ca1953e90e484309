------------------------------ MODULE UrlMode ------------------------------
(***************************************************************************)
(* Flash mode 3 (mode/flash/url.rs): download an image and its sha256      *)
(* file, check the image and write it onto the running disk.  There is no  *)
(* retry.  Unmount, network and the new partition table are those of       *)
(* ScpMode.                                                                *)
(***************************************************************************)
EXTENDS ScpMode

CONSTANTS
  Images,      \* what the image URL may serve: [match, packed, size, len]
  RamSizes,    \* the available RAM
  RamReserve   \* what must stay free of it

(***************************************************************************)
(* An image: match - its sha256 is that of the sha256 file; packed - the   *)
(* size of the download; size - the length its xz index records, None when *)
(* the file is no valid xz; len - the length it decodes to.                *)
(***************************************************************************)

\* The length in the index is a u64; the stream may decode to any length.
ASSUME ServedAssumption ==
  \A img \in Images : img.size \in {None} \cup 0 .. MaxU /\ img.len \in Nat

UrlRest == UNCHANGED <<build, env, flag, nvram, clone, error, mode, cfg, mounts, step, old,
                       plan, up, calm>>

SelectUrl ==
  /\ stage = "select" /\ mode = "3"
  /\ IF Usable(cfg.image) /\ Usable(cfg.sha)
     THEN To("unmount") /\ UNCHANGED result
     ELSE EndRun("failed")
  /\ UNCHANGED <<disk, table, got, hist>> /\ UrlRest

\* The download of the sha256 file, limited to 4096 bytes, and its digest, the
\* first field of it.
DownloadSha(fails) ==
  /\ stage = "sha"
  /\ fails \in Fault
  /\ IF fails THEN EndRun("failed") ELSE To("ram") /\ UNCHANGED result
  /\ UNCHANGED <<disk, table, got, hist>> /\ UrlRest

(***************************************************************************)
(* The image may take the RAM that is available beyond the reserve.  curl  *)
(* reads a limit of 0 as no limit, so 0 must never reach it.               *)
(***************************************************************************)
CurlAllows(limit, packed) == limit = 0 \/ packed <= limit

RamSuffices(ram) == ram > RamReserve

DownloadImage(ram, img, fails) ==
  /\ stage = "ram"
  /\ fails \in Fault
  /\ IF fails \/ ~RamSuffices(ram) \/ ~CurlAllows(ram - RamReserve, img.packed)
     THEN EndRun("failed") /\ UNCHANGED got
     ELSE /\ To("check") /\ UNCHANGED result
          /\ got' = img
  /\ UNCHANGED <<disk, table, hist>> /\ UrlRest

\* The digest, a valid index, an image that is not empty and fits the disk.
ImageOk(img) == img.match /\ img.size # None /\ img.size # 0 /\ img.size <= DiskLen

CheckImage(fails) ==
  /\ stage = "check"
  /\ fails \in Fault
  /\ IF fails \/ ~ImageOk(got) THEN EndRun("failed") ELSE To("write") /\ UNCHANGED result
  /\ UNCHANGED <<disk, table, got, hist>> /\ UrlRest

\* write_image: an error of an open leaves the disk alone, every later one counts
\* as partly written.  decode_into never writes beyond the recorded size.
OpenFails ==
  /\ stage = "write" /\ Faulty
  /\ EndRun("failed")
  /\ UNCHANGED <<disk, table, got, hist>> /\ UrlRest

ImageBytes(img) == {b \in Bytes : b < img.size /\ b < img.len}

WriteImage(fails, s) ==
  /\ stage = "write"
  /\ fails \in Fault
  /\ LET ok == ~fails /\ got.len = got.size /\ got.size <= DiskLen
     IN  /\ s \subseteq ImageBytes(got)
         /\ ok => s = ImageBytes(got)
         /\ disk' = Copied([len |-> got.size, flip |-> None], s)
         /\ table' = (table /\ s = {})
         /\ hist' = [hist EXCEPT !.want = 0 .. got.size - 1, !.io = @ \/ fails]
         /\ IF ok THEN To("reread") /\ UNCHANGED result ELSE EndRun("partly")
  /\ UNCHANGED got /\ UrlRest

\* What the disk may hold when power is lost in a write.
UrlCut ==
  IF stage = "write"
  THEN {Copied([len |-> got.size, flip |-> None], s) : s \in SUBSET ImageBytes(got)}
  ELSE {disk}

\* In the end the server has the right image.
ServedImages == IF calm THEN {i \in Images : ImageOk(i) /\ i.len = i.size} ELSE Images

UrlNext ==
  \/ SelectUrl \/ OpenFails
  \/ \E fails \in BOOLEAN : DownloadSha(fails) \/ CheckImage(fails)
  \/ \E ram \in RamSizes, img \in ServedImages, fails \in BOOLEAN : DownloadImage(ram, img, fails)
  \/ stage = "write" /\ \E fails \in BOOLEAN :
       \E s \in SUBSET ImageBytes(got) : WriteImage(fails, s)
=============================================================================
