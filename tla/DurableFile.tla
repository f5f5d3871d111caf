----------------------------- MODULE DurableFile -----------------------------
(***************************************************************************)
(* What the persistence layer is entitled to assume about one file (or one *)
(* directory) behind its Vfs seam, as src/persist/vfs.rs uses it and       *)
(* tests/powerloss_harness.rs models it.                                   *)
(*                                                                         *)
(* A file is a record [vis, crash].  "vis" is the image a running process  *)
(* reads (the page cache) and survives the death of the process.  "crash"  *)
(* is the set of images a power cut may leave behind: the last synced one, *)
(* and that image with a prefix of the later writes applied, the last of   *)
(* them possibly torn.  The visible image is always one of them.           *)
(***************************************************************************)

File(Image) == {f \in [vis : Image, crash : SUBSET Image] : f.vis \in f.crash}

(* A file whose only image, on the disk and in the cache, is img.          *)
Durable(img) == [vis |-> img, crash |-> {img}]

(* write without sync: img is visible at once, and any of the earlier crash *)
(* images, a torn write or img itself may be what a power cut leaves.      *)
Written(f, img, torn) == [vis |-> img, crash |-> f.crash \cup torn \cup {img}]

(* sync_all (fsync_dir for a directory) that returned Ok.                  *)
Synced(f) == Durable(f.vis)

(* A write that failed part-way: nothing reached the file, or a torn write *)
(* did.                                                                    *)
FailedWrite(f, torn) == {f} \cup {Written(f, t, torn) : t \in torn}

(* A complete write whose sync returned Err: the bytes are still only in   *)
(* the cache, or the kernel wrote them back all the same.                  *)
FailedSync(f, img, torn) == {Written(f, img, torn), Durable(img)}

(* Every outcome of a write-then-sync that did not return Ok.  A process   *)
(* killed between the two steps leaves one of these too.                   *)
Interrupted(f, img, torn) == FailedWrite(f, torn) \cup FailedSync(f, img, torn)

=============================================================================
