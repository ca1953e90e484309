---------------------------- MODULE MCFsckRecords ----------------------------
(***************************************************************************)
(* Instances of FsckRecords for TLC.  Two ext4 partitions are enough for a *)
(* mount sequence that stops before the last one, and for one record being *)
(* saved or drained while another waits.                                   *)
(***************************************************************************)
EXTENDS FsckRecords

MCExt4 == <<"etc", "data">>

\* One is enough for liveness: the partitions do not wait for each other.
MCData == <<"data">>

\* A GRUB release image, where a boot goes on without an environment, and a U-Boot
\* debug image, where that aborts it.
MCBuilds == {[release |-> TRUE, grub |-> TRUE], [release |-> FALSE, grub |-> FALSE]}
MCDebug == {[release |-> FALSE, grub |-> g] : g \in BOOLEAN}
MCUboot == {[release |-> TRUE, grub |-> FALSE]}
=============================================================================
