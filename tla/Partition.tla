----------------------------- MODULE Partition -----------------------------
(***************************************************************************)
(* The root device and the partition layout (partition/device.rs,          *)
(* layout.rs): pure functions from the kernel command line and the names   *)
(* the kernel gives to block devices to the device of every partition.     *)
(* RootHandover runs them.                                                 *)
(*                                                                         *)
(* A device name is a sequence of characters, without the "/dev/": what    *)
(* can go wrong here is to cut it at the wrong place.                      *)
(***************************************************************************)
EXTENDS Naturals, SequencesExt

CONSTANT Failed      \* Err of a Result, or a value that is absent or cannot be parsed

Digit(n) == <<"0", "1", "2", "3", "4", "5", "6", "7", "8", "9">>[n + 1]
Digits == {Digit(n) : n \in 0 .. 9}

\* The kernel puts a "p" between a disk name that ends in a digit and the number.
partition_sep_for_name(disk) ==
  IF disk # <<>> /\ Last(disk) \in Digits THEN <<"p">> ELSE <<>>

partition_path(disk, sep, num) == disk \o sep \o <<Digit(num)>>

\* The name without the digits at its end.
Stem(name) ==
  SubSeq(name, 1, CHOOSE n \in 0 .. Len(name) :
    /\ n = 0 \/ name[n] \notin Digits
    /\ \A i \in n + 1 .. Len(name) : name[i] \in Digits)

(***************************************************************************)
(* split_partition_suffix: the disk name and the separator of a partition  *)
(* name.  A "p" before the number is the separator only behind a digit:    *)
(* sdp1 is a partition of sdp, mmcblk1p1 one of mmcblk1.                   *)
(***************************************************************************)

\* Mutated form of split_partition_suffix: the "p" stays with the disk name.
SplitKeepsP(name) ==
  LET stem == Stem(name)
  IN  IF stem = <<>> \/ stem = name THEN Failed
      ELSE [base |-> stem, sep |-> partition_sep_for_name(stem)]

split_partition_suffix(name) ==
  LET stem == Stem(name)
      base == IF Last(stem) = "p" /\ partition_sep_for_name(Front(stem)) = <<"p">>
              THEN Front(stem) ELSE stem
  IN  IF stem = <<>> \/ stem = name THEN Failed
      ELSE [base |-> base, sep |-> partition_sep_for_name(base)]

\* The number at the end of a partition name; the partitions of an image have one
\* digit.
PartitionSuffix(name) ==
  IF Len(name) # Len(Stem(name)) + 1 THEN Failed
  ELSE CHOOSE n \in 0 .. 9 : Digit(n) = Last(name)

RootDevice(base, sep, root) == [base |-> base, sep |-> sep, root |-> root]

\* GRUB: the disk of the boot partition blkid found, and the number of rootpart=.
root_device_from_blkid(bootPart, num) ==
  LET s == split_partition_suffix(bootPart)
  IN  IF s = Failed THEN Failed
      ELSE RootDevice(s.base, s.sep, partition_path(s.base, s.sep, num))

\* U-Boot: root= is the name of the root partition.
parse_device_path(path) ==
  LET s == split_partition_suffix(path)
  IN  IF s = Failed THEN Failed ELSE RootDevice(s.base, s.sep, path)

(***************************************************************************)
(* The partition numbers of the image.  With a DOS table number 4 is the   *)
(* extended container, and the logical partitions follow it.               *)
(***************************************************************************)
BootNum == 1
RootANum == 2
RootBNum == 3

PartitionNumbers(gpt) ==
  IF gpt
  THEN [boot |-> BootNum, rootA |-> RootANum, rootB |-> RootBNum,
        factory |-> 4, cert |-> 5, etc |-> 6, data |-> 7]
  ELSE [boot |-> BootNum, rootA |-> RootANum, rootB |-> RootBNum,
        extended |-> 4, factory |-> 5, cert |-> 6, etc |-> 7, data |-> 8]

\* The device of every partition; a root partition that is neither rootA nor
\* rootB is an error.
build_partition_map(dev, gpt) ==
  LET num == PartitionNumbers(gpt)
      cur == PartitionSuffix(dev.root)
  IN  IF cur \notin {RootANum, RootBNum} THEN Failed
      ELSE [p \in DOMAIN num \cup {"rootCurrent"} |->
              partition_path(dev.base, dev.sep, IF p = "rootCurrent" THEN cur ELSE num[p])]

\* The links of /dev/omnect: the disk and every partition.
OmnectSymlinks(dev, gpt) ==
  LET map == build_partition_map(dev, gpt)
  IN  IF map = Failed THEN Failed
      ELSE [p \in DOMAIN map \cup {"rootblk"} |-> IF p = "rootblk" THEN dev.base ELSE map[p]]
=============================================================================
