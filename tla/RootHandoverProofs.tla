------------------------- MODULE RootHandoverProofs -------------------------
(***************************************************************************)
(* Theorems about the way to the init of the rootfs, for every image,      *)
(* every disk name, every set of links and every number of boots and power *)
(* losses: /dev/omnect names the disk the bootloader started from; a boot  *)
(* that fails on the initramfs keeps its mounts; a mounted /etc has its    *)
(* factory defaults; a list of links is gone only when its links are       *)
(* there; and the early modules that are reported are those that are not   *)
(* there, each for a reason.                                               *)
(***************************************************************************)
EXTENDS RootHandover, SequenceTheorems, InductionFacts

-----------------------------------------------------------------------------
(***************************************************************************)
(* Device names (partition/device.rs).                                     *)
(***************************************************************************)

(***************************************************************************)
(* The ten digits differ from each other and from the separator.           *)
(***************************************************************************)
LEMMA DigitFacts ==
  /\ \A n \in 0 .. 9 : Digit(n) \in Digits
  /\ \A m, n \in 0 .. 9 : Digit(m) = Digit(n) => m = n
  /\ "p" \notin Digits
<1>1. \A n \in 0 .. 9 : Digit(n) \in Digits
  BY DEF Digits
<1>2. ASSUME NEW m \in 0 .. 9, NEW n \in 0 .. 9, Digit(m) = Digit(n) PROVE m = n
  <2>1. m \in {0, 1, 2, 3, 4, 5, 6, 7, 8, 9} /\ n \in {0, 1, 2, 3, 4, 5, 6, 7, 8, 9}
    OBVIOUS
  <2> QED
    BY <1>2, <2>1 DEF Digit
<1>3. "p" \notin Digits
  BY DEF Digit, Digits
<1> QED
  BY <1>1, <1>2, <1>3

(***************************************************************************)
(* The digits at the end of a name are found where they begin: a number of *)
(* one digit behind a name that does not end in one.                       *)
(***************************************************************************)
LEMMA StemOf ==
  ASSUME NEW S, Digits \subseteq S, NEW s \in Seq(S), NEW n \in 0 .. 9,
         s = <<>> \/ Last(s) \notin Digits
  PROVE  Stem(s \o <<Digit(n)>>) = s
<1> DEFINE name == s \o <<Digit(n)>>
<1>1. Digit(n) \in S /\ Digit(n) \in Digits
  BY DigitFacts
<1>2. Len(s) \in Nat /\ <<Digit(n)>> \in Seq(S) /\ Len(<<Digit(n)>>) = 1
  BY <1>1
<1>3. /\ name \in Seq(S) /\ Len(name) = Len(s) + 1
      /\ \A i \in 1 .. Len(s) : name[i] = s[i]
      /\ name[Len(s) + 1] = Digit(n)
  BY <1>1, <1>2
<1> DEFINE Cut(k) == /\ k = 0 \/ name[k] \notin Digits
                     /\ \A i \in k + 1 .. Len(name) : name[i] \in Digits
<1>4. Len(s) \in 0 .. Len(name) /\ Cut(Len(s))
  <2>1. s = <<>> <=> Len(s) = 0
    BY EmptySeq
  <2>2. Len(s) = 0 \/ name[Len(s)] \notin Digits
    BY <1>2, <1>3, <2>1 DEF Last
  <2>3. \A i \in Len(s) + 1 .. Len(name) : i = Len(s) + 1
    BY <1>2, <1>3
  <2> QED
    BY <1>1, <1>2, <1>3, <2>2, <2>3
<1>5. ASSUME NEW k \in 0 .. Len(name), Cut(k) PROVE k = Len(s)
  <2>1. k # Len(s) + 1
    BY <1>1, <1>2, <1>3, <1>5
  <2>2. CASE k < Len(s)
    <3>1. Len(s) \in k + 1 .. Len(name) /\ Len(s) # 0
      BY <1>2, <1>3, <2>2
    <3>2. name[Len(s)] \in Digits
      BY <1>5, <3>1
    <3> QED
      BY <1>4, <3>1, <3>2
  <2> QED
    BY <1>2, <1>3, <2>1, <2>2
<1>6. (CHOOSE k \in 0 .. Len(name) : Cut(k)) = Len(s)
  BY <1>4, <1>5
<1>7. Stem(name) = SubSeq(name, 1, Len(s))
  BY <1>6 DEF Stem
<1>8. SubSeq(name, 1, Len(s)) = s
  <2> DEFINE t == SubSeq(name, 1, Len(s))
  <2>1. \A i \in 1 .. Len(s) : name[i] \in S
    BY <1>2, <1>3
  <2>2. /\ t \in Seq(S) /\ Len(t) = Len(s)
        /\ \A i \in 1 .. Len(s) : t[i] = s[i]
    BY <1>2, <1>3, <2>1, SubSeqProperties
  <2> HIDE DEF t
  <2> QED
    BY <2>2, SeqEqual
<1> QED
  BY <1>7, <1>8

(***************************************************************************)
(* The name of a disk with its separator does not end in a digit.          *)
(***************************************************************************)
LEMMA SepFacts ==
  ASSUME NEW S, Digits \cup {"p"} \subseteq S, NEW disk \in Seq(S), DiskNamed(disk)
  PROVE  LET sep == partition_sep_for_name(disk)
         IN  /\ sep \in Seq(S) /\ disk \o sep \in Seq(S)
             /\ sep = <<>> \/ sep = <<"p">>
             /\ sep = <<>> => disk \o sep = disk /\ Last(disk) \notin Digits
             /\ disk \o sep # <<>> /\ Last(disk \o sep) \notin Digits
             /\ sep = <<"p">> => Last(disk \o sep) = "p" /\ Front(disk \o sep) = disk
<1> DEFINE sep == partition_sep_for_name(disk)
<1>1. disk \in Seq(S) /\ disk # <<>> /\ Len(disk) \in Nat \ {0}
  BY EmptySeq DEF DiskNamed
<1>2. CASE Last(disk) \in Digits
  <2>0. sep = <<"p">>
    BY <1>1, <1>2 DEF partition_sep_for_name
  <2>1. sep = <<"p">> /\ sep \in Seq(S)
    BY <2>0
  <2>2. /\ disk \o sep \in Seq(S) /\ Len(disk \o sep) = Len(disk) + 1
        /\ \A i \in 1 .. Len(disk) : (disk \o sep)[i] = disk[i]
        /\ (disk \o sep)[Len(disk) + 1] = "p"
    BY <1>1, <2>1
  <2>3. disk \o sep # <<>> /\ Last(disk \o sep) = "p"
    BY <1>1, <2>2 DEF Last
  <2>4. Front(disk \o sep) = disk
    <3> DEFINE t == SubSeq(disk \o sep, 1, Len(disk))
    <3>1. \A i \in 1 .. Len(disk) : (disk \o sep)[i] \in S
      BY <1>1, <2>2
    <3>2. /\ t \in Seq(S) /\ Len(t) = Len(disk)
          /\ \A i \in 1 .. Len(disk) : t[i] = disk[i]
      BY <1>1, <2>2, <3>1, SubSeqProperties
    <3>3. Front(disk \o sep) = t
      BY <1>1, <2>2 DEF Front
    <3> HIDE DEF t
    <3> QED
      BY <1>1, <3>2, <3>3, SeqEqual
  <2> QED
    BY <2>1, <2>2, <2>3, <2>4, DigitFacts
<1>3. CASE Last(disk) \notin Digits
  <2>1. sep = <<>> /\ sep \in Seq(S)
    BY <1>3 DEF partition_sep_for_name
  <2>2. disk \o sep = disk
    BY <1>1, <2>1
  <2> QED
    BY <1>1, <1>3, <2>1, <2>2
<1> QED
  BY <1>2, <1>3

(***************************************************************************)
(* split_partition_suffix inverts partition_path for every disk the kernel *)
(* can name, a disk whose name ends in a "p" and one whose name ends in a  *)
(* digit included: what it cuts off is the number and the separator, and   *)
(* nothing of the name.                                                    *)
(***************************************************************************)
THEOREM SplitInvertsPath ==
  ASSUME NEW disk, DiskNamed(disk), NEW n \in 0 .. 9
  PROVE  LET sep == partition_sep_for_name(disk)
         IN  split_partition_suffix(partition_path(disk, sep, n)) = [base |-> disk, sep |-> sep]
<1> DEFINE S == ToSet(disk) \cup Digits \cup {"p"}
           sep == partition_sep_for_name(disk)
           stem == disk \o sep
           name == partition_path(disk, sep, n)
           base == IF Last(stem) = "p" /\ partition_sep_for_name(Front(stem)) = <<"p">>
                   THEN Front(stem) ELSE stem
<1>a. disk \in Seq(S)
  BY SeqMonotonic DEF DiskNamed
<1> HIDE DEF S
<1>b. Digits \cup {"p"} \subseteq S
  BY DEF S
<1>1. /\ sep = <<>> \/ sep = <<"p">>
      /\ sep = <<>> => stem = disk
      /\ stem \in Seq(S) /\ stem # <<>> /\ Last(stem) \notin Digits
      /\ sep = <<"p">> => Last(stem) = "p" /\ Front(stem) = disk
  BY <1>a, <1>b, SepFacts
<1>2. name = stem \o <<Digit(n)>>
  BY DEF partition_path
<1>3. Stem(name) = stem
  BY <1>b, <1>1, <1>2, StemOf
<1>4. stem # name
  BY <1>b, <1>1, <1>2, DigitFacts
<1>5. base = disk
  <2>1. CASE sep = <<"p">>
    BY <1>1, <2>1
  <2>2. CASE sep = <<>>
    <3>1. ASSUME Last(disk) = "p" PROVE partition_sep_for_name(Front(disk)) = <<>>
      <4>1. disk \in Seq(S) /\ Len(disk) \in Nat \ {0}
        BY <1>a, EmptySeq DEF DiskNamed
      <4>2. CASE Len(disk) = 1
        <5>1. Front(disk) = <<>>
          BY <4>1, <4>2, SubSeqEmpty DEF Front
        <5> QED
          BY <5>1 DEF partition_sep_for_name
      <4>3. CASE Len(disk) # 1
        <5>1. PICK k \in Nat : k >= 1 /\ Len(disk) = k + 1
          <6>1. ASSUME NEW len \in Nat \ {0}, len # 1
                PROVE  \E k \in Nat : k >= 1 /\ len = k + 1
            BY <6>1, len - 1 \in Nat, len = (len - 1) + 1
          <6> QED
            BY <4>1, <4>3, <6>1
        <5>2. k = Len(disk) - 1 /\ k <= Len(disk)
          BY <5>1
        <5>3. disk[k] \notin Digits
          BY <3>1, <4>3, <5>2 DEF DiskNamed
        <5>4. \A i \in 1 .. k : disk[i] \in S
          BY <4>1, <5>2
        <5>5. /\ Len(SubSeq(disk, 1, k)) = k
              /\ \A i \in 1 .. k : SubSeq(disk, 1, k)[i] = disk[i]
          BY <5>1, <5>4, SubSeqProperties
        <5>6. Last(Front(disk)) = disk[k]
          BY <5>1, <5>2, <5>5 DEF Front, Last
        <5> QED
          BY <5>3, <5>6 DEF partition_sep_for_name
      <4> QED
        BY <4>2, <4>3
    <3>2. stem = disk
      BY <1>1, <2>2
    <3>3. <<>> # <<"p">>
      OBVIOUS
    <3> QED
      BY <3>1, <3>2, <3>3
  <2> QED
    BY <1>1, <2>1, <2>2
<1>6. split_partition_suffix(name) = [base |-> base, sep |-> partition_sep_for_name(base)]
  BY <1>1, <1>3, <1>4 DEF split_partition_suffix
<1> QED
  BY <1>5, <1>6

(***************************************************************************)
(* The number at the end of a partition name is the number of the          *)
(* partition.                                                              *)
(***************************************************************************)
LEMMA SuffixOfPath ==
  ASSUME NEW disk, DiskNamed(disk), NEW n \in 0 .. 9
  PROVE  PartitionSuffix(partition_path(disk, partition_sep_for_name(disk), n)) = n
<1> DEFINE S == ToSet(disk) \cup Digits \cup {"p"}
           stem == disk \o partition_sep_for_name(disk)
           name == partition_path(disk, partition_sep_for_name(disk), n)
<1>a. disk \in Seq(S)
  BY SeqMonotonic DEF DiskNamed
<1> HIDE DEF S
<1>b. Digits \cup {"p"} \subseteq S
  BY DEF S
<1>1. stem \in Seq(S) /\ stem # <<>> /\ Last(stem) \notin Digits
  BY <1>a, <1>b, SepFacts
<1>2. name = stem \o <<Digit(n)>>
  BY DEF partition_path
<1>3. Stem(name) = stem
  BY <1>b, <1>1, <1>2, StemOf
<1>4. Len(stem) \in Nat /\ Len(name) = Len(stem) + 1 /\ Last(name) = Digit(n)
  BY <1>b, <1>1, <1>2, DigitFacts DEF Last
<1>5. (CHOOSE m \in 0 .. 9 : Digit(m) = Last(name)) = n
  BY <1>4, DigitFacts
<1> HIDE DEF stem, name
<1>6. PartitionSuffix(name) = n
  BY <1>3, <1>4, <1>5 DEF PartitionSuffix
<1> QED
  BY <1>6 DEF name

(***************************************************************************)
(* What detect_root_device and create_omnect_symlinks find for an image is *)
(* the disk it is on, its partitions and the slot that was asked for.      *)
(***************************************************************************)
LEMMA DetectedRight ==
  ASSUME image \in Images, CmdlineUsable, Detected # Failed, Detected.root \in Nodes,
         OmnectSymlinks(Detected, image.gpt) # Failed
  PROVE  OmnectSymlinks(Detected, image.gpt) = BootDiskLinks
<1> DEFINE disk == image.disk
           sep == partition_sep_for_name(disk)
           asked == IF image.grub THEN KernelName(image.cmdline.rootpart)
                    ELSE image.cmdline.root
           num == PartitionNumbers(image.gpt)
<1>1. /\ DiskNamed(disk)
      /\ image.cmdline.rootpart = Failed \/ image.cmdline.rootpart \in 0 .. 9
  BY ImagesAssumption
<1>2. \A n \in 0 .. 9 :
        split_partition_suffix(KernelName(n)) = [base |-> disk, sep |-> sep]
  BY <1>1, SplitInvertsPath DEF KernelName
<1>3. PICK n \in 0 .. 9 : Detected = RootDevice(disk, sep, asked) /\ asked = KernelName(n)
  <2>1. CASE image.grub
    <3>1. image.cmdline.rootpart \in 0 .. 9
      BY <1>1, <2>1 DEF CmdlineUsable
    <3>2. Detected = RootDevice(disk, sep, asked)
      BY <1>2, <2>1 DEF Detected, root_device_from_blkid, BootNum, KernelName
    <3> QED
      BY <2>1, <3>1, <3>2
  <2>2. CASE ~image.grub
    <3>1. Detected.root = asked
      BY <2>2 DEF Detected, parse_device_path, RootDevice
    <3>2. PICK n \in 1 .. 8 : asked = KernelName(n)
      BY <3>1 DEF Nodes
    <3>3. Detected = RootDevice(disk, sep, asked)
      BY <1>2, <2>2, <3>2 DEF Detected, parse_device_path
    <3> QED
      BY <3>2, <3>3
  <2> QED
    BY <2>1, <2>2
<1>4. Detected.base = disk /\ Detected.sep = sep /\ Detected.root = KernelName(n)
  BY <1>3 DEF RootDevice
<1>5. PartitionSuffix(Detected.root) = n
  BY <1>1, <1>4, SuffixOfPath DEF KernelName
<1>6. OmnectSymlinks(Detected, image.gpt) =
        [p \in DOMAIN num \cup {"rootCurrent"} \cup {"rootblk"} |->
           IF p = "rootblk" THEN disk
           ELSE KernelName(IF p = "rootCurrent" THEN n ELSE num[p])]
  <2> DEFINE map == [p \in DOMAIN num \cup {"rootCurrent"} |->
                       KernelName(IF p = "rootCurrent" THEN n ELSE num[p])]
  <2>1. build_partition_map(Detected, image.gpt) = map
    BY <1>4, <1>5 DEF OmnectSymlinks, build_partition_map, KernelName
  <2>2. OmnectSymlinks(Detected, image.gpt) =
          [p \in DOMAIN map \cup {"rootblk"} |-> IF p = "rootblk" THEN disk ELSE map[p]]
    BY <1>4, <2>1 DEF OmnectSymlinks
  <2>3. "rootblk" \notin DOMAIN num
    BY DEF PartitionNumbers
  <2> HIDE DEF num
  <2> QED
    BY <2>2, <2>3
<1>7. BootDiskLinks =
        [p \in DOMAIN num \cup {"rootCurrent", "rootblk"} |->
           CASE p = "rootblk" -> disk
             [] p = "rootCurrent" -> KernelName(n)
             [] OTHER -> KernelName(num[p])]
  BY <1>3 DEF BootDiskLinks
<1> HIDE DEF num, disk
<1> QED
  BY <1>6, <1>7

-----------------------------------------------------------------------------
(***************************************************************************)
(* The session of the early modules (early_modules/).                      *)
(***************************************************************************)
Sessions ==
  [todo : Seq(Modules), listed : SUBSET Modules, present : SUBSET Modules,
   outcome : [Modules -> {"new", "ok", "bad"}], failed : SUBSET Modules,
   broken : SUBSET Modules, ready : BOOLEAN]
Attempts == [s : Sessions, ok : BOOLEAN]
Paths == Modules \cup {NoName}

\* What the session has noted of a module is so, and only a broken one failed.
Noted(s) ==
  \A n \in Modules :
    /\ s.outcome[n] = "ok" => is_present(s, n)
    /\ s.outcome[n] = "bad" => n \in s.broken /\ ~is_present(s, n)

\* Why a module is not there, and will not come up as a dependency either.
Hopeless(s, m) ==
  \/ s.outcome[m] = "bad"
  \/ m \notin DOMAIN ModDep
  \/ \E n \in ToSet(ModDep[m]) : n = NoName \/ s.outcome[n] = "bad"

Explained(s) == \A m \in s.failed : m \in Listed /\ ~is_present(s, m) /\ Hopeless(s, m)

\* A listed module is still to come, reported, or there.
Answered(s) ==
  /\ ToSet(s.todo) \subseteq s.listed /\ s.failed \subseteq s.listed
  /\ s.listed \subseteq Listed
  /\ \A m \in s.listed : m \in ToSet(s.todo) \/ m \in s.failed \/ is_present(s, m)

SessionSound(s) == s.ready => Noted(s) /\ Explained(s) /\ Answered(s)

\* What an attempt does not change.
SameLists(s, t) ==
  /\ t.todo = s.todo /\ t.listed = s.listed /\ t.failed = s.failed
  /\ t.broken = s.broken /\ t.ready = s.ready

(***************************************************************************)
(* The order in which load_listed loads: every module comes behind those   *)
(* whose symbols it uses, and behind those its own line names.             *)
(***************************************************************************)
LEMMA OrderFacts ==
  ASSUME NEW m \in DOMAIN ModDep
  PROVE  LET order == LoadOrder(m)
             len == Len(ModDep[m]) + 1
         IN  /\ len \in Nat /\ len >= 1 /\ order \in Seq(Paths) /\ Len(order) = len
             /\ m \in Modules /\ order[len] = m
             /\ \A j \in 1 .. len : order[j] \in Paths
             /\ \A j \in 1 .. len : j # len =>
                  order[j] # m /\ order[j] \in ToSet(ModDep[m])
             /\ \A j \in 1 .. len : order[j] # NoName =>
                  /\ order[j] \in Modules
                  /\ Needs[order[j]] \subseteq {order[i] : i \in 1 .. j - 1}
                  /\ order[j] \in Listed => order[j] \in DOMAIN ModDep
                  /\ order[j] \in DOMAIN ModDep =>
                       ToSet(ModDep[order[j]]) \subseteq {order[i] : i \in 1 .. j - 1}
<1> DEFINE d == ModDep[m]
           L == Len(d)
           order == LoadOrder(m)
<1>1. /\ m \in Modules /\ d \in Seq(Paths) /\ L \in Nat /\ DOMAIN d = 1 .. L
      /\ \A i \in 1 .. L : d[i] \in Paths
  <2>1. m \in Modules /\ d \in Seq(Paths)
    BY EarlyModulesAssumption DEF Paths
  <2> QED
    BY <2>1
<1>2. /\ Reverse(d) \in Seq(Paths) /\ Len(Reverse(d)) = L
      /\ \A i \in 1 .. L : Reverse(d)[i] = d[(L - i) + 1]
  <2>1. Reverse(d) = [i \in 1 .. L |-> d[(L - i) + 1]]
    BY DEF Reverse
  <2>2. ASSUME NEW i \in 1 .. L PROVE d[(L - i) + 1] \in Paths
    BY <1>1
  <2>3. Reverse(d) \in Seq(Paths)
    BY <1>1, <2>1, <2>2
  <2> QED
    BY <1>1, <2>1, <2>3
<1>3. /\ order \in Seq(Paths) /\ Len(order) = L + 1 /\ order[L + 1] = m
      /\ \A i \in 1 .. L : order[i] = d[(L - i) + 1]
  <2>1. order = Append(Reverse(d), m) /\ m \in Paths
    BY <1>1 DEF LoadOrder, Paths
  <2> HIDE DEF order, d
  <2>2. /\ order \in Seq(Paths) /\ Len(order) = L + 1 /\ order[L + 1] = m
        /\ \A i \in 1 .. L : order[i] = Reverse(d)[i]
    BY <1>1, <1>2, <2>1, AppendProperties
  <2> QED
    BY <1>2, <2>2
<1>4. ASSUME NEW j \in 1 .. L + 1 PROVE order[j] \in Paths
  <2> HIDE DEF order
  <2> QED
    BY <1>1, <1>3 DEF Paths
<1>5. ASSUME NEW j \in 1 .. L + 1, j # L + 1
      PROVE  order[j] # m /\ order[j] \in ToSet(d)
  <2>1. j \in 1 .. L /\ (L - j) + 1 \in 1 .. L
    BY <1>1, <1>5
  <2>2. order[j] = d[(L - j) + 1]
    BY <1>3, <2>1
  <2>3. order[j] \in ToSet(d)
    BY <1>1, <2>1, <2>2 DEF ToSet
  <2> QED
    BY <2>3, DepmodAssumption
<1>6. ASSUME NEW j \in 1 .. L + 1, order[j] # NoName
      PROVE  /\ order[j] \in Modules
             /\ Needs[order[j]] \subseteq {order[i] : i \in 1 .. j - 1}
             /\ order[j] \in Listed => order[j] \in DOMAIN ModDep
             /\ order[j] \in DOMAIN ModDep =>
                  ToSet(ModDep[order[j]]) \subseteq {order[i] : i \in 1 .. j - 1}
  <2>1. order[j] \in Modules
    BY <1>4, <1>6 DEF Paths
  <2>2. CASE j = L + 1
    <3>1. ToSet(d) \subseteq {order[i] : i \in 1 .. j - 1}
      <4> SUFFICES ASSUME NEW i \in 1 .. L
                   PROVE  d[i] \in {order[k] : k \in 1 .. j - 1}
        BY <1>1 DEF ToSet
      <4>1. (L - i) + 1 \in 1 .. L /\ (L - ((L - i) + 1)) + 1 = i
        BY <1>1
      <4>2. order[(L - i) + 1] = d[i]
        BY <1>3, <4>1
      <4>3. (L - i) + 1 \in 1 .. j - 1
        BY <1>1, <2>2, <4>1
      <4> HIDE DEF order, d
      <4> QED
        BY <4>2, <4>3
    <3>2. order[j] = m /\ Needs[m] \subseteq ToSet(d)
      BY <1>3, <2>2, DepmodAssumption
    <3> HIDE DEF order
    <3> QED
      BY <2>1, <3>1, <3>2
  <2>3. CASE j # L + 1
    <3> DEFINE i == (L - j) + 1
    <3>1. j \in 1 .. L /\ i \in 1 .. L /\ order[j] = d[i] /\ i \in DOMAIN d
      BY <1>1, <1>3, <2>3
    <3>2. Behind(m, i) \subseteq {order[k] : k \in 1 .. j - 1}
      <4> SUFFICES ASSUME NEW l \in 1 .. L, l > i
                   PROVE  d[l] \in {order[k] : k \in 1 .. j - 1}
        BY <1>1 DEF Behind
      <4>1. (L - l) + 1 \in 1 .. L /\ (L - ((L - l) + 1)) + 1 = l
        BY <1>1
      <4>2. order[(L - l) + 1] = d[l]
        BY <1>3, <4>1
      <4>3. (L - l) + 1 \in 1 .. j - 1
        BY <1>1, <3>1, <4>1
      <4> HIDE DEF order, d, i
      <4> QED
        BY <4>2, <4>3
    <3>3. /\ Needs[d[i]] \subseteq Behind(m, i)
          /\ d[i] \in Listed => d[i] \in DOMAIN ModDep
          /\ d[i] \in DOMAIN ModDep => ToSet(ModDep[d[i]]) \subseteq Behind(m, i)
      <4>1. d[i] # NoName
        BY <1>6, <3>1
      <4> HIDE DEF i
      <4> QED
        BY <3>1, <4>1, DepmodAssumption
    <3> HIDE DEF order, d, i
    <3> QED
      BY <2>1, <3>1, <3>2, <3>3
  <2> QED
    BY <2>2, <2>3
<1>7. L + 1 \in Nat /\ L + 1 >= 1
  BY <1>1
<1> QED
  BY <1>1, <1>3, <1>4, <1>5, <1>6, <1>7, Zenon

\* What load_one makes of a session.
TriedOne(s, m, t) ==
  /\ t \in Sessions /\ SameLists(s, t)
  /\ t.outcome[m] \in {"ok", "bad"}
  /\ \A n \in Modules : n # m => t.outcome[n] = s.outcome[n]
  /\ s.outcome[m] # "new" => t = s
  /\ s.present \subseteq t.present /\ t.present \subseteq s.present \cup {m}
  /\ m \in t.present \ s.present => finit(s, m) /\ s.outcome[m] = "new"
  /\ s.outcome[m] = "new" /\ t.outcome[m] = "ok" => is_present(t, m)
  /\ s.outcome[m] = "new" /\ t.outcome[m] = "bad" => ~is_present(t, m) /\ ~finit(s, m)

(***************************************************************************)
(* load_one: a module that was tried is not tried again; otherwise the     *)
(* session notes whether it is there.                                      *)
(***************************************************************************)
LEMMA LoadOneFacts ==
  ASSUME NEW s \in Sessions, NEW m \in Modules
  PROVE  TriedOne(s, m, load_one(s, m))
<1> DEFINE t == load_one(s, m)
<1>1. CASE s.outcome[m] # "new"
  <2>1. t = s
    BY <1>1 DEF load_one
  <2> HIDE DEF t
  <2>2. s.outcome[m] \in {"ok", "bad"}
    BY <1>1 DEF Sessions
  <2>3. TriedOne(s, m, t)
    BY <1>1, <2>1, <2>2 DEF SameLists, TriedOne
  <2> QED
    BY <2>3 DEF t
<1>2. CASE s.outcome[m] = "new" /\ is_present(s, m)
  <2>1. t = [s EXCEPT !.outcome[m] = "ok"]
    BY <1>2 DEF load_one
  <2> HIDE DEF t
  <2>2. t \in Sessions /\ SameLists(s, t) /\ t.present = s.present
    BY <2>1 DEF SameLists, Sessions
  <2>3. t.outcome[m] = "ok" /\ \A n \in Modules : n # m => t.outcome[n] = s.outcome[n]
    BY <2>1 DEF Sessions
  <2>4. is_present(t, m)
    BY <1>2, <2>2 DEF is_present
  <2>5. TriedOne(s, m, t)
    BY <1>2, <2>2, <2>3, <2>4 DEF TriedOne
  <2> QED
    BY <2>5 DEF t
<1>3. CASE s.outcome[m] = "new" /\ ~is_present(s, m) /\ finit(s, m)
  <2>1. t = [s EXCEPT !.outcome[m] = "ok", !.present = @ \cup {m}]
    BY <1>3 DEF load_one
  <2> HIDE DEF t
  <2>2. t \in Sessions /\ SameLists(s, t) /\ t.present = s.present \cup {m}
    BY <2>1 DEF SameLists, Sessions
  <2>3. t.outcome[m] = "ok" /\ \A n \in Modules : n # m => t.outcome[n] = s.outcome[n]
    BY <2>1 DEF Sessions
  <2>4. is_present(t, m)
    BY <2>2 DEF is_present
  <2>5. TriedOne(s, m, t)
    BY <1>3, <2>2, <2>3, <2>4 DEF TriedOne
  <2> QED
    BY <2>5 DEF t
<1>4. CASE s.outcome[m] = "new" /\ ~is_present(s, m) /\ ~finit(s, m)
  <2>1. t = [s EXCEPT !.outcome[m] = "bad"]
    BY <1>4 DEF load_one
  <2> HIDE DEF t
  <2>2. t \in Sessions /\ SameLists(s, t) /\ t.present = s.present
    BY <2>1 DEF SameLists, Sessions
  <2>3. t.outcome[m] = "bad" /\ \A n \in Modules : n # m => t.outcome[n] = s.outcome[n]
    BY <2>1 DEF Sessions
  <2>4. ~is_present(t, m)
    BY <1>4, <2>2 DEF is_present
  <2>5. TriedOne(s, m, t)
    BY <1>4, <2>2, <2>3, <2>4 DEF TriedOne
  <2> QED
    BY <2>5 DEF t
<1> QED
  BY <1>1, <1>2, <1>3, <1>4

\* What is true behind the first k modules of the order, the last of which is m.
AttemptSound(s, m, a, k) ==
  LET order == LoadOrder(m)
  IN  /\ a \in Attempts /\ SameLists(s, a.s) /\ s.present \subseteq a.s.present
      /\ Noted(a.s) /\ Explained(a.s)
      /\ IF a.ok THEN \A j \in 1 .. k : order[j] # NoName /\ a.s.outcome[order[j]] = "ok"
         ELSE \E j \in 1 .. k : order[j] = NoName \/ a.s.outcome[order[j]] = "bad"
      /\ is_present(a.s, m) => a.ok /\ k = Len(order)

(***************************************************************************)
(* One more module of the order.                                           *)
(***************************************************************************)
LEMMA AttemptStep ==
  ASSUME NEW s \in Sessions, NEW m \in DOMAIN ModDep, NEW a,
         NEW k \in 1 .. Len(LoadOrder(m)), AttemptSound(s, m, a, k - 1)
  PROVE  AttemptSound(s, m, LoadNext(a, LoadOrder(m)[k]), k)
<1> DEFINE order == LoadOrder(m)
           len == Len(ModDep[m]) + 1
           n == order[k]
           b == LoadNext(a, n)
<1>1. /\ len \in Nat /\ Len(order) = len /\ m \in Modules /\ order[len] = m
      /\ \A j \in 1 .. len : order[j] \in Paths
      /\ \A j \in 1 .. len : j # len => order[j] # m
      /\ n # NoName =>
           /\ n \in Modules
           /\ Needs[n] \subseteq {order[i] : i \in 1 .. k - 1}
           /\ n \in Listed => n \in DOMAIN ModDep
           /\ n \in DOMAIN ModDep => ToSet(ModDep[n]) \subseteq {order[i] : i \in 1 .. k - 1}
  BY OrderFacts
<1> HIDE DEF order, len
<1>2. /\ k \in 1 .. len /\ k - 1 \in 0 .. len /\ k - 1 < len
  BY <1>1 DEF order
<1>3. /\ a \in Attempts /\ SameLists(s, a.s) /\ s.present \subseteq a.s.present
      /\ Noted(a.s) /\ Explained(a.s)
      /\ a.ok => \A j \in 1 .. k - 1 : order[j] # NoName /\ a.s.outcome[order[j]] = "ok"
      /\ ~a.ok => \E j \in 1 .. k - 1 : order[j] = NoName \/ a.s.outcome[order[j]] = "bad"
      /\ ~is_present(a.s, m)
  <2>1. is_present(a.s, m) => a.ok /\ k - 1 = Len(order)
    BY DEF AttemptSound, order
  <2>2. ~is_present(a.s, m)
    BY <1>1, <1>2, <2>1
  <2> QED
    BY <2>2 DEF AttemptSound, order
<1>4. a.s \in Sessions /\ a.ok \in BOOLEAN
  BY <1>3 DEF Attempts
<1>5. CASE ~a.ok \/ n = NoName
  <2>1. b = [s |-> a.s, ok |-> FALSE]
    BY <1>5 DEF LoadNext
  <2> HIDE DEF b
  <2>2. b \in Attempts /\ b.s = a.s /\ ~b.ok
    BY <1>4, <2>1 DEF Attempts
  <2>3. \E j \in 1 .. k : order[j] = NoName \/ b.s.outcome[order[j]] = "bad"
    <3>1. CASE n = NoName
      BY <1>2, <3>1
    <3>2. CASE ~a.ok
      <4>1. PICK j \in 1 .. k - 1 : order[j] = NoName \/ a.s.outcome[order[j]] = "bad"
        BY <1>3, <3>2
      <4>2. j \in 1 .. k
        BY <1>2
      <4> QED
        BY <2>2, <4>1, <4>2
    <3> QED
      BY <1>5, <3>1, <3>2
  <2>4. AttemptSound(s, m, b, k)
    BY <1>3, <2>2, <2>3 DEF AttemptSound, order
  <2> QED
    BY <2>4 DEF b, n, order
<1>6. CASE a.ok /\ n # NoName
  <2> DEFINE t == load_one(a.s, n)
  <2>1. b = [s |-> t, ok |-> t.outcome[n] = "ok"]
    BY <1>6 DEF LoadNext
  <2>2. n \in Modules
    BY <1>1, <1>6
  <2>3. TriedOne(a.s, n, t)
    BY <1>4, <2>2, LoadOneFacts
  <2> HIDE DEF b, t
  <2>4. b \in Attempts /\ b.s = t /\ (b.ok <=> t.outcome[n] = "ok")
    BY <2>1, <2>3 DEF Attempts, TriedOne
  \* The modules before n are there.
  <2>5. \A i \in 1 .. k - 1 : order[i] # NoName /\ order[i] \in Modules
                              /\ a.s.outcome[order[i]] = "ok" /\ is_present(a.s, order[i])
    <3> SUFFICES ASSUME NEW i \in 1 .. k - 1
                 PROVE  order[i] # NoName /\ order[i] \in Modules
                        /\ a.s.outcome[order[i]] = "ok" /\ is_present(a.s, order[i])
      OBVIOUS
    <3>1. order[i] # NoName /\ a.s.outcome[order[i]] = "ok"
      BY <1>3, <1>6
    <3>2. i \in 1 .. len
      BY <1>1, <1>2
    <3>3. order[i] \in Modules
      BY <1>1, <3>1, <3>2 DEF Paths
    <3>4. is_present(a.s, order[i])
      BY <1>3, <3>1, <3>3 DEF Noted
    <3> QED
      BY <3>1, <3>3, <3>4
  <2>6. \A x \in Modules : is_present(a.s, x) => is_present(t, x)
    BY <2>3 DEF TriedOne, is_present
  <2>7. Noted(t)
    <3> SUFFICES ASSUME NEW x \in Modules
                 PROVE  /\ t.outcome[x] = "ok" => is_present(t, x)
                        /\ t.outcome[x] = "bad" => x \in t.broken /\ ~is_present(t, x)
      BY DEF Noted
    <3>1. CASE x # n
      <4>1. t.outcome[x] = a.s.outcome[x] /\ t.broken = a.s.broken
            /\ (is_present(t, x) <=> is_present(a.s, x))
        BY <2>3, <3>1 DEF TriedOne, SameLists, is_present
      <4> QED
        BY <1>3, <4>1 DEF Noted
    <3>2. CASE x = n /\ a.s.outcome[n] # "new"
      <4>1. t = a.s
        BY <2>3, <3>2 DEF TriedOne
      <4> QED
        BY <1>3, <4>1 DEF Noted
    <3>3. CASE x = n /\ a.s.outcome[n] = "new"
      <4>1. t.outcome[n] = "ok" => is_present(t, n)
        BY <2>3, <3>3 DEF TriedOne
      <4>2. ASSUME t.outcome[n] = "bad" PROVE n \in t.broken /\ ~is_present(t, n)
        <5>1. ~is_present(t, n) /\ ~finit(a.s, n) /\ t.broken = a.s.broken
          BY <2>3, <3>3, <4>2 DEF TriedOne, SameLists
        <5>2. \A r \in Needs[n] : is_present(a.s, r)
          BY <1>1, <1>6, <2>5
        <5> QED
          BY <5>1, <5>2 DEF finit
      <4> QED
        BY <3>3, <4>1, <4>2
    <3> QED
      BY <3>1, <3>2, <3>3
  <2>8. Explained(t)
    <3> SUFFICES ASSUME NEW x \in t.failed
                 PROVE  x \in Listed /\ ~is_present(t, x) /\ Hopeless(t, x)
      BY DEF Explained
    <3>1. x \in a.s.failed /\ x \in Modules
      BY <2>3 DEF TriedOne, SameLists, Sessions
    <3>2. x \in Listed /\ ~is_present(a.s, x) /\ Hopeless(a.s, x)
      BY <1>3, <3>1 DEF Explained
    <3>3. ASSUME NEW y \in Modules, a.s.outcome[y] = "bad" PROVE t.outcome[y] = "bad"
      BY <2>3, <3>3 DEF TriedOne
    <3>4. Hopeless(t, x)
      <4>1. CASE a.s.outcome[x] = "bad"
        BY <3>1, <3>3, <4>1 DEF Hopeless
      <4>2. CASE x \notin DOMAIN ModDep
        BY <4>2 DEF Hopeless
      <4>3. CASE /\ x \in DOMAIN ModDep
                 /\ \E y \in ToSet(ModDep[x]) : y = NoName \/ a.s.outcome[y] = "bad"
        <5>1. PICK y \in ToSet(ModDep[x]) : y = NoName \/ a.s.outcome[y] = "bad"
          BY <4>3
        <5>2. y \in Paths
          BY <4>3, <5>1, EarlyModulesAssumption DEF ToSet, Paths
        <5>3. y = NoName \/ t.outcome[y] = "bad"
          BY <3>3, <5>1, <5>2 DEF Paths
        <5> QED
          BY <5>1, <5>3 DEF Hopeless
      <4> QED
        BY <3>2, <4>1, <4>2, <4>3 DEF Hopeless
    \* A module that is reported does not come up as a dependency.
    <3>5. ~is_present(t, x)
      <4>1. CASE x # n
        BY <2>3, <3>2, <4>1 DEF TriedOne, is_present
      <4>2. CASE x = n /\ a.s.outcome[n] # "new"
        BY <2>3, <3>2, <4>2 DEF TriedOne
      <4>3. CASE x = n /\ a.s.outcome[n] = "new"
        <5>1. n \in DOMAIN ModDep
          BY <1>1, <1>6, <3>2, <4>3
        <5>2. PICK y \in ToSet(ModDep[n]) : y = NoName \/ a.s.outcome[y] = "bad"
          BY <3>2, <4>3, <5>1 DEF Hopeless
        <5>3. y \in {order[i] : i \in 1 .. k - 1}
          BY <1>1, <1>6, <5>1, <5>2
        <5>4. y # NoName /\ a.s.outcome[y] = "ok"
          BY <2>5, <5>3
        <5> QED
          BY <5>2, <5>4
      <4> QED
        BY <4>1, <4>2, <4>3
    <3> QED
      BY <3>2, <3>4, <3>5
  <2>9. IF b.ok THEN \A j \in 1 .. k : order[j] # NoName /\ b.s.outcome[order[j]] = "ok"
        ELSE \E j \in 1 .. k : order[j] = NoName \/ b.s.outcome[order[j]] = "bad"
    <3>1. CASE b.ok
      <4> SUFFICES ASSUME NEW j \in 1 .. k
                   PROVE  order[j] # NoName /\ b.s.outcome[order[j]] = "ok"
        BY <3>1
      <4>1. CASE j = k
        BY <1>6, <2>4, <3>1, <4>1
      <4>2. CASE j # k
        <5>1. j \in 1 .. k - 1
          BY <1>2, <4>2
        <5>2. /\ order[j] # NoName /\ order[j] \in Modules
              /\ a.s.outcome[order[j]] = "ok"
          BY <2>5, <5>1
        <5>3. order[j] = n \/ t.outcome[order[j]] = "ok"
          BY <2>3, <5>2 DEF TriedOne
        <5> QED
          BY <2>4, <3>1, <5>2, <5>3
      <4> QED
        BY <4>1, <4>2
    <3>2. CASE ~b.ok
      <4>1. t.outcome[n] = "bad" /\ k \in 1 .. k
        BY <1>2, <2>3, <2>4, <3>2 DEF TriedOne
      <4> QED
        BY <2>4, <3>2, <4>1
    <3> QED
      BY <3>1, <3>2
  <2>10. is_present(b.s, m) => b.ok /\ k = Len(order)
    <3> SUFFICES ASSUME is_present(t, m) PROVE b.ok /\ k = Len(order)
      BY <2>4
    <3>1. n = m
      BY <1>3, <2>3 DEF TriedOne, is_present
    <3>2. k = len
      BY <1>1, <1>2, <3>1
    <3>3. t.outcome[n] # "bad"
      BY <2>2, <2>7, <3>1 DEF Noted
    <3> QED
      BY <1>1, <2>3, <2>4, <3>2, <3>3 DEF TriedOne
  <2>11. SameLists(s, b.s) /\ s.present \subseteq b.s.present
    BY <1>3, <2>3, <2>4 DEF TriedOne, SameLists
  <2>12. AttemptSound(s, m, b, k)
    BY <2>4, <2>7, <2>8, <2>9, <2>10, <2>11 DEF AttemptSound, order
  <2> QED
    BY <2>12 DEF b, n, order
<1> QED
  BY <1>4, <1>5, <1>6

IsAttempt(s, order, f) ==
  f = [k \in 0 .. Len(order) |->
         IF k = 0 THEN [s |-> s, ok |-> TRUE] ELSE LoadNext(f[k - 1], order[k])]

(***************************************************************************)
(* The loop of load_listed goes through its order.                         *)
(***************************************************************************)
LEMMA AttemptRuns ==
  ASSUME NEW s \in Sessions, NEW order \in Seq(Paths)
  PROVE  /\ Attempt(s, order)[0] = [s |-> s, ok |-> TRUE]
         /\ \A k \in 1 .. Len(order) :
              Attempt(s, order)[k] = LoadNext(Attempt(s, order)[k - 1], order[k])
<1> DEFINE len == Len(order)
           first == [s |-> s, ok |-> TRUE]
           F == [x \in Attempts \X (1 .. len) |-> LoadNext(x[1], order[x[2]])]
           f == Attempt(s, order)
<1>1. len \in Nat /\ \A k \in 1 .. len : order[k] \in Paths
  OBVIOUS
<1>2. first \in Attempts
  BY DEF Attempts
<1>3. ASSUME NEW a \in Attempts, NEW n \in Paths PROVE LoadNext(a, n) \in Attempts
  <2>1. a.s \in Sessions /\ a.ok \in BOOLEAN
    BY DEF Attempts
  <2>2. CASE ~a.ok \/ n = NoName
    BY <2>1, <2>2 DEF LoadNext, Attempts
  <2>3. CASE a.ok /\ n # NoName
    <3>1. load_one(a.s, n) \in Sessions
      BY <2>1, <2>3, LoadOneFacts DEF TriedOne, Paths
    <3> QED
      BY <2>3, <3>1 DEF LoadNext, Attempts
  <2> QED
    BY <2>1, <2>2, <2>3
<1>4. F \in [Attempts \X (1 .. len) -> Attempts]
  <2>1. ASSUME NEW x \in Attempts \X (1 .. len)
        PROVE  LoadNext(x[1], order[x[2]]) \in Attempts
    <3>1. x[1] \in Attempts /\ x[2] \in 1 .. len
      OBVIOUS
    <3> QED
      BY <1>1, <1>3, <3>1
  <2> QED
    BY <2>1
<1>5. PICK g : Iterates(g, len, Attempts, first, F)
  <2> HIDE DEF F, first, len
  <2> QED
    BY <1>1, <1>2, <1>4, RecursionExists
<1>6. IsAttempt(s, order, g)
  <2> DEFINE Body(k) == IF k = 0 THEN first ELSE LoadNext(g[k - 1], order[k])
  <2>1. g \in [0 .. len -> Attempts] /\ g[0] = first
    BY <1>5 DEF Iterates
  <2>2. ASSUME NEW k \in 0 .. len PROVE g[k] = Body(k)
    <3>1. CASE k = 0
      BY <2>1, <3>1
    <3>2. CASE k # 0
      <4>1. k \in 1 .. len /\ k - 1 \in 0 .. len
        BY <1>1, <3>2
      <4>2. g[k] = F[<<g[k - 1], k>>] /\ g[k - 1] \in Attempts
        BY <1>5, <2>1, <4>1 DEF Iterates
      <4>3. F[<<g[k - 1], k>>] = LoadNext(g[k - 1], order[k])
        BY <4>1, <4>2
      <4> QED
        BY <3>2, <4>2, <4>3
    <3> QED
      BY <3>1, <3>2
  <2> HIDE DEF Body
  <2>3. g = [k \in 0 .. len |-> Body(k)]
    BY <2>1, <2>2
  <2> QED
    BY <2>3, Zenon DEF IsAttempt, Body
<1>7. IsAttempt(s, order, f)
  <2>1. f = CHOOSE x : IsAttempt(s, order, x)
    BY DEF Attempt, IsAttempt
  <2> HIDE DEF f
  <2> QED
    BY <1>6, <2>1
<1> HIDE DEF f
<1>8. f[0] = first /\ \A k \in 1 .. len : f[k] = LoadNext(f[k - 1], order[k])
  <2> DEFINE Body(k) == IF k = 0 THEN first ELSE LoadNext(f[k - 1], order[k])
  <2>1. f = [k \in 0 .. len |-> Body(k)]
    BY <1>7, Zenon DEF IsAttempt
  <2> HIDE DEF Body
  <2>2. \A k \in 0 .. len : f[k] = Body(k)
    BY <2>1
  <2>3. f[0] = Body(0) /\ \A k \in 1 .. len : f[k] = Body(k) /\ k # 0
    BY <1>1, <2>2
  <2> HIDE DEF first, len
  <2> QED
    BY <2>3 DEF Body
<1> QED
  BY <1>8 DEF f

(***************************************************************************)
(* An attempt ends with the module there, or with a reason why it is not.  *)
(***************************************************************************)
LEMMA AttemptEnds ==
  ASSUME NEW s \in Sessions, Noted(s), Explained(s), NEW m \in DOMAIN ModDep,
         ~is_present(s, m)
  PROVE  LET len == Len(LoadOrder(m))
         IN  AttemptSound(s, m, Attempt(s, LoadOrder(m))[len], len)
<1> DEFINE order == LoadOrder(m)
           len == Len(order)
           f == Attempt(s, order)
<1>1. order \in Seq(Paths) /\ len \in Nat /\ len >= 1
  BY OrderFacts
<1>2. /\ f[0] = [s |-> s, ok |-> TRUE]
      /\ \A k \in 1 .. len : f[k] = LoadNext(f[k - 1], order[k])
  BY <1>1, AttemptRuns
<1>3. AttemptSound(s, m, f[0], 0)
  <2>1. f[0] \in Attempts /\ f[0].s = s /\ f[0].ok
    BY <1>2 DEF Attempts
  <2> HIDE DEF f
  <2> QED
    BY <2>1 DEF AttemptSound, SameLists
<1> HIDE DEF f
<1> DEFINE T == {k \in Nat : k <= len /\ ~AttemptSound(s, m, f[k], k)}
<1> SUFFICES ASSUME T # {} PROVE FALSE
  <2> HIDE DEF order, len
  <2>1. len \notin T => AttemptSound(s, m, f[len], len)
    BY <1>1
  <2> QED
    BY <2>1 DEF f, order, len
<1>4. PICK k \in T : \A x \in T : k <= x
  <2>1. T \subseteq Nat
    OBVIOUS
  <2> HIDE DEF T
  <2> QED
    BY <2>1, LeastNatural
<1>5. k # 0
  BY <1>3, <1>4
<1>6. k \in 1 .. len /\ k - 1 \in Nat /\ k - 1 <= len /\ k - 1 < k
  BY <1>1, <1>4, <1>5
<1>7. AttemptSound(s, m, f[k - 1], k - 1)
  BY <1>4, <1>6
<1>8. AttemptSound(s, m, f[k], k)
  BY <1>2, <1>6, <1>7, AttemptStep
<1> QED
  BY <1>4, <1>8

(***************************************************************************)
(* load_listed answers the module: it is there, or it is reported and is   *)
(* not there.                                                              *)
(***************************************************************************)
LEMMA ListedAnswered ==
  ASSUME NEW s \in Sessions, s.ready, SessionSound(s), s.todo # <<>>
  PROVE  LET t == [load_listed(s, Head(s.todo)) EXCEPT !.todo = Tail(@)]
         IN  t \in Sessions /\ SessionSound(t) /\ t.ready
<1> DEFINE m == Head(s.todo)
           u == load_listed(s, m)
           t == [u EXCEPT !.todo = Tail(@)]
<1> SUFFICES t \in Sessions /\ SessionSound(t) /\ t.ready
  OBVIOUS
<1>1. /\ s.todo \in Seq(Modules) /\ Noted(s) /\ Explained(s) /\ Answered(s)
      /\ s.listed \subseteq Modules
  BY DEF Sessions, SessionSound
<1>2. /\ m \in Modules /\ Tail(s.todo) \in Seq(Modules)
      /\ ToSet(s.todo) = {m} \cup ToSet(Tail(s.todo))
  <2>1. /\ m \in Modules /\ Tail(s.todo) \in Seq(Modules) /\ Len(s.todo) \in Nat
        /\ Len(s.todo) >= 1 /\ Len(Tail(s.todo)) = Len(s.todo) - 1 /\ m = s.todo[1]
        /\ \A i \in 1 .. Len(s.todo) - 1 : Tail(s.todo)[i] = s.todo[i + 1]
    BY <1>1
  <2>2. ToSet(s.todo) = {s.todo[i] : i \in 1 .. Len(s.todo)}
    BY <1>1 DEF ToSet
  <2>3. ToSet(Tail(s.todo)) = {s.todo[i + 1] : i \in 1 .. Len(s.todo) - 1}
    <3> DEFINE rest == Tail(s.todo)
    <3>1. DOMAIN rest = 1 .. Len(s.todo) - 1
      BY <2>1
    <3>2. \A i \in 1 .. Len(s.todo) - 1 : rest[i] = s.todo[i + 1]
      BY <2>1
    <3> HIDE DEF rest
    <3>3. ToSet(rest) = {s.todo[i + 1] : i \in 1 .. Len(s.todo) - 1}
      BY <3>1, <3>2 DEF ToSet
    <3> QED
      BY <3>3 DEF rest
  <2>4. ASSUME NEW i \in 1 .. Len(s.todo), i # 1
        PROVE  s.todo[i] \in {s.todo[j + 1] : j \in 1 .. Len(s.todo) - 1}
    <3>1. i - 1 \in 1 .. Len(s.todo) - 1 /\ (i - 1) + 1 = i
      BY <2>1, <2>4
    <3> QED
      BY <3>1
  <2>5. ASSUME NEW i \in 1 .. Len(s.todo) - 1 PROVE i + 1 \in 1 .. Len(s.todo)
    BY <2>1
  <2>6. 1 \in 1 .. Len(s.todo)
    BY <2>1
  <2> QED
    BY <2>1, <2>2, <2>3, <2>4, <2>5, <2>6
<1>3. m \in s.listed /\ m \in Listed
  BY <1>1, <1>2 DEF Answered
\* It is enough that the lists are the same but for m, which is reported or there.
<1>4. ASSUME u \in Sessions, u.todo = s.todo, u.listed = s.listed, u.ready,
             Noted(u), Explained(u), s.present \subseteq u.present,
             u.failed = s.failed \/ u.failed = s.failed \cup {m},
             m \in u.failed \/ is_present(u, m)
      PROVE  t \in Sessions /\ SessionSound(t) /\ t.ready
  <2> HIDE DEF u, m
  <2>1. /\ t \in Sessions /\ t.todo = Tail(s.todo) /\ t.listed = s.listed
        /\ t.failed = u.failed /\ t.present = u.present /\ t.outcome = u.outcome
        /\ t.broken = u.broken /\ t.ready = u.ready
    BY <1>2, <1>4 DEF Sessions
  <2> HIDE DEF t
  <2>2. Noted(t) /\ Explained(t)
    BY <1>4, <2>1 DEF Noted, Explained, Hopeless, is_present
  <2>3. Answered(t)
    <3>1. /\ ToSet(t.todo) \subseteq t.listed /\ t.failed \subseteq t.listed
          /\ t.listed \subseteq Listed
      BY <1>1, <1>2, <1>3, <1>4, <2>1 DEF Answered
    <3>2. ASSUME NEW x \in t.listed
          PROVE  x \in ToSet(t.todo) \/ x \in t.failed \/ is_present(t, x)
      <4>1. x \in ToSet(s.todo) \/ x \in s.failed \/ is_present(s, x)
        BY <1>1, <2>1 DEF Answered
      <4> QED
        BY <1>2, <1>4, <2>1, <4>1 DEF is_present
    <3> QED
      BY <3>1, <3>2 DEF Answered
  <2> QED
    BY <1>4, <2>1, <2>2, <2>3 DEF SessionSound
\* A report of m.
<1>5. ASSUME NEW v \in Sessions, SameLists(s, v), Noted(v), Explained(v),
             s.present \subseteq v.present, ~is_present(v, m), Hopeless(v, m),
             u = Report(v, m)
      PROVE  t \in Sessions /\ SessionSound(t) /\ t.ready
  <2> HIDE DEF m, u
  <2>1. /\ u \in Sessions /\ u.todo = v.todo /\ u.listed = v.listed /\ u.ready = v.ready
        /\ u.failed = v.failed \cup {m} /\ u.present = v.present
        /\ u.outcome = v.outcome /\ u.broken = v.broken
    BY <1>2, <1>5 DEF Sessions, Report
  <2>2. Noted(u) /\ Explained(u)
    BY <1>3, <1>5, <2>1 DEF Noted, Explained, Hopeless, is_present
  <2> QED
    BY <1>4, <1>5, <2>1, <2>2 DEF SameLists
<1>6. CASE s.outcome[m] = "ok"
  <2>1. u = s
    BY <1>6 DEF load_listed
  <2> HIDE DEF u, m
  <2>2. is_present(s, m)
    BY <1>1, <1>2, <1>6 DEF Noted
  <2> QED
    BY <1>1, <1>4, <2>1, <2>2
<1>7. CASE s.outcome[m] = "bad"
  <2>1. u = Report(s, m)
    BY <1>7 DEF load_listed
  <2> HIDE DEF u, m
  <2>2. ~is_present(s, m) /\ Hopeless(s, m) /\ SameLists(s, s)
    BY <1>1, <1>2, <1>7 DEF Noted, Hopeless, SameLists
  <2> QED
    BY <1>1, <1>5, <2>1, <2>2
<1>8. CASE s.outcome[m] = "new" /\ is_present(s, m)
  <2>1. u = [s EXCEPT !.outcome[m] = "ok"]
    BY <1>8 DEF load_listed
  <2> HIDE DEF u, m
  <2>2. /\ u \in Sessions /\ SameLists(s, u) /\ u.present = s.present /\ u.outcome[m] = "ok"
        /\ \A n \in Modules : n # m => u.outcome[n] = s.outcome[n]
    BY <1>2, <2>1 DEF Sessions, SameLists
  <2>3. Noted(u)
    BY <1>1, <1>8, <2>2 DEF Noted, is_present, SameLists
  <2>4. Explained(u)
    <3> SUFFICES ASSUME NEW x \in s.failed
                 PROVE  x \in Listed /\ ~is_present(u, x) /\ Hopeless(u, x)
      BY <2>2 DEF Explained, SameLists
    <3>1. x \in Modules /\ x \in Listed /\ ~is_present(s, x) /\ Hopeless(s, x)
      BY <1>1 DEF Explained, Sessions
    <3>2. ~is_present(u, x)
      BY <2>2, <3>1 DEF is_present
    <3>3. ASSUME NEW y \in Modules, s.outcome[y] = "bad" PROVE u.outcome[y] = "bad"
      BY <1>8, <2>2, <3>3
    <3>4. ASSUME x \in DOMAIN ModDep, NEW y \in ToSet(ModDep[x]) PROVE y \in Paths
      BY <3>4, EarlyModulesAssumption DEF ToSet, Paths
    <3>5. Hopeless(u, x)
      BY <3>1, <3>3, <3>4 DEF Hopeless, Paths
    <3> QED
      BY <3>1, <3>2, <3>5
  <2>5. is_present(u, m)
    BY <1>8, <2>2 DEF is_present
  <2> QED
    BY <1>4, <2>2, <2>3, <2>4, <2>5 DEF SameLists
<1>9. CASE s.outcome[m] = "new" /\ ~is_present(s, m) /\ m \notin DOMAIN ModDep
  <2>1. u = Report(s, m)
    BY <1>9 DEF load_listed
  <2> HIDE DEF u, m
  <2>2. Hopeless(s, m) /\ SameLists(s, s)
    BY <1>9 DEF Hopeless, SameLists
  <2> QED
    BY <1>1, <1>5, <1>9, <2>1, <2>2
<1>10. CASE s.outcome[m] = "new" /\ ~is_present(s, m) /\ m \in DOMAIN ModDep
  <2> DEFINE order == LoadOrder(m)
             len == Len(order)
             a == Attempt(s, order)[len]
  <2>1. u = IF a.ok THEN a.s ELSE Report(a.s, m)
    BY <1>10 DEF load_listed
  <2>2. AttemptSound(s, m, a, len)
    BY <1>1, <1>10, AttemptEnds
  <2>3. /\ len \in Nat /\ len >= 1 /\ order[len] = m
        /\ \A j \in 1 .. len : j # len => order[j] \in ToSet(ModDep[m])
    BY <1>10, OrderFacts
  <2> HIDE DEF a, len
  <2>4. /\ a \in Attempts /\ SameLists(s, a.s) /\ s.present \subseteq a.s.present
        /\ Noted(a.s) /\ Explained(a.s)
        /\ a.ok => \A j \in 1 .. len : order[j] # NoName /\ a.s.outcome[order[j]] = "ok"
        /\ ~a.ok => \E j \in 1 .. len : order[j] = NoName \/ a.s.outcome[order[j]] = "bad"
        /\ is_present(a.s, m) => a.ok
    BY <2>2 DEF AttemptSound
  <2>5. a.s \in Sessions
    BY <2>4 DEF Attempts
  <2> HIDE DEF order, u, m
  <2>6. CASE a.ok
    <3>1. a.s.outcome[m] = "ok"
      BY <2>3, <2>4, <2>6
    <3>2. is_present(a.s, m)
      BY <1>2, <2>4, <3>1 DEF Noted
    <3> QED
      BY <1>4, <2>1, <2>4, <2>5, <2>6, <3>2 DEF SameLists
  <2>7. CASE ~a.ok
    <3>1. PICK j \in 1 .. len : order[j] = NoName \/ a.s.outcome[order[j]] = "bad"
      BY <2>4, <2>7
    <3>2. Hopeless(a.s, m)
      <4>1. CASE j = len
        <5>1. m # NoName
          BY <1>2, EarlyModulesAssumption
        <5> QED
          BY <2>3, <3>1, <4>1, <5>1 DEF Hopeless
      <4>2. CASE j # len
        BY <2>3, <3>1, <4>2 DEF Hopeless
      <4> QED
        BY <4>1, <4>2
    <3> QED
      BY <1>5, <2>1, <2>4, <2>5, <2>7, <3>2
  <2> QED
    BY <2>6, <2>7
<1>11. s.outcome[m] \in {"new", "ok", "bad"}
  BY <1>2 DEF Sessions
<1> QED
  BY <1>6, <1>7, <1>8, <1>9, <1>10, <1>11

IsEntries(unread, f) ==
  f = [k \in 0 .. Len(ConfLines) |->
         IF k = 0 THEN <<>>
         ELSE IF ConfLines[k].file \in unread \/ ConfLines[k].name \in ToSet(f[k - 1])
         THEN f[k - 1]
         ELSE Append(f[k - 1], ConfLines[k].name)]

(***************************************************************************)
(* read_config_dir returns listed modules.                                 *)
(***************************************************************************)
LEMMA EntriesListed ==
  ASSUME NEW unread
  PROVE  read_config_dir(unread) \in Seq(Listed)
<1> DEFINE len == Len(ConfLines)
           S == Seq(Listed)
           Next1(x, k) ==
             IF ConfLines[k].file \in unread \/ ConfLines[k].name \in ToSet(x) THEN x
             ELSE Append(x, ConfLines[k].name)
           F == [x \in S \X (1 .. len) |-> Next1(x[1], x[2])]
           f == Entries(unread)
<1>1. len \in Nat /\ \A k \in 1 .. len : ConfLines[k].name \in Listed
  BY EarlyModulesAssumption DEF Listed
<1>2. ASSUME NEW x \in S, NEW k \in 1 .. len PROVE Next1(x, k) \in S
  <2>1. Append(x, ConfLines[k].name) \in S
    BY <1>1
  <2> QED
    BY <2>1
<1> HIDE DEF Next1
<1>3. F \in [S \X (1 .. len) -> S]
  BY <1>2
<1>4. <<>> \in S
  OBVIOUS
<1>5. PICK g : Iterates(g, len, S, <<>>, F)
  <2> HIDE DEF F, S, len
  <2> QED
    BY <1>1, <1>3, <1>4, RecursionExists
<1>6. IsEntries(unread, g)
  <2> DEFINE Body(k) == IF k = 0 THEN <<>> ELSE Next1(g[k - 1], k)
  <2>1. g \in [0 .. len -> S] /\ g[0] = <<>>
    BY <1>5 DEF Iterates
  <2>2. ASSUME NEW k \in 0 .. len PROVE g[k] = Body(k)
    <3>1. CASE k = 0
      BY <2>1, <3>1
    <3>2. CASE k # 0
      <4>1. k \in 1 .. len /\ k - 1 \in 0 .. len
        BY <1>1, <3>2
      <4>2. g[k] = F[<<g[k - 1], k>>] /\ g[k - 1] \in S
        BY <1>5, <2>1, <4>1 DEF Iterates
      <4> HIDE DEF S, len
      <4>3. F[<<g[k - 1], k>>] = Next1(g[k - 1], k)
        BY <4>1, <4>2
      <4> QED
        BY <3>2, <4>2, <4>3
    <3> QED
      BY <3>1, <3>2
  <2> HIDE DEF Body
  <2>3. g = [k \in 0 .. len |-> Body(k)]
    BY <2>1, <2>2
  <2> QED
    BY <2>3, Zenon DEF IsEntries, Body, Next1
<1>7. IsEntries(unread, f)
  <2>1. f = CHOOSE x : IsEntries(unread, x)
    BY DEF Entries, IsEntries
  <2> HIDE DEF f
  <2> QED
    BY <1>6, <2>1
<1> HIDE DEF f
<1>8. f[0] = <<>> /\ \A k \in 1 .. len : f[k] = Next1(f[k - 1], k)
  <2> DEFINE Body(k) == IF k = 0 THEN <<>> ELSE Next1(f[k - 1], k)
  <2>1. f = [k \in 0 .. len |-> Body(k)]
    BY <1>7, Zenon DEF IsEntries, Next1
  <2> HIDE DEF Body
  <2>2. \A k \in 0 .. len : f[k] = Body(k)
    BY <2>1
  <2>3. f[0] = Body(0) /\ \A k \in 1 .. len : f[k] = Body(k) /\ k # 0
    BY <1>1, <2>2
  <2> HIDE DEF len
  <2> QED
    BY <2>3 DEF Body
<1> DEFINE T == {k \in Nat : k <= len /\ f[k] \notin S}
<1> SUFFICES ASSUME T # {} PROVE FALSE
  <2> HIDE DEF len, S
  <2>1. len \notin T => f[len] \in S
    BY <1>1
  <2> QED
    BY <2>1 DEF f, len, S, read_config_dir
<1>9. PICK k \in T : \A x \in T : k <= x
  <2>1. T \subseteq Nat
    OBVIOUS
  <2> HIDE DEF T
  <2> QED
    BY <2>1, LeastNatural
<1>10. k # 0
  BY <1>4, <1>8, <1>9
<1>11. k \in 1 .. len /\ k - 1 \in Nat /\ k - 1 <= len /\ k - 1 < k
  BY <1>1, <1>9, <1>10
<1>12. f[k - 1] \in S
  BY <1>9, <1>11
<1>13. f[k] \in S
  BY <1>2, <1>8, <1>11, <1>12
<1> QED
  BY <1>9, <1>13

(***************************************************************************)
(* A session begins with every listed module to come, or with the report   *)
(* of a load that could not be prepared.                                   *)
(***************************************************************************)
LEMMA SessionStarts ==
  ASSUME NEW unread, NEW loaded \in SUBSET Modules, NEW broken \in SUBSET Modules,
         NEW ready \in BOOLEAN
  PROVE  LET s == Session(unread, loaded, broken, ready)
         IN  s \in Sessions /\ SessionSound(s) /\ (s.ready \/ s.todo = <<>>)
<1> DEFINE entries == read_config_dir(unread)
           s == Session(unread, loaded, broken, ready)
<1> SUFFICES s \in Sessions /\ SessionSound(s) /\ (s.ready \/ s.todo = <<>>)
  OBVIOUS
<1>1. /\ s.todo = (IF ready THEN entries ELSE <<>>) /\ s.listed = ToSet(entries)
      /\ s.present = loaded /\ s.broken = broken /\ s.ready = (ready \/ entries = <<>>)
      /\ s.failed = (IF ready THEN {} ELSE ToSet(entries) \ loaded)
      /\ s.outcome = [m \in Modules |-> "new"]
      /\ s = [todo |-> s.todo, listed |-> s.listed, present |-> s.present,
              outcome |-> s.outcome, failed |-> s.failed, broken |-> s.broken,
              ready |-> s.ready]
  <2>1. s = [NoSession EXCEPT
               !.todo = IF ready THEN entries ELSE <<>>, !.listed = ToSet(entries),
               !.present = loaded, !.broken = broken, !.ready = ready \/ entries = <<>>,
               !.failed = IF ready THEN {} ELSE ToSet(entries) \ loaded]
    BY Zenon DEF Session
  <2> HIDE DEF s, entries
  <2> QED
    BY <2>1 DEF NoSession
<1> HIDE DEF s
<1>2. /\ Listed \subseteq Modules /\ entries \in Seq(Listed)
  BY EntriesListed, EarlyModulesAssumption DEF Listed
<1>3. ToSet(entries) \subseteq Listed /\ (entries = <<>> => ToSet(entries) = {})
  BY <1>2 DEF ToSet
<1> HIDE DEF entries
<1>4. s \in Sessions
  <2>1. entries \in Seq(Modules) /\ <<>> \in Seq(Modules)
    BY <1>2
  <2>2. /\ s.todo \in Seq(Modules) /\ s.listed \in SUBSET Modules
        /\ s.present \in SUBSET Modules /\ s.failed \in SUBSET Modules
        /\ s.broken \in SUBSET Modules /\ s.ready \in BOOLEAN
        /\ s.outcome \in [Modules -> {"new", "ok", "bad"}]
    BY <1>1, <1>2, <1>3, <2>1
  <2> QED
    BY <1>1, <2>2 DEF Sessions
<1>5. ASSUME s.ready PROVE Noted(s) /\ Explained(s) /\ Answered(s)
  <2>1. s.failed = {} /\ (ready \/ s.listed = {})
    BY <1>1, <1>3, <1>5
  <2>2. Noted(s) /\ Explained(s)
    BY <1>1, <2>1 DEF Noted, Explained
  <2>3. Answered(s)
    <3>1. ToSet(<<>>) = {}
      BY DEF ToSet
    <3> QED
      BY <1>1, <1>3, <2>1, <3>1 DEF Answered
  <2> QED
    BY <2>2, <2>3
<1> QED
  BY <1>1, <1>4, <1>5 DEF SessionSound

-----------------------------------------------------------------------------
(***************************************************************************)
(* The inductive invariant.                                                *)
(***************************************************************************)

\* The variables have their types; the devices and the session of the modules follow.
HandoverTypes ==
  /\ image \in Images
  /\ upper \subseteq FactoryFiles
  /\ list \in BOOLEAN
  /\ links \in [Links -> LinkStates] /\ unsynced \subseteq DataLinks
  /\ stage \in Stages
  /\ at \in [Essential -> {"none", "initramfs", "newRoot"}]
  /\ made \in Nat /\ pos \in Nat
  /\ root \in {"initramfs", "rootfs"}
  /\ ramroot \in {"none", "kept", "open", "freed"}
  /\ hist \in [cut : BOOLEAN, edited : BOOLEAN, stuck : SUBSET Essential,
               lost : SUBSET DataLinks]

\* /dev/omnect is written once, with the root device, and both are right.
DevicesFound == RightDevices /\ (dev = Failed <=> devlinks = Failed)

SwitchStages == {"move", "chdir", "moveRoot"}
RootfsStages == {"chroot", "exec", "running"}

\* Nothing is below the new root before switch_root moves it there, and / changes with
\* MoveRoot only.
MountsInPlace ==
  /\ stage \in SwitchStages \cup RootfsStages \cup {"failed"} \/ Moved = {}
  /\ stage \in RootfsStages => root = "rootfs"
  /\ stage \in RootfsStages \cup {"failed"} \/ root = "initramfs"
  /\ ShellKeepsMounts

\* made counts up to the last mount of the boot.
MountsCounted ==
  /\ made <= Len(BootMounts)
  /\ stage \in {"mounts", "etc"} => made < Len(BootMounts)
  /\ stage = "etc" => made = 1
  /\ stage \in {"essential", "detect", "core", "prepare", "modules", "remaining"} => made = 0

\* The upper layer of /etc is empty or complete, and complete before the overlay is
\* mounted.
EtcWhole ==
  image.factory /\ ~hist.cut /\ ~hist.edited =>
    /\ upper \in {{}, FactoryFiles}
    /\ stage = "etc" \/ EtcMounted => upper = FactoryFiles

\* The links that are made are there, but for the one whose turn it is again.
LinksSoFar ==
  stage = "list" /\ list /\ image.list # Failed =>
    \A i \in 1 .. pos :
      \/ links[image.list[i]] = "right"
      \/ pos < Len(image.list) /\ image.list[i] = image.list[pos + 1]

\* The session of the modules is sound, and has modules to come only if it can load them.
ModulesSound == mods \in Sessions /\ SessionSound(mods) /\ (mods.ready \/ mods.todo = <<>>)

\* A list that cannot be parsed stays.
OnlyReadListGone == HasList(image) /\ ~list => image.list # Failed

IInv ==
  /\ HandoverTypes /\ DevicesFound /\ MountsInPlace /\ MountsCounted /\ EtcWhole
  /\ LinksSoFar /\ OnlyReadListGone /\ ListConsumedMeansLinked /\ ModulesSound

-----------------------------------------------------------------------------
(***************************************************************************)
(* Types and devices.                                                      *)
(***************************************************************************)

(***************************************************************************)
(* The links of the config and of the list are links of the image.         *)
(***************************************************************************)
LEMMA ImageLinks ==
  ASSUME image \in Images
  PROVE  /\ image.config # Failed => image.config \in Seq(Links)
         /\ image.list # Failed => image.list \in Seq(Links)
         /\ image.links \in [Links -> LinkStates] /\ DataLinks \subseteq Links
<1>1. /\ DataLinks \subseteq Links /\ image.links \in [Links -> LinkStates]
      /\ \A l \in {"config", "list"} : image[l] = Failed \/ image[l] \in Seq(Links)
  BY ImagesAssumption
<1> QED
  BY <1>1

(***************************************************************************)
(* Every step keeps the types.                                             *)
(***************************************************************************)
LEMMA TypeStep ==
  ASSUME HandoverTypes, [Next]_vars
  PROVE  HandoverTypes'
<1> USE DEF HandoverTypes
<1>1. CASE MountEssential
  <2>1. at' \in [Essential -> {"none", "initramfs", "newRoot"}]
    BY <1>1 DEF MountEssential
  <2>2. pos' \in Nat /\ stage' \in Stages
    BY <1>1 DEF MountEssential, To, Stages, FailingStages
  <2> QED
    BY <1>1, <2>1, <2>2 DEF MountEssential, durable
<1>2. CASE DetectRoot
  BY <1>2 DEF DetectRoot, Goto, To, durable, memory, Stages, FailingStages
<1>3. CASE MountCore
  BY <1>3 DEF MountCore, Goto, To, durable, memory, Stages, FailingStages
<1>4. CASE MountRemaining
  BY <1>4 DEF MountRemaining, Goto, To, durable, memory, Stages, FailingStages
<1>5. CASE SeedEtc
  BY <1>5 DEF SeedEtc, To, durable, memory, Stages, FailingStages
<1>6. CASE MountNext
  BY <1>6 DEF MountNext, To, durable, memory, Stages, FailingStages
<1>7. ASSUME NEW s \in SUBSET FactoryFiles, SeedFails(s) PROVE HandoverTypes'
  BY <1>7 DEF SeedFails, To, durable, memory, Stages, FailingStages
<1>8. ASSUME NEW unread \in SUBSET ConfFiles, NEW loaded \in Loadable,
             NEW broken \in SUBSET (Modules \ Builtin), NEW ready \in BOOLEAN,
             PrepareModules(unread, loaded, broken, ready)
      PROVE  HandoverTypes'
  BY <1>8 DEF PrepareModules, Goto, To, durable, memory, Stages, FailingStages
<1>9. CASE LoadListed
  BY <1>9 DEF LoadListed, durable, memory, Stages, FailingStages
<1>10. CASE ModulesDone
  BY <1>10 DEF ModulesDone, Goto, To, durable, memory, Stages, FailingStages
<1>11. ASSUME NEW l \in Links, RemoveExisting(l) PROVE HandoverTypes'
  <2>1. links' \in [Links -> LinkStates]
    BY <1>11 DEF RemoveExisting, LinkStates
  <2> QED
    BY <1>11, <2>1 DEF RemoveExisting, memory
<1>12. ASSUME NEW l \in Links, MakeLink(l) PROVE HandoverTypes'
  <2>1. links' \in [Links -> LinkStates]
    BY <1>12 DEF MakeLink, LinkStates
  <2>2. hist' \in [cut : BOOLEAN, edited : BOOLEAN, stuck : SUBSET Essential,
                   lost : SUBSET DataLinks]
    BY <1>12 DEF MakeLink
  <2> QED
    BY <1>12, <2>1, <2>2 DEF MakeLink
<1>13. CASE ConfigLinked
  BY <1>13 DEF ConfigLinked, Goto, To, durable, memory, Stages, FailingStages
<1>14. CASE NoLinkList
  BY <1>14 DEF NoLinkList, Goto, To, durable, memory, Stages, FailingStages
<1>15. CASE RemoveList
  BY <1>15 DEF RemoveList, Goto, To, durable, memory, Stages, FailingStages
<1>16. CASE WriteStatus
  BY <1>16 DEF WriteStatus, Goto, To, durable, memory, Stages, FailingStages
<1>17. ASSUME NEW opens \in BOOLEAN, PrepareSwitch(opens) PROVE HandoverTypes'
  BY <1>17 DEF PrepareSwitch, Goto, To, durable, memory, Stages, FailingStages
<1>18. CASE MoveMount
  <2>1. at' \in [Essential -> {"none", "initramfs", "newRoot"}]
    BY <1>18 DEF MoveMount
  <2>2. pos' \in Nat /\ stage' \in Stages
    BY <1>18 DEF MoveMount, To, Stages, FailingStages
  <2> QED
    BY <1>18, <2>1, <2>2 DEF MoveMount, durable
<1>19. CASE ChdirNewRoot
  BY <1>19 DEF ChdirNewRoot, Goto, To, durable, memory, Stages, FailingStages
<1>20. CASE MoveRoot
  BY <1>20 DEF MoveRoot, Goto, To, durable, memory, Stages, FailingStages
<1>21. CASE FreeInitramfs
  BY <1>21 DEF FreeInitramfs, Goto, To, durable, memory, Stages, FailingStages
<1>22. CASE ExecInit
  BY <1>22 DEF ExecInit, Goto, To, durable, memory, Stages, FailingStages
<1>23. ASSUME NEW stuck \in SUBSET Moved, SwitchFails(stuck) PROVE HandoverTypes'
  <2>1. Moved \subseteq Essential
    BY DEF Moved
  <2>2. /\ at' \in [Essential -> {"none", "initramfs", "newRoot"}]
        /\ hist' \in [cut : BOOLEAN, edited : BOOLEAN, stuck : SUBSET Essential,
                      lost : SUBSET DataLinks]
    BY <1>23, <2>1 DEF SwitchFails, rollback_critical_mounts
  <2> QED
    BY <1>23, <2>2 DEF SwitchFails, To, durable, Stages, FailingStages
<1>24. ASSUME NEW from \in FailingStages, Fails(from) PROVE HandoverTypes'
  BY <1>24 DEF Fails, FailingStages, Goto, To, durable, memory, Stages
<1>25. ASSUME NEW s \in SUBSET FactoryFiles, NEW newList \in BOOLEAN, Edit(s, newList)
       PROVE  HandoverTypes'
  BY <1>25 DEF Edit, durable, memory, Stages, FailingStages
<1>26. CASE WriteBack
  BY <1>26 DEF WriteBack, durable, memory, Stages, FailingStages
<1>27. ASSUME NEW reset \in BOOLEAN, Reboot(reset) PROVE HandoverTypes'
  <2>1. image.links \in [Links -> LinkStates]
    BY ImageLinks
  <2>2. hist' \in [cut : BOOLEAN, edited : BOOLEAN, stuck : SUBSET Essential,
                   lost : SUBSET DataLinks]
    <3>1. CASE reset
      <4>1. hist' = NoHist
        BY <1>27, <3>1 DEF Reboot
      <4> QED
        BY <4>1 DEF NoHist
    <3>2. CASE ~reset
      BY <1>27, <3>2 DEF Reboot
    <3> QED
      BY <3>1, <3>2
  <2>3. /\ upper' \subseteq FactoryFiles /\ list' \in BOOLEAN
        /\ links' \in [Links -> LinkStates]
    BY <1>27, <2>1 DEF Reboot, HasList
  <2> QED
    BY <1>27, <2>2, <2>3 DEF Reboot, FreshMemory, Goto, To, Stages, FailingStages
<1>28. ASSUME NEW lost \in SUBSET DataLinks, PowerLoss(lost) PROVE HandoverTypes'
  <2>1. links' \in [Links -> LinkStates]
    BY <1>28 DEF PowerLoss, LinkStates
  <2>2. /\ upper' \subseteq FactoryFiles
        /\ hist' \in [cut : BOOLEAN, edited : BOOLEAN, stuck : SUBSET Essential,
                      lost : SUBSET DataLinks]
    <3>1. CASE UNCHANGED upper
               /\ hist' = [hist EXCEPT !.stuck = {}, !.lost = hist.lost \cup lost]
      BY <3>1
    <3>2. ASSUME NEW s \in SUBSET FactoryFiles, upper' = s,
                 hist' = [hist EXCEPT !.stuck = {}, !.lost = hist.lost \cup lost,
                                      !.cut = s # {}]
          PROVE  /\ upper' \subseteq FactoryFiles
                 /\ hist' \in [cut : BOOLEAN, edited : BOOLEAN, stuck : SUBSET Essential,
                               lost : SUBSET DataLinks]
      BY <3>2
    <3> QED
      BY <1>28, <3>1, <3>2 DEF PowerLoss
  <2> QED
    BY <1>28, <2>1, <2>2 DEF PowerLoss, FreshMemory, To, Stages, FailingStages
<1>29. CASE UNCHANGED vars
  BY <1>29 DEF vars, durable, memory
<1> HIDE DEF HandoverTypes
<1> QED
  BY <1>1, <1>2, <1>3, <1>4, <1>5, <1>6, <1>7, <1>8, <1>9, <1>10, <1>11, <1>12, <1>13,
       <1>14, <1>15, <1>16, <1>17, <1>18, <1>19, <1>20, <1>21, <1>22, <1>23, <1>24,
       <1>25, <1>26, <1>27, <1>28, <1>29 DEF Next, MountsNext, ModulesNext, LinksNext,
       SwitchNext

(***************************************************************************)
(* The devices of a boot are found in one step, and they are right.        *)
(***************************************************************************)
LEMMA DevicesStep ==
  ASSUME image \in Images, DevicesFound, [Next]_vars
  PROVE  DevicesFound'
<1> USE DEF DevicesFound, RightDevices
<1>1. CASE MountEssential
  BY <1>1 DEF MountEssential, To, durable, memory, BootDiskLinks, KernelName
<1>2. CASE DetectRoot
  <2>1. /\ dev' # Failed /\ devlinks' # Failed /\ devlinks' = BootDiskLinks
    BY <1>2, DetectedRight DEF DetectRoot
  <2>2. image' = image
    BY <1>2 DEF DetectRoot, durable
  <2> QED
    BY <2>1, <2>2 DEF BootDiskLinks, KernelName
<1>3. CASE MountCore
  BY <1>3 DEF MountCore, Goto, To, durable, memory, BootDiskLinks, KernelName
<1>4. CASE MountRemaining
  BY <1>4 DEF MountRemaining, Goto, To, durable, memory, BootDiskLinks, KernelName
<1>5. CASE SeedEtc
  BY <1>5 DEF SeedEtc, To, durable, memory, BootDiskLinks, KernelName
<1>6. CASE MountNext
  BY <1>6 DEF MountNext, To, durable, memory, BootDiskLinks, KernelName
<1>7. ASSUME NEW s \in SUBSET FactoryFiles, SeedFails(s) PROVE DevicesFound'
  BY <1>7 DEF SeedFails, To, durable, memory, BootDiskLinks, KernelName
<1>8. ASSUME NEW unread \in SUBSET ConfFiles, NEW loaded \in Loadable,
             NEW broken \in SUBSET (Modules \ Builtin), NEW ready \in BOOLEAN,
             PrepareModules(unread, loaded, broken, ready)
      PROVE  DevicesFound'
  BY <1>8 DEF PrepareModules, Goto, To, durable, memory, BootDiskLinks, KernelName
<1>9. CASE LoadListed
  BY <1>9 DEF LoadListed, durable, memory, BootDiskLinks, KernelName
<1>10. CASE ModulesDone
  BY <1>10 DEF ModulesDone, Goto, To, durable, memory, BootDiskLinks, KernelName
<1>11. ASSUME NEW l \in Links, RemoveExisting(l) PROVE DevicesFound'
  BY <1>11 DEF RemoveExisting, Linking, ListRead, durable, memory, BootDiskLinks, KernelName
<1>12. ASSUME NEW l \in Links, MakeLink(l) PROVE DevicesFound'
  BY <1>12 DEF MakeLink, Linking, ListRead, durable, memory, BootDiskLinks, KernelName
<1>13. CASE ConfigLinked
  BY <1>13 DEF ConfigLinked, Goto, To, durable, memory, BootDiskLinks, KernelName
<1>14. CASE NoLinkList
  BY <1>14 DEF NoLinkList, Goto, To, durable, memory, BootDiskLinks, KernelName
<1>15. CASE RemoveList
  BY <1>15 DEF RemoveList, Goto, To, durable, memory, BootDiskLinks, KernelName
<1>16. CASE WriteStatus
  BY <1>16 DEF WriteStatus, Goto, To, durable, memory, BootDiskLinks, KernelName
<1>17. ASSUME NEW opens \in BOOLEAN, PrepareSwitch(opens) PROVE DevicesFound'
  BY <1>17 DEF PrepareSwitch, Goto, To, durable, memory, BootDiskLinks, KernelName
<1>18. CASE MoveMount
  BY <1>18 DEF MoveMount, To, durable, memory, BootDiskLinks, KernelName
<1>19. CASE ChdirNewRoot
  BY <1>19 DEF ChdirNewRoot, Goto, To, durable, memory, BootDiskLinks, KernelName
<1>20. CASE MoveRoot
  BY <1>20 DEF MoveRoot, Goto, To, durable, memory, BootDiskLinks, KernelName
<1>21. CASE FreeInitramfs
  BY <1>21 DEF FreeInitramfs, Goto, To, durable, memory, BootDiskLinks, KernelName
<1>22. CASE ExecInit
  BY <1>22 DEF ExecInit, Goto, To, durable, memory, BootDiskLinks, KernelName
<1>23. ASSUME NEW stuck \in SUBSET Moved, SwitchFails(stuck) PROVE DevicesFound'
  BY <1>23 DEF SwitchFails, rollback_critical_mounts, To, durable, memory, BootDiskLinks,
       KernelName
<1>24. ASSUME NEW from \in FailingStages, Fails(from) PROVE DevicesFound'
  BY <1>24 DEF Fails, FailingStages, Goto, To, durable, memory, BootDiskLinks, KernelName
<1>25. ASSUME NEW s \in SUBSET FactoryFiles, NEW newList \in BOOLEAN, Edit(s, newList)
       PROVE  DevicesFound'
  BY <1>25 DEF Edit, durable, memory, BootDiskLinks, KernelName
<1>26. CASE WriteBack
  BY <1>26 DEF WriteBack, durable, memory, BootDiskLinks, KernelName
<1>27. ASSUME NEW reset \in BOOLEAN, Reboot(reset) PROVE DevicesFound'
  BY <1>27 DEF Reboot, FreshMemory
<1>28. ASSUME NEW lost \in SUBSET DataLinks, PowerLoss(lost) PROVE DevicesFound'
  BY <1>28 DEF PowerLoss, FreshMemory
<1>29. CASE UNCHANGED vars
  BY <1>29 DEF vars, durable, memory, BootDiskLinks, KernelName
<1> QED
  BY <1>1, <1>2, <1>3, <1>4, <1>5, <1>6, <1>7, <1>8, <1>9, <1>10, <1>11, <1>12, <1>13,
       <1>14, <1>15, <1>16, <1>17, <1>18, <1>19, <1>20, <1>21, <1>22, <1>23, <1>24,
       <1>25, <1>26, <1>27, <1>28, <1>29 DEF Next, MountsNext, ModulesNext, LinksNext,
       SwitchNext

-----------------------------------------------------------------------------
(***************************************************************************)
(* The mounts of the initramfs.                                            *)
(***************************************************************************)

(***************************************************************************)
(* Nothing but a mount that could not be moved back is below the new root  *)
(* when a boot fails on the initramfs.                                     *)
(***************************************************************************)
LEMMA MountsStep ==
  ASSUME HandoverTypes, MountsInPlace, [Next]_vars
  PROVE  MountsInPlace'
<1> USE DEF MountsInPlace, ShellKeepsMounts, SwitchStages, RootfsStages, Moved
<1>a. at \in [Essential -> {"none", "initramfs", "newRoot"}]
  BY DEF HandoverTypes
<1>1. CASE MountEssential
  BY <1>1, <1>a DEF MountEssential, To, durable, memory
<1>2. CASE DetectRoot
  BY <1>2, <1>a DEF DetectRoot, Goto, To, durable, memory
<1>3. CASE MountCore
  BY <1>3, <1>a DEF MountCore, Goto, To, durable, memory
<1>4. CASE MountRemaining
  BY <1>4, <1>a DEF MountRemaining, Goto, To, durable, memory
<1>5. CASE SeedEtc
  BY <1>5, <1>a DEF SeedEtc, To, durable, memory
<1>6. CASE MountNext
  BY <1>6, <1>a DEF MountNext, To, durable, memory
<1>7. ASSUME NEW s \in SUBSET FactoryFiles, SeedFails(s) PROVE MountsInPlace'
  BY <1>7, <1>a DEF SeedFails, To, durable, memory
<1>8. ASSUME NEW unread \in SUBSET ConfFiles, NEW loaded \in Loadable,
             NEW broken \in SUBSET (Modules \ Builtin), NEW ready \in BOOLEAN,
             PrepareModules(unread, loaded, broken, ready)
      PROVE  MountsInPlace'
  BY <1>8, <1>a DEF PrepareModules, Goto, To, durable, memory
<1>9. CASE LoadListed
  BY <1>9, <1>a DEF LoadListed, durable, memory
<1>10. CASE ModulesDone
  BY <1>10, <1>a DEF ModulesDone, Goto, To, durable, memory
<1>11. ASSUME NEW l \in Links, RemoveExisting(l) PROVE MountsInPlace'
  BY <1>11, <1>a DEF RemoveExisting, Linking, ListRead, durable, memory
<1>12. ASSUME NEW l \in Links, MakeLink(l) PROVE MountsInPlace'
  BY <1>12, <1>a DEF MakeLink, Linking, ListRead, durable, memory
<1>13. CASE ConfigLinked
  BY <1>13, <1>a DEF ConfigLinked, Goto, To, durable, memory
<1>14. CASE NoLinkList
  BY <1>14, <1>a DEF NoLinkList, Goto, To, durable, memory
<1>15. CASE RemoveList
  BY <1>15, <1>a DEF RemoveList, Goto, To, durable, memory
<1>16. CASE WriteStatus
  BY <1>16, <1>a DEF WriteStatus, Goto, To, durable, memory
<1>17. ASSUME NEW opens \in BOOLEAN, PrepareSwitch(opens) PROVE MountsInPlace'
  BY <1>17, <1>a DEF PrepareSwitch, Goto, To, durable, memory
<1>18. CASE MoveMount
  BY <1>18, <1>a DEF MoveMount, To, durable, memory
<1>19. CASE ChdirNewRoot
  BY <1>19, <1>a DEF ChdirNewRoot, Goto, To, durable, memory
<1>20. CASE MoveRoot
  BY <1>20, <1>a DEF MoveRoot, Goto, To, durable, memory
<1>21. CASE FreeInitramfs
  BY <1>21, <1>a DEF FreeInitramfs, Goto, To, durable, memory
<1>22. CASE ExecInit
  BY <1>22, <1>a DEF ExecInit, Goto, To, durable, memory
<1>23. ASSUME NEW stuck \in SUBSET Moved, SwitchFails(stuck) PROVE MountsInPlace'
  <2>1. CASE stage \in RollbackStages
    <3>1. /\ at' = [m \in Essential |-> IF m \in Moved \ stuck THEN "initramfs" ELSE at[m]]
          /\ hist'.stuck = stuck
          /\ stage' = "failed" /\ root' = root
      BY <1>23, <2>1 DEF SwitchFails, rollback_critical_mounts, To, HandoverTypes
    <3>2. root = "initramfs"
      BY <2>1 DEF RollbackStages
    <3>3. \A m \in Essential \ hist'.stuck : at'[m] # "newRoot"
      BY <3>1
    <3> QED
      BY <3>1, <3>2, <3>3
  <2>2. CASE stage \notin RollbackStages
    <3>1. stage = "chroot" /\ stage' = "failed" /\ root' = root
      BY <1>23, <2>2 DEF SwitchFails, RollbackStages, To
    <3> QED
      BY <3>1
  <2> QED
    BY <2>1, <2>2
<1>24. ASSUME NEW from \in FailingStages, Fails(from) PROVE MountsInPlace'
  BY <1>24, <1>a DEF Fails, FailingStages, Goto, To, durable, memory
<1>25. ASSUME NEW s \in SUBSET FactoryFiles, NEW newList \in BOOLEAN, Edit(s, newList)
       PROVE  MountsInPlace'
  BY <1>25, <1>a DEF Edit, durable, memory
<1>26. CASE WriteBack
  BY <1>26, <1>a DEF WriteBack, durable, memory
<1>27. ASSUME NEW reset \in BOOLEAN, Reboot(reset) PROVE MountsInPlace'
  BY <1>27, <1>a DEF Reboot, FreshMemory, Goto, To, durable, memory
<1>28. ASSUME NEW lost \in SUBSET DataLinks, PowerLoss(lost) PROVE MountsInPlace'
  BY <1>28, <1>a DEF PowerLoss, FreshMemory, To, durable, memory
<1>29. CASE UNCHANGED vars
  BY <1>29, <1>a DEF vars, durable, memory
<1> HIDE DEF MountsInPlace, ShellKeepsMounts, SwitchStages, RootfsStages, Moved
<1> QED
  BY <1>1, <1>2, <1>3, <1>4, <1>5, <1>6, <1>7, <1>8, <1>9, <1>10, <1>11, <1>12, <1>13,
       <1>14, <1>15, <1>16, <1>17, <1>18, <1>19, <1>20, <1>21, <1>22, <1>23, <1>24,
       <1>25, <1>26, <1>27, <1>28, <1>29 DEF Next, MountsNext, ModulesNext, LinksNext,
       SwitchNext

-----------------------------------------------------------------------------
(***************************************************************************)
(* The defaults of /etc.                                                   *)
(***************************************************************************)

(***************************************************************************)
(* No step changes the image.                                              *)
(***************************************************************************)
LEMMA ImageFixed ==
  ASSUME [Next]_vars
  PROVE  image' = image
<1>1. CASE MountEssential
  BY <1>1 DEF MountEssential, To, durable, memory
<1>2. CASE DetectRoot
  BY <1>2 DEF DetectRoot, Goto, To, durable, memory
<1>3. CASE MountCore
  BY <1>3 DEF MountCore, Goto, To, durable, memory
<1>4. CASE MountRemaining
  BY <1>4 DEF MountRemaining, Goto, To, durable, memory
<1>5. CASE SeedEtc
  BY <1>5 DEF SeedEtc, To, durable, memory
<1>6. CASE MountNext
  BY <1>6 DEF MountNext, To, durable, memory
<1>7. ASSUME NEW s \in SUBSET FactoryFiles, SeedFails(s) PROVE image' = image
  BY <1>7 DEF SeedFails, To, durable, memory
<1>8. ASSUME NEW unread \in SUBSET ConfFiles, NEW loaded \in Loadable,
             NEW broken \in SUBSET (Modules \ Builtin), NEW ready \in BOOLEAN,
             PrepareModules(unread, loaded, broken, ready)
      PROVE  image' = image
  BY <1>8 DEF PrepareModules, Goto, To, durable, memory
<1>9. CASE LoadListed
  BY <1>9 DEF LoadListed, durable, memory
<1>10. CASE ModulesDone
  BY <1>10 DEF ModulesDone, Goto, To, durable, memory
<1>11. ASSUME NEW l \in Links, RemoveExisting(l) PROVE image' = image
  BY <1>11 DEF RemoveExisting, Linking, ListRead, durable, memory
<1>12. ASSUME NEW l \in Links, MakeLink(l) PROVE image' = image
  BY <1>12 DEF MakeLink, Linking, ListRead, durable, memory
<1>13. CASE ConfigLinked
  BY <1>13 DEF ConfigLinked, Goto, To, durable, memory
<1>14. CASE NoLinkList
  BY <1>14 DEF NoLinkList, Goto, To, durable, memory
<1>15. CASE RemoveList
  BY <1>15 DEF RemoveList, Goto, To, durable, memory
<1>16. CASE WriteStatus
  BY <1>16 DEF WriteStatus, Goto, To, durable, memory
<1>17. ASSUME NEW opens \in BOOLEAN, PrepareSwitch(opens) PROVE image' = image
  BY <1>17 DEF PrepareSwitch, Goto, To, durable, memory
<1>18. CASE MoveMount
  BY <1>18 DEF MoveMount, To, durable, memory
<1>19. CASE ChdirNewRoot
  BY <1>19 DEF ChdirNewRoot, Goto, To, durable, memory
<1>20. CASE MoveRoot
  BY <1>20 DEF MoveRoot, Goto, To, durable, memory
<1>21. CASE FreeInitramfs
  BY <1>21 DEF FreeInitramfs, Goto, To, durable, memory
<1>22. CASE ExecInit
  BY <1>22 DEF ExecInit, Goto, To, durable, memory
<1>23. ASSUME NEW stuck \in SUBSET Moved, SwitchFails(stuck) PROVE image' = image
  BY <1>23 DEF SwitchFails, rollback_critical_mounts, To, durable, memory
<1>24. ASSUME NEW from \in FailingStages, Fails(from) PROVE image' = image
  BY <1>24 DEF Fails, FailingStages, Goto, To, durable, memory
<1>25. ASSUME NEW s \in SUBSET FactoryFiles, NEW newList \in BOOLEAN, Edit(s, newList)
       PROVE  image' = image
  BY <1>25 DEF Edit, durable, memory
<1>26. CASE WriteBack
  BY <1>26 DEF WriteBack, durable, memory
<1>27. ASSUME NEW reset \in BOOLEAN, Reboot(reset) PROVE image' = image
  BY <1>27 DEF Reboot, FreshMemory, Goto, To, durable, memory
<1>28. ASSUME NEW lost \in SUBSET DataLinks, PowerLoss(lost) PROVE image' = image
  BY <1>28 DEF PowerLoss, FreshMemory, To, durable, memory
<1>29. CASE UNCHANGED vars
  BY <1>29 DEF vars, durable, memory
<1> QED
  BY <1>1, <1>2, <1>3, <1>4, <1>5, <1>6, <1>7, <1>8, <1>9, <1>10, <1>11, <1>12, <1>13,
       <1>14, <1>15, <1>16, <1>17, <1>18, <1>19, <1>20, <1>21, <1>22, <1>23, <1>24,
       <1>25, <1>26, <1>27, <1>28, <1>29 DEF Next, MountsNext, ModulesNext, LinksNext,
       SwitchNext

(***************************************************************************)
(* The overlay of /etc is the second mount, behind the raw view of the     *)
(* rootfs, and only the second.                                            *)
(***************************************************************************)
LEMMA EtcIsSecond ==
  /\ Len(BootMounts) \in Nat /\ Len(BootMounts) >= 5
  /\ \A i \in 1 .. Len(BootMounts) : BootMounts[i] = "etc" <=> i = 2
<1> DEFINE D == {"home", "varLib", "usrLocal", "varLog"}
           first == <<"raw", "etc">>
<1>1. DataMounts \in Seq(D) /\ Len(DataMounts) >= 3
  <2> DEFINE s == <<"home", "varLib", "usrLocal">>
             t == IF image.varlog THEN <<"varLog">> ELSE <<>>
  <2>1. s \in Seq(D) /\ Len(s) = 3
    OBVIOUS
  <2>2. t \in Seq(D)
    <3>1. CASE image.varlog
      BY <3>1
    <3>2. CASE ~image.varlog
      BY <3>2
    <3> QED
      BY <3>1, <3>2
  <2> HIDE DEF s, t, D
  <2>3. s \o t \in Seq(D) /\ Len(s \o t) = Len(s) + Len(t)
    BY <2>1, <2>2, ConcatProperties
  <2>4. Len(t) \in Nat
    BY <2>2
  <2> QED
    BY <2>1, <2>3, <2>4 DEF DataMounts, s, t
<1>2. /\ DataMounts \in Seq(D \cup {"raw", "etc"}) /\ first \in Seq(D \cup {"raw", "etc"})
      /\ Len(first) = 2 /\ first[1] = "raw" /\ first[2] = "etc"
      /\ Len(DataMounts) \in Nat /\ \A i \in 1 .. Len(DataMounts) : DataMounts[i] \in D
  BY <1>1
<1> HIDE DEF first
<1>3. /\ Len(first \o DataMounts) = 2 + Len(DataMounts)
      /\ \A i \in 1 .. 2 + Len(DataMounts) : (first \o DataMounts)[i] =
           IF i <= 2 THEN first[i] ELSE DataMounts[i - 2]
  <2> DEFINE E == D \cup {"raw", "etc"}
  <2> HIDE DEF E
  <2>1. first \in Seq(E) /\ DataMounts \in Seq(E)
    BY <1>2 DEF E
  <2>2. /\ Len(first \o DataMounts) = Len(first) + Len(DataMounts)
        /\ \A i \in 1 .. Len(first) + Len(DataMounts) : (first \o DataMounts)[i] =
             IF i <= Len(first) THEN first[i] ELSE DataMounts[i - Len(first)]
    BY <2>1, ConcatProperties
  <2> QED
    BY <1>2, <2>2
<1>4. ASSUME NEW i \in 1 .. 2 + Len(DataMounts)
      PROVE  (first \o DataMounts)[i] = "etc" <=> i = 2
  <2>1. CASE i <= 2
    BY <1>2, <1>3, <2>1
  <2>2. CASE i > 2
    <3>1. i - 2 \in 1 .. Len(DataMounts)
      BY <1>2, <2>2
    <3> QED
      BY <1>2, <1>3, <2>2, <3>1
  <2> QED
    BY <1>2, <2>1, <2>2
<1> QED
  BY <1>1, <1>2, <1>3, <1>4 DEF BootMounts, first

(***************************************************************************)
(* The mounts are counted up to the last.                                  *)
(***************************************************************************)
LEMMA CountStep ==
  ASSUME made \in Nat, MountsCounted, [Next]_vars
  PROVE  MountsCounted'
<1> USE DEF MountsCounted
<1>a. BootMounts' = BootMounts
  BY ImageFixed DEF BootMounts, DataMounts
<1>b. /\ Len(BootMounts) \in Nat /\ Len(BootMounts) >= 5
      /\ \A i \in 1 .. Len(BootMounts) : BootMounts[i] = "etc" <=> i = 2
  BY EtcIsSecond
<1>1. CASE MountEssential
  BY <1>1, <1>a, <1>b DEF MountEssential, To, durable, memory
<1>2. CASE DetectRoot
  BY <1>2, <1>a, <1>b DEF DetectRoot, Goto, To, durable, memory
<1>3. CASE MountCore
  BY <1>3, <1>a, <1>b DEF MountCore, Goto, To, durable, memory
<1>4. CASE MountRemaining
  BY <1>4, <1>a, <1>b DEF MountRemaining, Goto, To, durable, memory
<1>5. CASE SeedEtc
  <2>1. made + 1 \in 1 .. Len(BootMounts) /\ BootMounts[made + 1] = "etc"
    BY <1>5, <1>b DEF SeedEtc, NextMount
  <2> QED
    BY <1>5, <1>a, <1>b, <2>1 DEF SeedEtc, To, memory
<1>6. CASE MountNext
  <2>1. made' = made + 1 /\ made < Len(BootMounts)
    BY <1>6 DEF MountNext
  <2>2. stage' = IF made + 1 = Len(BootMounts) THEN "config" ELSE "mounts"
    BY <1>6 DEF MountNext, To
  <2> QED
    BY <1>a, <1>b, <2>1, <2>2
<1>7. ASSUME NEW s \in SUBSET FactoryFiles, SeedFails(s) PROVE MountsCounted'
  BY <1>7, <1>a, <1>b DEF SeedFails, To, durable, memory
<1>8. ASSUME NEW unread \in SUBSET ConfFiles, NEW loaded \in Loadable,
             NEW broken \in SUBSET (Modules \ Builtin), NEW ready \in BOOLEAN,
             PrepareModules(unread, loaded, broken, ready)
      PROVE  MountsCounted'
  BY <1>8, <1>a, <1>b DEF PrepareModules, Goto, To, durable, memory
<1>9. CASE LoadListed
  BY <1>9, <1>a, <1>b DEF LoadListed, durable, memory
<1>10. CASE ModulesDone
  BY <1>10, <1>a, <1>b DEF ModulesDone, Goto, To, durable, memory
<1>11. ASSUME NEW l \in Links, RemoveExisting(l) PROVE MountsCounted'
  BY <1>11, <1>a, <1>b DEF RemoveExisting, Linking, ListRead, durable, memory
<1>12. ASSUME NEW l \in Links, MakeLink(l) PROVE MountsCounted'
  BY <1>12, <1>a, <1>b DEF MakeLink, Linking, ListRead, durable, memory
<1>13. CASE ConfigLinked
  BY <1>13, <1>a, <1>b DEF ConfigLinked, Goto, To, durable, memory
<1>14. CASE NoLinkList
  BY <1>14, <1>a, <1>b DEF NoLinkList, Goto, To, durable, memory
<1>15. CASE RemoveList
  BY <1>15, <1>a, <1>b DEF RemoveList, Goto, To, durable, memory
<1>16. CASE WriteStatus
  BY <1>16, <1>a, <1>b DEF WriteStatus, Goto, To, durable, memory
<1>17. ASSUME NEW opens \in BOOLEAN, PrepareSwitch(opens) PROVE MountsCounted'
  BY <1>17, <1>a, <1>b DEF PrepareSwitch, Goto, To, durable, memory
<1>18. CASE MoveMount
  BY <1>18, <1>a, <1>b DEF MoveMount, To, durable, memory
<1>19. CASE ChdirNewRoot
  BY <1>19, <1>a, <1>b DEF ChdirNewRoot, Goto, To, durable, memory
<1>20. CASE MoveRoot
  BY <1>20, <1>a, <1>b DEF MoveRoot, Goto, To, durable, memory
<1>21. CASE FreeInitramfs
  BY <1>21, <1>a, <1>b DEF FreeInitramfs, Goto, To, durable, memory
<1>22. CASE ExecInit
  BY <1>22, <1>a, <1>b DEF ExecInit, Goto, To, durable, memory
<1>23. ASSUME NEW stuck \in SUBSET Moved, SwitchFails(stuck) PROVE MountsCounted'
  BY <1>23, <1>a, <1>b DEF SwitchFails, To
<1>24. ASSUME NEW from \in FailingStages, Fails(from) PROVE MountsCounted'
  BY <1>24, <1>a, <1>b DEF Fails, FailingStages, Goto, To, durable, memory
<1>25. ASSUME NEW s \in SUBSET FactoryFiles, NEW newList \in BOOLEAN, Edit(s, newList)
       PROVE  MountsCounted'
  BY <1>25, <1>a, <1>b DEF Edit, durable, memory
<1>26. CASE WriteBack
  BY <1>26, <1>a, <1>b DEF WriteBack, durable, memory
<1>27. ASSUME NEW reset \in BOOLEAN, Reboot(reset) PROVE MountsCounted'
  BY <1>27, <1>a, <1>b DEF Reboot, FreshMemory, Goto, To, durable, memory
<1>28. ASSUME NEW lost \in SUBSET DataLinks, PowerLoss(lost) PROVE MountsCounted'
  <2>1. made' = 0 /\ stage' = "essential"
    BY <1>28 DEF PowerLoss, FreshMemory, To
  <2> QED
    BY <1>a, <1>b, <2>1
<1>29. CASE UNCHANGED vars
  BY <1>29, <1>a, <1>b DEF vars, durable, memory
<1> HIDE DEF MountsCounted
<1> QED
  BY <1>1, <1>2, <1>3, <1>4, <1>5, <1>6, <1>7, <1>8, <1>9, <1>10, <1>11, <1>12, <1>13,
       <1>14, <1>15, <1>16, <1>17, <1>18, <1>19, <1>20, <1>21, <1>22, <1>23, <1>24,
       <1>25, <1>26, <1>27, <1>28, <1>29 DEF Next, MountsNext, ModulesNext, LinksNext,
       SwitchNext

(***************************************************************************)
(* A complete copy, and nothing else, gets below a mounted overlay, as     *)
(* long as no copy is cut off and nobody changes /etc.                     *)
(***************************************************************************)
LEMMA EtcStep ==
  ASSUME HandoverTypes, MountsCounted, EtcWhole, [Next]_vars
  PROVE  EtcWhole'
<1> USE DEF EtcWhole, EtcMounted
<1>a. image' = image
  BY ImageFixed
<1>b. /\ made \in Nat /\ upper \subseteq FactoryFiles
      /\ hist \in [cut : BOOLEAN, edited : BOOLEAN, stuck : SUBSET Essential,
                   lost : SUBSET DataLinks]
  BY DEF HandoverTypes
<1>c. stage = "mounts" /\ NextMount = "etc" => made = 1
  <2>1. stage = "mounts" => made + 1 \in 1 .. Len(BootMounts)
    BY EtcIsSecond, <1>b DEF MountsCounted
  <2> QED
    BY <1>b, <2>1, EtcIsSecond DEF NextMount
<1>1. CASE MountEssential
  BY <1>1, <1>a, <1>b DEF MountEssential, To, durable, memory
<1>2. CASE DetectRoot
  BY <1>2, <1>a, <1>b DEF DetectRoot, Goto, To, durable, memory
<1>3. CASE MountCore
  BY <1>3, <1>a, <1>b DEF MountCore, Goto, To, durable, memory
<1>4. CASE MountRemaining
  BY <1>4, <1>a, <1>b DEF MountRemaining, Goto, To, durable, memory
<1>5. CASE SeedEtc
  <2>1. stage = "mounts" /\ stage' = "etc" /\ made' = made /\ hist' = hist
    BY <1>5 DEF SeedEtc, To, memory
  <2>2. CASE Copies
    <3>1. upper' = FactoryFiles
      BY <1>5, <2>2 DEF SeedEtc
    <3> QED
      BY <3>1
  <2>3. CASE ~Copies
    <3>1. upper' = upper
      BY <1>5, <2>3 DEF SeedEtc
    <3> QED
      BY <1>a, <2>1, <2>3, <3>1 DEF Copies, is_upper_dir_empty
  <2> QED
    BY <2>2, <2>3
<1>6. CASE MountNext
  <2>1. made' = made + 1 /\ upper' = upper /\ hist' = hist
    BY <1>6 DEF MountNext, durable
  <2>2. stage' # "etc"
    BY <1>6 DEF MountNext, To
  <2>3. CASE stage = "etc"
    BY <1>a, <2>1, <2>2, <2>3
  <2>4. CASE stage = "mounts"
    <3>1. made # 1
      <4>1. NextMount # "etc"
        BY <1>6, <2>4 DEF MountNext
      <4>2. made = 1 => BootMounts[made + 1] = "etc"
        BY <1>b, EtcIsSecond
      <4> QED
        BY <4>1, <4>2 DEF NextMount
    <3> QED
      BY <1>a, <1>b, <2>1, <2>2, <3>1
  <2> QED
    BY <1>6, <2>3, <2>4 DEF MountNext
<1>7. ASSUME NEW s \in SUBSET FactoryFiles, SeedFails(s) PROVE EtcWhole'
  <2>1. made' = 1 /\ stage' = "failed" /\ upper' = s
    BY <1>7, <1>b, <1>c DEF SeedFails, To, memory
  <2>2. CASE s = {}
    BY <2>1, <2>2
  <2>3. CASE s # {}
    <3>1. hist'.cut
      BY <1>7, <1>b, <2>3 DEF SeedFails
    <3> QED
      BY <3>1
  <2> QED
    BY <2>2, <2>3
<1>8. ASSUME NEW unread \in SUBSET ConfFiles, NEW loaded \in Loadable,
             NEW broken \in SUBSET (Modules \ Builtin), NEW ready \in BOOLEAN,
             PrepareModules(unread, loaded, broken, ready)
      PROVE  EtcWhole'
  BY <1>8, <1>a, <1>b DEF PrepareModules, Goto, To, durable, memory
<1>9. CASE LoadListed
  BY <1>9, <1>a, <1>b DEF LoadListed, durable, memory
<1>10. CASE ModulesDone
  BY <1>10, <1>a, <1>b DEF ModulesDone, Goto, To, durable, memory
<1>11. ASSUME NEW l \in Links, RemoveExisting(l) PROVE EtcWhole'
  BY <1>11, <1>a, <1>b DEF RemoveExisting, Linking, ListRead, durable, memory
<1>12. ASSUME NEW l \in Links, MakeLink(l) PROVE EtcWhole'
  <2>1. /\ upper' = upper /\ made' = made /\ stage' = stage
        /\ hist'.cut = hist.cut /\ hist'.edited = hist.edited
    BY <1>12, <1>b DEF MakeLink
  <2> QED
    BY <1>a, <2>1
<1>13. CASE ConfigLinked
  BY <1>13, <1>a, <1>b DEF ConfigLinked, Goto, To, durable, memory
<1>14. CASE NoLinkList
  BY <1>14, <1>a, <1>b DEF NoLinkList, Goto, To, durable, memory
<1>15. CASE RemoveList
  BY <1>15, <1>a, <1>b DEF RemoveList, Goto, To, durable, memory
<1>16. CASE WriteStatus
  BY <1>16, <1>a, <1>b DEF WriteStatus, Goto, To, durable, memory
<1>17. ASSUME NEW opens \in BOOLEAN, PrepareSwitch(opens) PROVE EtcWhole'
  BY <1>17, <1>a, <1>b DEF PrepareSwitch, Goto, To, durable, memory
<1>18. CASE MoveMount
  BY <1>18, <1>a, <1>b DEF MoveMount, To, durable, memory
<1>19. CASE ChdirNewRoot
  BY <1>19, <1>a, <1>b DEF ChdirNewRoot, Goto, To, durable, memory
<1>20. CASE MoveRoot
  BY <1>20, <1>a, <1>b DEF MoveRoot, Goto, To, durable, memory
<1>21. CASE FreeInitramfs
  BY <1>21, <1>a, <1>b DEF FreeInitramfs, Goto, To, durable, memory
<1>22. CASE ExecInit
  BY <1>22, <1>a, <1>b DEF ExecInit, Goto, To, durable, memory
<1>23. ASSUME NEW stuck \in SUBSET Moved, SwitchFails(stuck) PROVE EtcWhole'
  <2>1. /\ upper' = upper /\ made' = made /\ stage' = "failed"
        /\ hist'.cut = hist.cut /\ hist'.edited = hist.edited
    BY <1>23, <1>b DEF SwitchFails, rollback_critical_mounts, To, durable
  <2> QED
    BY <1>a, <2>1
<1>24. ASSUME NEW from \in FailingStages, Fails(from) PROVE EtcWhole'
  BY <1>24, <1>a, <1>b DEF Fails, FailingStages, Goto, To, durable, memory
<1>25. ASSUME NEW s \in SUBSET FactoryFiles, NEW newList \in BOOLEAN, Edit(s, newList)
       PROVE  EtcWhole'
  BY <1>25, <1>a, <1>b DEF Edit, durable, memory
<1>26. CASE WriteBack
  BY <1>26, <1>a, <1>b DEF WriteBack, durable, memory
<1>27. ASSUME NEW reset \in BOOLEAN, Reboot(reset) PROVE EtcWhole'
  <2>1. made' = 0 /\ stage' = "essential"
    BY <1>27 DEF Reboot, FreshMemory, Goto, To
  <2>2. CASE reset
    BY <1>27, <1>a, <2>1, <2>2 DEF Reboot
  <2>3. CASE ~reset
    <3>1. upper' = upper /\ hist'.cut = hist.cut /\ hist'.edited = hist.edited
      BY <1>27, <1>b, <2>3 DEF Reboot
    <3> QED
      BY <1>a, <2>1, <3>1
  <2> QED
    BY <2>2, <2>3
<1>28. ASSUME NEW lost \in SUBSET DataLinks, PowerLoss(lost) PROVE EtcWhole'
  <2>1. made' = 0 /\ stage' = "essential"
    BY <1>28 DEF PowerLoss, FreshMemory, To
  <2>2. CASE UNCHANGED upper
             /\ hist' = [hist EXCEPT !.stuck = {}, !.lost = hist.lost \cup lost]
    BY <1>a, <1>b, <2>1, <2>2
  <2>3. ASSUME NEW s \in SUBSET FactoryFiles, upper' = s,
               hist' = [hist EXCEPT !.stuck = {}, !.lost = hist.lost \cup lost,
                                    !.cut = s # {}]
        PROVE  EtcWhole'
    <3>1. CASE s = {}
      BY <2>1, <2>3, <3>1
    <3>2. CASE s # {}
      <4>1. hist'.cut
        BY <1>b, <2>3, <3>2
      <4> QED
        BY <4>1
    <3> QED
      BY <3>1, <3>2
  <2> QED
    BY <1>28, <2>2, <2>3 DEF PowerLoss
<1>29. CASE UNCHANGED vars
  BY <1>29, <1>a, <1>b DEF vars, durable, memory
<1> HIDE DEF EtcWhole, EtcMounted
<1> QED
  BY <1>1, <1>2, <1>3, <1>4, <1>5, <1>6, <1>7, <1>8, <1>9, <1>10, <1>11, <1>12, <1>13,
       <1>14, <1>15, <1>16, <1>17, <1>18, <1>19, <1>20, <1>21, <1>22, <1>23, <1>24,
       <1>25, <1>26, <1>27, <1>28, <1>29 DEF Next, MountsNext, ModulesNext, LinksNext,
       SwitchNext

-----------------------------------------------------------------------------
(***************************************************************************)
(* The list of links.                                                      *)
(***************************************************************************)

(***************************************************************************)
(* While the list is worked on the links before the current one are there. *)
(***************************************************************************)
LEMMA LinksStep ==
  ASSUME HandoverTypes, LinksSoFar, [Next]_vars
  PROVE  LinksSoFar'
<1> USE DEF LinksSoFar
<1>a. image' = image
  BY ImageFixed
<1>b. /\ pos \in Nat /\ links \in [Links -> LinkStates]
      /\ image.config # Failed => image.config \in Seq(Links)
      /\ image.list # Failed => image.list \in Seq(Links)
  BY ImageLinks DEF HandoverTypes
<1>1. CASE MountEssential
  <2>1. stage' # "list"
    BY <1>1 DEF MountEssential, To
  <2> QED
    BY <2>1
<1>2. CASE DetectRoot
  BY <1>2, <1>a DEF DetectRoot, Goto, To, durable, memory
<1>3. CASE MountCore
  BY <1>3, <1>a DEF MountCore, Goto, To, durable, memory
<1>4. CASE MountRemaining
  BY <1>4, <1>a DEF MountRemaining, Goto, To, durable, memory
<1>5. CASE SeedEtc
  BY <1>5, <1>a DEF SeedEtc, To, durable, memory
<1>6. CASE MountNext
  <2>1. stage' # "list"
    BY <1>6 DEF MountNext, To
  <2> QED
    BY <2>1
<1>7. ASSUME NEW s \in SUBSET FactoryFiles, SeedFails(s) PROVE LinksSoFar'
  BY <1>7, <1>a DEF SeedFails, To, durable, memory
<1>8. ASSUME NEW unread \in SUBSET ConfFiles, NEW loaded \in Loadable,
             NEW broken \in SUBSET (Modules \ Builtin), NEW ready \in BOOLEAN,
             PrepareModules(unread, loaded, broken, ready)
      PROVE  LinksSoFar'
  BY <1>8, <1>a DEF PrepareModules, Goto, To, durable, memory
<1>9. CASE LoadListed
  BY <1>9, <1>a DEF LoadListed, durable, memory
<1>10. CASE ModulesDone
  BY <1>10, <1>a DEF ModulesDone, Goto, To, durable, memory
<1>11. ASSUME NEW l \in Links, RemoveExisting(l) PROVE LinksSoFar'
  <2>1. /\ stage' = stage /\ list' = list /\ pos' = pos
        /\ links' = [links EXCEPT ![l] = "none"]
    BY <1>11 DEF RemoveExisting, memory
  <2>2. CASE stage = "list" /\ list /\ image.list # Failed
    <3>1. l = image.list[pos + 1] /\ pos < Len(image.list)
      BY <1>11, <2>2 DEF RemoveExisting, Linking, CurrentLinks
    <3>2. ASSUME NEW i \in 1 .. pos
          PROVE  links'[image.list[i]] = "right" \/ image.list[i] = image.list[pos + 1]
      <4>1. image.list[i] \in Links
        BY <1>b, <2>2, <3>1
      <4> QED
        BY <1>b, <2>1, <2>2, <3>1, <4>1
    <3> QED
      BY <1>a, <2>1, <2>2, <3>1, <3>2
  <2>3. CASE ~(stage = "list" /\ list /\ image.list # Failed)
    BY <1>a, <2>1, <2>3
  <2> QED
    BY <2>2, <2>3
<1>12. ASSUME NEW l \in Links, MakeLink(l) PROVE LinksSoFar'
  <2>1. /\ stage' = stage /\ list' = list /\ pos' = pos + 1
        /\ links' = [links EXCEPT ![l] = "right"]
    BY <1>12 DEF MakeLink
  <2>2. CASE stage = "list" /\ list /\ image.list # Failed
    <3>1. l = image.list[pos + 1] /\ pos < Len(image.list)
      BY <1>12, <2>2 DEF MakeLink, Linking, CurrentLinks
    <3>2. ASSUME NEW i \in 1 .. pos + 1 PROVE links'[image.list[i]] = "right"
      <4>1. image.list[i] \in Links
        BY <1>b, <2>2, <3>1
      <4>2. CASE image.list[i] = l
        BY <1>b, <2>1, <4>1, <4>2
      <4>3. CASE image.list[i] # l
        <5>1. i \in 1 .. pos
          BY <1>b, <3>1, <4>3
        <5> QED
          BY <1>b, <2>1, <2>2, <3>1, <4>1, <4>3, <5>1
      <4> QED
        BY <4>2, <4>3
    <3> QED
      BY <1>a, <2>1, <3>2
  <2>3. CASE ~(stage = "list" /\ list /\ image.list # Failed)
    BY <1>a, <2>1, <2>3
  <2> QED
    BY <2>2, <2>3
<1>13. CASE ConfigLinked
  <2>1. pos' = 0
    BY <1>13 DEF ConfigLinked
  <2> QED
    BY <2>1
<1>14. CASE NoLinkList
  BY <1>14, <1>a DEF NoLinkList, Goto, To, durable, memory
<1>15. CASE RemoveList
  BY <1>15, <1>a DEF RemoveList, Goto, To, durable, memory
<1>16. CASE WriteStatus
  BY <1>16, <1>a DEF WriteStatus, Goto, To, durable, memory
<1>17. ASSUME NEW opens \in BOOLEAN, PrepareSwitch(opens) PROVE LinksSoFar'
  BY <1>17, <1>a DEF PrepareSwitch, Goto, To, durable, memory
<1>18. CASE MoveMount
  <2>1. stage' # "list"
    BY <1>18 DEF MoveMount, To
  <2> QED
    BY <2>1
<1>19. CASE ChdirNewRoot
  BY <1>19, <1>a DEF ChdirNewRoot, Goto, To, durable, memory
<1>20. CASE MoveRoot
  BY <1>20, <1>a DEF MoveRoot, Goto, To, durable, memory
<1>21. CASE FreeInitramfs
  BY <1>21, <1>a DEF FreeInitramfs, Goto, To, durable, memory
<1>22. CASE ExecInit
  BY <1>22, <1>a DEF ExecInit, Goto, To, durable, memory
<1>23. ASSUME NEW stuck \in SUBSET Moved, SwitchFails(stuck) PROVE LinksSoFar'
  <2>1. stage' # "list"
    BY <1>23 DEF SwitchFails, To
  <2> QED
    BY <2>1
<1>24. ASSUME NEW from \in FailingStages, Fails(from) PROVE LinksSoFar'
  BY <1>24, <1>a DEF Fails, FailingStages, Goto, To, durable, memory
<1>25. ASSUME NEW s \in SUBSET FactoryFiles, NEW newList \in BOOLEAN, Edit(s, newList)
       PROVE  LinksSoFar'
  BY <1>25, <1>a DEF Edit, durable, memory
<1>26. CASE WriteBack
  BY <1>26, <1>a DEF WriteBack, durable, memory
<1>27. ASSUME NEW reset \in BOOLEAN, Reboot(reset) PROVE LinksSoFar'
  <2>1. stage' # "list"
    BY <1>27 DEF Reboot, Goto, To
  <2> QED
    BY <2>1
<1>28. ASSUME NEW lost \in SUBSET DataLinks, PowerLoss(lost) PROVE LinksSoFar'
  <2>1. stage' # "list"
    BY <1>28 DEF PowerLoss, To
  <2> QED
    BY <2>1
<1>29. CASE UNCHANGED vars
  BY <1>29, <1>a DEF vars, durable, memory
<1> HIDE DEF LinksSoFar
<1> QED
  BY <1>1, <1>2, <1>3, <1>4, <1>5, <1>6, <1>7, <1>8, <1>9, <1>10, <1>11, <1>12, <1>13,
       <1>14, <1>15, <1>16, <1>17, <1>18, <1>19, <1>20, <1>21, <1>22, <1>23, <1>24,
       <1>25, <1>26, <1>27, <1>28, <1>29 DEF Next, MountsNext, ModulesNext, LinksNext,
       SwitchNext

(***************************************************************************)
(* The list is removed when its links are there, and afterwards only a     *)
(* power loss, a factory reset or the config can take one of them away.    *)
(***************************************************************************)
LEMMA ConsumedStep ==
  ASSUME HandoverTypes, LinksSoFar, OnlyReadListGone, ListConsumedMeansLinked, [Next]_vars
  PROVE  (OnlyReadListGone /\ ListConsumedMeansLinked)'
<1> USE DEF OnlyReadListGone, ListConsumedMeansLinked
<1>a. image' = image /\ ConfigLinks' = ConfigLinks /\ HasList(image)' = HasList(image)
  BY ImageFixed DEF ConfigLinks, HasList
<1>b. /\ pos \in Nat /\ links \in [Links -> LinkStates]
      /\ image.config # Failed => image.config \in Seq(Links)
      /\ image.list # Failed => image.list \in Seq(Links)
  BY ImageLinks DEF HandoverTypes
<1>c. hist \in [cut : BOOLEAN, edited : BOOLEAN, stuck : SUBSET Essential,
                lost : SUBSET DataLinks]
  BY DEF HandoverTypes
<1>1. CASE MountEssential
  <2>1. list' = list /\ links' = links /\ hist'.lost = hist.lost
    BY <1>1, <1>c DEF MountEssential, To, durable, memory
  <2> QED
    BY <1>a, <2>1
<1>2. CASE DetectRoot
  <2>1. list' = list /\ links' = links /\ hist'.lost = hist.lost
    BY <1>2, <1>c DEF DetectRoot, Goto, To, durable, memory
  <2> QED
    BY <1>a, <2>1
<1>3. CASE MountCore
  <2>1. list' = list /\ links' = links /\ hist'.lost = hist.lost
    BY <1>3, <1>c DEF MountCore, Goto, To, durable, memory
  <2> QED
    BY <1>a, <2>1
<1>4. CASE MountRemaining
  <2>1. list' = list /\ links' = links /\ hist'.lost = hist.lost
    BY <1>4, <1>c DEF MountRemaining, Goto, To, durable, memory
  <2> QED
    BY <1>a, <2>1
<1>5. CASE SeedEtc
  <2>1. list' = list /\ links' = links /\ hist'.lost = hist.lost
    BY <1>5, <1>c DEF SeedEtc, To, durable, memory
  <2> QED
    BY <1>a, <2>1
<1>6. CASE MountNext
  <2>1. list' = list /\ links' = links /\ hist'.lost = hist.lost
    BY <1>6, <1>c DEF MountNext, To, durable, memory
  <2> QED
    BY <1>a, <2>1
<1>7. ASSUME NEW s \in SUBSET FactoryFiles, SeedFails(s)
      PROVE  (OnlyReadListGone /\ ListConsumedMeansLinked)'
  <2>1. list' = list /\ links' = links /\ hist'.lost = hist.lost
    BY <1>7, <1>c DEF SeedFails
  <2> QED
    BY <1>a, <2>1
<1>8. ASSUME NEW unread \in SUBSET ConfFiles, NEW loaded \in Loadable,
             NEW broken \in SUBSET (Modules \ Builtin), NEW ready \in BOOLEAN,
             PrepareModules(unread, loaded, broken, ready)
      PROVE  (OnlyReadListGone /\ ListConsumedMeansLinked)'
  <2>1. list' = list /\ links' = links /\ hist'.lost = hist.lost
    BY <1>8, <1>c DEF PrepareModules, Goto, To, durable, memory
  <2> QED
    BY <1>a, <2>1
<1>9. CASE LoadListed
  <2>1. list' = list /\ links' = links /\ hist'.lost = hist.lost
    BY <1>9, <1>c DEF LoadListed, durable, memory
  <2> QED
    BY <1>a, <2>1
<1>10. CASE ModulesDone
  <2>1. list' = list /\ links' = links /\ hist'.lost = hist.lost
    BY <1>10, <1>c DEF ModulesDone, Goto, To, durable, memory
  <2> QED
    BY <1>a, <2>1
<1>11. ASSUME NEW l \in Links, RemoveExisting(l)
       PROVE  (OnlyReadListGone /\ ListConsumedMeansLinked)'
  <2>1. /\ list' = list /\ hist' = hist
        /\ links' = [links EXCEPT ![l] = "none"]
    BY <1>11 DEF RemoveExisting
  <2>2. ~list => l \in ConfigLinks
    <3>1. ~list => stage = "config" /\ image.config # Failed /\ pos < Len(image.config)
                   /\ l = image.config[pos + 1]
      BY <1>11 DEF RemoveExisting, Linking, ListRead, CurrentLinks
    <3> QED
      BY <1>b, <3>1 DEF ConfigLinks, ToSet
  <2>3. ASSUME HasList(image), ~list
        PROVE  \A k \in ToSet(image.list) \ (hist.lost \cup ConfigLinks) : links'[k] = "right"
    <3>1. ASSUME NEW k \in ToSet(image.list) \ (hist.lost \cup ConfigLinks)
          PROVE  links'[k] = "right"
      <4>1. k \in Links
        BY <1>b, <2>3 DEF ToSet
      <4>2. k # l /\ links[k] = "right"
        BY <2>2, <2>3
      <4> QED
        BY <1>b, <2>1, <4>1, <4>2
    <3> QED
      BY <3>1
  <2> HIDE DEF ListConsumedMeansLinked
  <2>4. (HasList(image) /\ ~list => image.list # Failed)'
    BY <1>a, <2>1
  <2> USE DEF ListConsumedMeansLinked
  <2> QED
    BY <1>a, <2>1, <2>3, <2>4
<1>12. ASSUME NEW l \in Links, MakeLink(l)
       PROVE  (OnlyReadListGone /\ ListConsumedMeansLinked)'
  <2>1. /\ list' = list /\ links' = [links EXCEPT ![l] = "right"]
        /\ hist'.lost = hist.lost \ {l}
    BY <1>12, <1>c DEF MakeLink
  <2>2. ASSUME HasList(image), ~list,
               NEW k \in ToSet(image.list) \ (hist'.lost \cup ConfigLinks)
        PROVE  links'[k] = "right"
    <3>1. k \in Links
      BY <1>b, <2>2 DEF ToSet
    <3> QED
      BY <1>b, <2>1, <2>2, <3>1
  <2>3. (HasList(image) /\ ~list => image.list # Failed)'
    BY <1>a, <2>1
  <2> QED
    BY <1>a, <2>1, <2>2, <2>3
<1>13. CASE ConfigLinked
  <2>1. list' = list /\ links' = links /\ hist'.lost = hist.lost
    BY <1>13, <1>c DEF ConfigLinked, Goto, To, durable, memory
  <2> QED
    BY <1>a, <2>1
<1>14. CASE NoLinkList
  <2>1. list' = list /\ links' = links /\ hist'.lost = hist.lost
    BY <1>14, <1>c DEF NoLinkList, Goto, To, durable, memory
  <2> QED
    BY <1>a, <2>1
<1>15. CASE RemoveList
  <2>1. /\ image.list # Failed /\ pos = Len(image.list) /\ links' = links
        /\ stage = "list" /\ list
    BY <1>15 DEF RemoveList, Goto
  <2>2. ASSUME NEW l \in ToSet(image.list) PROVE links[l] = "right"
    <3>1. PICK i \in 1 .. pos : l = image.list[i]
      BY <1>b, <2>1 DEF ToSet
    <3> QED
      BY <1>b, <2>1, <3>1 DEF LinksSoFar
  <2> QED
    BY <1>a, <2>1, <2>2
<1>16. CASE WriteStatus
  <2>1. list' = list /\ links' = links /\ hist'.lost = hist.lost
    BY <1>16, <1>c DEF WriteStatus, Goto, To, durable, memory
  <2> QED
    BY <1>a, <2>1
<1>17. ASSUME NEW opens \in BOOLEAN, PrepareSwitch(opens)
       PROVE  (OnlyReadListGone /\ ListConsumedMeansLinked)'
  <2>1. list' = list /\ links' = links /\ hist'.lost = hist.lost
    BY <1>17, <1>c DEF PrepareSwitch, Goto, To, durable, memory
  <2> QED
    BY <1>a, <2>1
<1>18. CASE MoveMount
  <2>1. list' = list /\ links' = links /\ hist'.lost = hist.lost
    BY <1>18, <1>c DEF MoveMount, To, durable, memory
  <2> QED
    BY <1>a, <2>1
<1>19. CASE ChdirNewRoot
  <2>1. list' = list /\ links' = links /\ hist'.lost = hist.lost
    BY <1>19, <1>c DEF ChdirNewRoot, Goto, To, durable, memory
  <2> QED
    BY <1>a, <2>1
<1>20. CASE MoveRoot
  <2>1. list' = list /\ links' = links /\ hist'.lost = hist.lost
    BY <1>20, <1>c DEF MoveRoot, Goto, To, durable, memory
  <2> QED
    BY <1>a, <2>1
<1>21. CASE FreeInitramfs
  <2>1. list' = list /\ links' = links /\ hist'.lost = hist.lost
    BY <1>21, <1>c DEF FreeInitramfs, Goto, To, durable, memory
  <2> QED
    BY <1>a, <2>1
<1>22. CASE ExecInit
  <2>1. list' = list /\ links' = links /\ hist'.lost = hist.lost
    BY <1>22, <1>c DEF ExecInit, Goto, To, durable, memory
  <2> QED
    BY <1>a, <2>1
<1>23. ASSUME NEW stuck \in SUBSET Moved, SwitchFails(stuck)
       PROVE  (OnlyReadListGone /\ ListConsumedMeansLinked)'
  <2>1. list' = list /\ links' = links /\ hist'.lost = hist.lost
    BY <1>23, <1>c DEF SwitchFails, rollback_critical_mounts, durable
  <2> QED
    BY <1>a, <2>1
<1>24. ASSUME NEW from \in FailingStages, Fails(from)
       PROVE  (OnlyReadListGone /\ ListConsumedMeansLinked)'
  <2>1. list' = list /\ links' = links /\ hist'.lost = hist.lost
    BY <1>24, <1>c DEF Fails, FailingStages, Goto, To, durable, memory
  <2> QED
    BY <1>a, <2>1
<1>25. ASSUME NEW s \in SUBSET FactoryFiles, NEW newList \in BOOLEAN, Edit(s, newList)
       PROVE  (OnlyReadListGone /\ ListConsumedMeansLinked)'
  <2>1. /\ (list => list') /\ links' = links /\ hist'.lost = hist.lost
    BY <1>25, <1>c DEF Edit
  <2> QED
    BY <1>a, <2>1
<1>26. CASE WriteBack
  <2>1. list' = list /\ links' = links /\ hist'.lost = hist.lost
    BY <1>26, <1>c DEF WriteBack, durable, memory
  <2> QED
    BY <1>a, <2>1
<1>27. ASSUME NEW reset \in BOOLEAN, Reboot(reset)
       PROVE  (OnlyReadListGone /\ ListConsumedMeansLinked)'
  <2>1. CASE reset
    <3>1. list' = HasList(image)
      BY <1>27, <2>1 DEF Reboot
    <3> QED
      BY <1>a, <3>1
  <2>2. CASE ~reset
    <3>1. list' = list /\ links' = links /\ hist'.lost = hist.lost
      BY <1>27, <1>c, <2>2 DEF Reboot
    <3> QED
      BY <1>a, <3>1
  <2> QED
    BY <2>1, <2>2
<1>28. ASSUME NEW lost \in SUBSET DataLinks, PowerLoss(lost)
       PROVE  (OnlyReadListGone /\ ListConsumedMeansLinked)'
  <2>1. /\ list' = list /\ hist'.lost = hist.lost \cup lost
        /\ links' = [l \in Links |-> IF l \in lost THEN "none" ELSE links[l]]
    <3>1. CASE hist' = [hist EXCEPT !.stuck = {}, !.lost = hist.lost \cup lost]
      BY <1>28, <1>c, <3>1 DEF PowerLoss
    <3>2. ASSUME NEW s \in SUBSET FactoryFiles,
                 hist' = [hist EXCEPT !.stuck = {}, !.lost = hist.lost \cup lost,
                                      !.cut = s # {}]
          PROVE  hist'.lost = hist.lost \cup lost
      BY <1>c, <3>2
    <3> QED
      BY <1>28, <3>1, <3>2 DEF PowerLoss
  <2>2. ASSUME HasList(image), ~list,
               NEW k \in ToSet(image.list) \ (hist'.lost \cup ConfigLinks)
        PROVE  links'[k] = "right"
    <3>1. k \in Links
      BY <1>b, <2>2 DEF ToSet
    <3> QED
      BY <1>b, <2>1, <2>2, <3>1
  <2>3. (HasList(image) /\ ~list => image.list # Failed)'
    BY <1>a, <2>1
  <2> QED
    BY <1>a, <2>1, <2>2, <2>3
<1>29. CASE UNCHANGED vars
  BY <1>29, <1>a DEF vars, durable, memory
<1> HIDE DEF OnlyReadListGone, ListConsumedMeansLinked
<1> QED
  BY <1>1, <1>2, <1>3, <1>4, <1>5, <1>6, <1>7, <1>8, <1>9, <1>10, <1>11, <1>12, <1>13,
       <1>14, <1>15, <1>16, <1>17, <1>18, <1>19, <1>20, <1>21, <1>22, <1>23, <1>24,
       <1>25, <1>26, <1>27, <1>28, <1>29 DEF Next, MountsNext, ModulesNext, LinksNext,
       SwitchNext

-----------------------------------------------------------------------------
(***************************************************************************)
(* The early modules.                                                      *)
(***************************************************************************)

(***************************************************************************)
(* A boot starts without a session.                                        *)
(***************************************************************************)
LEMMA NoSessionSound ==
  NoSession \in Sessions /\ SessionSound(NoSession) /\ NoSession.ready
<1>1. NoSession \in Sessions /\ NoSession.ready
  BY DEF NoSession, Sessions
<1>2. /\ NoSession.todo = <<>> /\ NoSession.listed = {} /\ NoSession.failed = {}
      /\ NoSession.outcome = [m \in Modules |-> "new"]
  BY DEF NoSession
<1>3. ToSet(<<>>) = {}
  BY DEF ToSet
<1>4. Noted(NoSession) /\ Explained(NoSession) /\ Answered(NoSession)
  BY <1>2, <1>3 DEF Noted, Explained, Answered
<1> QED
  BY <1>1, <1>4 DEF SessionSound

(***************************************************************************)
(* Every step keeps the session sound: a boot begins with none, prepare    *)
(* starts one, and load_listed answers one module after the other.         *)
(***************************************************************************)
LEMMA ModulesStep ==
  ASSUME ModulesSound, [Next]_vars
  PROVE  ModulesSound'
<1>a. ASSUME mods' = mods PROVE ModulesSound'
  BY <1>a DEF ModulesSound
<1>b. ASSUME mods' = NoSession PROVE ModulesSound'
  BY <1>b, NoSessionSound DEF ModulesSound
<1>1. CASE MountEssential
  BY <1>1, <1>a DEF MountEssential, To, durable, memory
<1>2. CASE DetectRoot
  BY <1>2, <1>a DEF DetectRoot, Goto, To, durable, memory
<1>3. CASE MountCore
  BY <1>3, <1>a DEF MountCore, Goto, To, durable, memory
<1>4. CASE MountRemaining
  BY <1>4, <1>b DEF MountRemaining, Goto, To, durable, memory
<1>5. CASE SeedEtc
  BY <1>5, <1>a DEF SeedEtc, To, durable, memory
<1>6. CASE MountNext
  BY <1>6, <1>a DEF MountNext, To, durable, memory
<1>7. ASSUME NEW s \in SUBSET FactoryFiles, SeedFails(s) PROVE ModulesSound'
  BY <1>7, <1>a DEF SeedFails, To, durable, memory
<1>8. ASSUME NEW unread \in SUBSET ConfFiles, NEW loaded \in Loadable,
             NEW broken \in SUBSET (Modules \ Builtin), NEW ready \in BOOLEAN,
             PrepareModules(unread, loaded, broken, ready)
      PROVE  ModulesSound'
  <2>1. loaded \in SUBSET Modules /\ broken \in SUBSET Modules
    BY DEF Loadable
  <2>2. mods' = Session(unread, loaded, broken, ready)
    BY <1>8 DEF PrepareModules
  <2> QED
    BY <2>1, <2>2, SessionStarts DEF ModulesSound
<1>9. CASE LoadListed
  <2>1. /\ mods.todo # <<>>
        /\ mods' = [load_listed(mods, Head(mods.todo)) EXCEPT !.todo = Tail(@)]
    BY <1>9 DEF LoadListed
  <2>2. mods \in Sessions /\ mods.ready /\ SessionSound(mods)
    BY <2>1 DEF ModulesSound
  <2> QED
    BY <2>1, <2>2, ListedAnswered DEF ModulesSound
<1>10. CASE ModulesDone
  BY <1>10, <1>a DEF ModulesDone, Goto, To, durable, memory
<1>11. ASSUME NEW l \in Links, RemoveExisting(l) PROVE ModulesSound'
  BY <1>11, <1>a DEF RemoveExisting, Linking, ListRead, durable, memory
<1>12. ASSUME NEW l \in Links, MakeLink(l) PROVE ModulesSound'
  BY <1>12, <1>a DEF MakeLink, Linking, ListRead, durable, memory
<1>13. CASE ConfigLinked
  BY <1>13, <1>a DEF ConfigLinked, Goto, To, durable, memory
<1>14. CASE NoLinkList
  BY <1>14, <1>a DEF NoLinkList, Goto, To, durable, memory
<1>15. CASE RemoveList
  BY <1>15, <1>a DEF RemoveList, Goto, To, durable, memory
<1>16. CASE WriteStatus
  BY <1>16, <1>a DEF WriteStatus, Goto, To, durable, memory
<1>17. ASSUME NEW opens \in BOOLEAN, PrepareSwitch(opens) PROVE ModulesSound'
  BY <1>17, <1>a DEF PrepareSwitch, Goto, To, durable, memory
<1>18. CASE MoveMount
  BY <1>18, <1>a DEF MoveMount, To, durable, memory
<1>19. CASE ChdirNewRoot
  BY <1>19, <1>a DEF ChdirNewRoot, Goto, To, durable, memory
<1>20. CASE MoveRoot
  BY <1>20, <1>a DEF MoveRoot, Goto, To, durable, memory
<1>21. CASE FreeInitramfs
  BY <1>21, <1>a DEF FreeInitramfs, Goto, To, durable, memory
<1>22. CASE ExecInit
  BY <1>22, <1>a DEF ExecInit, Goto, To, durable, memory
<1>23. ASSUME NEW stuck \in SUBSET Moved, SwitchFails(stuck) PROVE ModulesSound'
  BY <1>23, <1>a DEF SwitchFails, rollback_critical_mounts, To, durable, memory
<1>24. ASSUME NEW from \in FailingStages, Fails(from) PROVE ModulesSound'
  BY <1>24, <1>a DEF Fails, FailingStages, Goto, To, durable, memory
<1>25. ASSUME NEW s \in SUBSET FactoryFiles, NEW newList \in BOOLEAN, Edit(s, newList)
       PROVE  ModulesSound'
  BY <1>25, <1>a DEF Edit, durable, memory
<1>26. CASE WriteBack
  BY <1>26, <1>a DEF WriteBack, durable, memory
<1>27. ASSUME NEW reset \in BOOLEAN, Reboot(reset) PROVE ModulesSound'
  BY <1>27, <1>b DEF Reboot, FreshMemory, Goto, To, durable, memory
<1>28. ASSUME NEW lost \in SUBSET DataLinks, PowerLoss(lost) PROVE ModulesSound'
  BY <1>28, <1>b DEF PowerLoss, FreshMemory, To, durable, memory
<1>29. CASE UNCHANGED vars
  BY <1>29, <1>a DEF vars, durable, memory
<1> QED
  BY <1>1, <1>2, <1>3, <1>4, <1>5, <1>6, <1>7, <1>8, <1>9, <1>10, <1>11, <1>12, <1>13,
       <1>14, <1>15, <1>16, <1>17, <1>18, <1>19, <1>20, <1>21, <1>22, <1>23, <1>24,
       <1>25, <1>26, <1>27, <1>28, <1>29 DEF Next, MountsNext, ModulesNext, LinksNext,
       SwitchNext

-----------------------------------------------------------------------------
(***************************************************************************)
(* The theorems.                                                           *)
(***************************************************************************)

(***************************************************************************)
(* The first boot of an image satisfies the invariant.                     *)
(***************************************************************************)
LEMMA InvariantStarts == Init => IInv
<1> SUFFICES ASSUME Init PROVE IInv
  OBVIOUS
<1>1. HandoverTypes
  BY ImageLinks DEF Init, HandoverTypes, NoHist, HasList, Stages, FailingStages
<1>2. DevicesFound /\ EtcWhole /\ LinksSoFar /\ OnlyReadListGone
  BY DEF Init, DevicesFound, RightDevices, EtcWhole, EtcMounted, LinksSoFar,
       OnlyReadListGone
<1>3. ListConsumedMeansLinked
  BY DEF Init, ListConsumedMeansLinked
<1>4. MountsInPlace
  BY DEF Init, MountsInPlace, ShellKeepsMounts, Moved, RootfsStages, SwitchStages
<1>5. MountsCounted
  BY EtcIsSecond DEF Init, MountsCounted
<1>6. ModulesSound
  BY NoSessionSound DEF Init, ModulesSound
<1> QED
  BY <1>1, <1>2, <1>3, <1>4, <1>5, <1>6 DEF IInv

(***************************************************************************)
(* Every step keeps the invariant.                                         *)
(***************************************************************************)
LEMMA InvariantKept == IInv /\ [Next]_vars => IInv'
<1> SUFFICES ASSUME IInv, [Next]_vars PROVE IInv'
  OBVIOUS
<1>1. /\ HandoverTypes /\ DevicesFound /\ MountsInPlace /\ MountsCounted /\ EtcWhole
      /\ LinksSoFar /\ OnlyReadListGone /\ ListConsumedMeansLinked /\ ModulesSound
  BY DEF IInv
<1>2. image \in Images /\ made \in Nat
  BY <1>1 DEF HandoverTypes
<1>3. HandoverTypes' /\ DevicesFound'
  BY <1>1, <1>2, TypeStep, DevicesStep
<1>4. MountsInPlace' /\ MountsCounted' /\ EtcWhole'
  BY <1>1, <1>2, MountsStep, CountStep, EtcStep
<1>5. LinksSoFar' /\ OnlyReadListGone' /\ ListConsumedMeansLinked'
  BY <1>1, LinksStep, ConsumedStep
<1>6. ModulesSound'
  BY <1>1, ModulesStep
<1> QED
  BY <1>3, <1>4, <1>5, <1>6 DEF IInv

(***************************************************************************)
(* The invariant holds in every state of every sequence of boots.          *)
(***************************************************************************)
THEOREM InvariantHolds == Spec => []IInv
<1> QED
  BY InvariantStarts, InvariantKept, PTL DEF Spec

(***************************************************************************)
(* Every variable has its type, the session of the early modules and the   *)
(* count of the mounts included, and /dev/omnect is right whenever the     *)
(* root device is known.                                                   *)
(***************************************************************************)
THEOREM TypeCorrect == Spec => []TypeOK
<1>1. IInv => TypeOK
  <2> SUFFICES ASSUME IInv PROVE TypeOK
    OBVIOUS
  <2>1. /\ HandoverTypes /\ RightDevices /\ (dev = Failed <=> devlinks = Failed)
        /\ mods \in Sessions /\ made <= Len(BootMounts)
    BY DEF IInv, DevicesFound, MountsCounted, ModulesSound
  <2>2. /\ \A f \in {"listed", "present", "failed", "broken"} : mods[f] \subseteq Modules
        /\ mods.outcome \in [Modules -> {"new", "ok", "bad"}]
    BY <2>1 DEF Sessions
  <2>3. made \in 0 .. Len(BootMounts)
    <3>1. Len(BootMounts) \in Nat
      BY EtcIsSecond
    <3> QED
      BY <2>1, <3>1 DEF HandoverTypes
  <2>4. /\ hist.cut \in BOOLEAN /\ hist.edited \in BOOLEAN
        /\ hist.stuck \subseteq Essential /\ hist.lost \subseteq DataLinks
    BY <2>1 DEF HandoverTypes
  <2> QED
    BY <2>1, <2>2, <2>3, <2>4 DEF HandoverTypes, TypeOK
<1> QED
  BY <1>1, InvariantHolds, PTL

(***************************************************************************)
(* /dev/omnect is empty or names the disk the bootloader started from, its *)
(* partitions and the slot that was asked for, for every disk name, table  *)
(* and command line (detect_root_device, build_partition_map,              *)
(* create_omnect_symlinks).                                                *)
(***************************************************************************)
THEOREM DevicesRight == Spec => []RightDevices
<1>1. IInv => RightDevices
  BY DEF IInv, DevicesFound
<1> QED
  BY <1>1, InvariantHolds, PTL

(***************************************************************************)
(* Wherever switch_root fails before the new root becomes /, the shell of  *)
(* the initramfs has the essential mounts, except for those that could not *)
(* be moved back.                                                          *)
(***************************************************************************)
THEOREM ShellHasItsMounts == Spec => []ShellKeepsMounts
<1>1. IInv => ShellKeepsMounts
  BY DEF IInv, MountsInPlace
<1> QED
  BY <1>1, InvariantHolds, PTL

(***************************************************************************)
(* Below a mounted overlay of /etc are the factory defaults, unless a copy *)
(* was cut off or the running system changed them (setup_etc_overlay).     *)
(***************************************************************************)
THEOREM EtcHasItsDefaults == Spec => []EtcSeeded
<1>1. IInv => EtcSeeded
  BY DEF IInv, EtcWhole, EtcSeeded
<1> QED
  BY <1>1, InvariantHolds, PTL

(***************************************************************************)
(* A list of links that is gone has its links made, however often the      *)
(* boots that worked on it failed or lost power, except for those lost     *)
(* with the power and those the config makes anew (create_fs_links).       *)
(***************************************************************************)
THEOREM ListedLinksMade == Spec => []ListConsumedMeansLinked
<1>1. IInv => ListConsumedMeansLinked
  BY DEF IInv
<1> QED
  BY <1>1, InvariantHolds, PTL

(***************************************************************************)
(* When every listed module had its turn, those reported as not loaded are *)
(* exactly those that are not there, and each has a reason: it or a module *)
(* it needs cannot be loaded, or modules.dep names a path that is not the  *)
(* one of a module.  A module that failed only because its dependencies    *)
(* came up in the wrong order would have none (load_listed, load_one).     *)
(***************************************************************************)
THEOREM ModulesTold == Spec => []ModulesReported
<1>1. IInv => ModulesReported
  <2> SUFFICES ASSUME IInv, mods.todo = <<>>, mods.ready
               PROVE  /\ mods.failed = {m \in mods.listed : ~is_present(mods, m)}
                      /\ \A m \in mods.failed \cap DOMAIN ModDep :
                           \/ Closure(m) \cap mods.broken # {}
                           \/ NoName \in ToSet(ModDep[m])
    BY DEF ModulesReported
  <2>1. mods \in Sessions /\ Noted(mods) /\ Explained(mods) /\ Answered(mods)
    BY DEF IInv, ModulesSound, SessionSound
  <2>2. ToSet(<<>>) = {}
    BY DEF ToSet
  <2>3. mods.failed = {m \in mods.listed : ~is_present(mods, m)}
    BY <2>1, <2>2 DEF Explained, Answered
  <2>4. ASSUME NEW m \in mods.failed \cap DOMAIN ModDep
        PROVE  Closure(m) \cap mods.broken # {} \/ NoName \in ToSet(ModDep[m])
    <3>1. m \in Modules /\ \A n \in ToSet(ModDep[m]) : n \in Modules \cup {NoName}
      BY EarlyModulesAssumption DEF ToSet
    <3>2. \/ mods.outcome[m] = "bad"
          \/ \E n \in ToSet(ModDep[m]) : n = NoName \/ mods.outcome[n] = "bad"
      BY <2>1 DEF Explained, Hopeless
    <3>3. ASSUME NEW n \in Modules, mods.outcome[n] = "bad" PROVE n \in mods.broken
      BY <2>1, <3>3 DEF Noted
    <3> QED
      BY <3>1, <3>2, <3>3 DEF Closure
  <2> QED
    BY <2>3, <2>4
<1> QED
  BY <1>1, InvariantHolds, PTL

=============================================================================
