--------------------------- MODULE MCRootHandover ---------------------------
(***************************************************************************)
(* A GRUB image with GPT on a disk whose name ends in "p", a U-Boot image  *)
(* with a DOS table on one whose name ends in a digit, and images that are *)
(* wrong in one respect each.                                              *)
(***************************************************************************)
EXTENDS RootHandover

Sdp == <<"s", "d", "p">>
Mmc == <<"m", "m", "c", "b", "l", "k", "1">>
Nvme == <<"n", "v", "m", "e", "0", "n", "1">>

Grub(n, uuid) == [rootpart |-> n, fsuuid |-> uuid, root |-> Failed]
Uboot(path) == [rootpart |-> Failed, fsuuid |-> "none", root |-> path]

MCLinks == {"conf", "etc1", "data1"}
MCDataLinks == {"data1"}

GrubImage ==
  [grub |-> TRUE, gpt |-> TRUE, disk |-> Sdp, cmdline |-> Grub(2, "set"),
   config |-> <<"conf">>, list |-> <<"etc1", "data1">>, escapes |-> {},
   links |-> [l \in MCLinks |-> IF l = "etc1" THEN "other" ELSE "none"],
   init |-> TRUE, factory |-> TRUE, ramfs |-> TRUE, varlog |-> FALSE]

UbootImage ==
  [GrubImage EXCEPT !.grub = FALSE, !.gpt = FALSE, !.disk = Mmc,
     !.cmdline = Uboot(Mmc \o <<"p", "3">>), !.list = <<>>, !.varlog = TRUE,
     !.factory = FALSE, !.ramfs = FALSE]

\* The command line, the slot, the configuration, the list, a link that is in both, a
\* path, a directory in the way and the init.
MCImages ==
  {GrubImage, UbootImage,
   [GrubImage EXCEPT !.cmdline = Grub(Failed, "set"), !.disk = Nvme],
   [GrubImage EXCEPT !.cmdline = Grub(3, "empty")],
   [GrubImage EXCEPT !.cmdline = Grub(4, "set"), !.disk = Nvme],
   [UbootImage EXCEPT !.cmdline = Uboot(Failed)],
   [UbootImage EXCEPT !.cmdline = Uboot(Mmc \o <<"p">>)],
   [GrubImage EXCEPT !.config = Failed],
   [GrubImage EXCEPT !.cmdline = Grub(3, "set"), !.disk = Nvme, !.list = <<"data1", "etc1">>],
   [GrubImage EXCEPT !.list = Failed],
   [GrubImage EXCEPT !.config = <<"conf", "etc1">>],
   [GrubImage EXCEPT !.escapes = {"data1"}],
   [GrubImage EXCEPT !.links["data1"] = "dir"],
   [UbootImage EXCEPT !.init = FALSE]}

MCModules == {"phy", "mac", "usb", "can", "crc"}

\* mac needs usb, usb needs phy; mac is listed before usb and a second time.  can has
\* a dependency without a name, and crc is built in.
Line(f, m) == [file |-> f, name |-> m]
MCConfLines ==
  <<Line("a", "can"), Line("a", "mac"), Line("b", "crc"), Line("b", "usb"), Line("b", "mac")>>
MCModDep == [mac |-> <<"usb", "phy">>, usb |-> <<"phy">>, can |-> <<"noname">>]
MCNeeds == [m \in MCModules |->
              IF m = "mac" THEN {"usb", "phy"} ELSE IF m = "usb" THEN {"phy"} ELSE {}]
MCBuiltin == {"crc"}
=============================================================================
