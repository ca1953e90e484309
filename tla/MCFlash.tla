------------------------------ MODULE MCFlash ------------------------------
(***************************************************************************)
(* A disk of four bytes with a head of three, two builds (GRUB with GPT    *)
(* and the verify pass, U-Boot with DOS and direct flashing), bmaps and    *)
(* images that are right or wrong in one respect each.                     *)
(***************************************************************************)
EXTENDS Flash

NoConstants ==
  [data_size |-> 1, bootloader_start |-> None, env1 |-> None, env2 |-> None,
   env_size |-> None]

MCBuilds ==
  {[grub |-> TRUE, gpt |-> TRUE, direct |-> FALSE, raw |-> NoConstants],
   [grub |-> FALSE, gpt |-> FALSE, direct |-> TRUE,
    raw |-> [data_size |-> 1, bootloader_start |-> 1, env1 |-> 2, env2 |-> 3,
             env_size |-> 1]]}

\* Machines with a constant that is missing, out of order or out of range: mode 1
\* refuses to start.
MCBadBuilds ==
  {[grub |-> FALSE, gpt |-> FALSE, direct |-> TRUE,
    raw |-> [data_size |-> 1, bootloader_start |-> 3, env1 |-> 2, env2 |-> None,
             env_size |-> 1]],
   [grub |-> FALSE, gpt |-> FALSE, direct |-> TRUE, raw |-> NoConstants],
   [grub |-> TRUE, gpt |-> TRUE, direct |-> TRUE, raw |-> [NoConstants EXCEPT !.data_size = None]],
   [grub |-> FALSE, gpt |-> FALSE, direct |-> TRUE,
    raw |-> [data_size |-> 1, bootloader_start |-> 1, env1 |-> 2, env2 |-> 3,
             env_size |-> MaxU]]}

ASSUME ConstantsAssumption ==
  /\ \A b \in MCBuilds : required_constants(b)
  /\ \A b \in MCBadBuilds : ~required_constants(b)

GoodDump ==
  [unit |-> "sectors", sector |-> 512, data_start |-> 5, ext_start |-> 2, ext_size |-> 9,
   last |-> 12]

\* Large sectors, no data partition, an extended container behind the data.
MCDumps ==
  {GoodDump, [GoodDump EXCEPT !.sector = 4096], [GoodDump EXCEPT !.data_start = None],
   [GoodDump EXCEPT !.ext_start = 6, !.last = None]}

\* Three bytes in blocks of two; the second block, which is cut off, is mapped.
GoodBmap ==
  [sound |-> TRUE, size |-> 3, bs |-> 2, blocks |-> 2, mapped |-> 1,
   spans |-> << <<1, 1>> >>]

\* Two blocks of one byte, both ranges of their own.
SplitBmap ==
  [sound |-> TRUE, size |-> 2, bs |-> 1, blocks |-> 2, mapped |-> 2,
   spans |-> << <<0, 0>>, <<1, 1>> >>]

MCRawBmaps ==
  {GoodBmap, SplitBmap,
   [GoodBmap EXCEPT !.sound = FALSE],
   [GoodBmap EXCEPT !.bs = 0],
   [GoodBmap EXCEPT !.blocks = 1],
   [GoodBmap EXCEPT !.mapped = 2],
   [GoodBmap EXCEPT !.spans = <<>>, !.mapped = 0],
   [SplitBmap EXCEPT !.spans = << <<1, 1>>, <<0, 0>> >>],
   [SplitBmap EXCEPT !.spans = << <<0, 1>>, <<1, 1>> >>, !.mapped = 3],
   [GoodBmap EXCEPT !.spans = << <<1, 0>> >>, !.mapped = 0],
   [GoodBmap EXCEPT !.spans = << <<0, 2>> >>, !.mapped = 3],
   [GoodBmap EXCEPT !.spans = << <<MaxU, MaxU>> >>],
   [GoodBmap EXCEPT !.size = 5, !.blocks = 3]}

\* Cut off, too long, and wrong in a range or between the ranges.
MCUploads ==
  {[len |-> 1, flip |-> None], [len |-> 4, flip |-> None],
   [len |-> 3, flip |-> 2], [len |-> 3, flip |-> 0], [len |-> 2, flip |-> 1]}

GoodImage == [match |-> TRUE, packed |-> 2, size |-> 3, len |-> 3]

MCImages ==
  {GoodImage, [GoodImage EXCEPT !.match = FALSE], [GoodImage EXCEPT !.size = None],
   [GoodImage EXCEPT !.size = 0], [GoodImage EXCEPT !.size = 5, !.len = 5],
   [GoodImage EXCEPT !.len = 2], [GoodImage EXCEPT !.len = 4],
   [GoodImage EXCEPT !.packed = 3]}
=============================================================================
