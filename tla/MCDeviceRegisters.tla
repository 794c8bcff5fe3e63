------------------------- MODULE MCDeviceRegisters -------------------------
EXTENDS DeviceRegisters

(* Both sides of every test: the offsets 0, 3, 4 and 7; line lengths that  *)
(* wrap at 0x1000; an odd address; 0, 15, 48 and 63 lines, with the bits   *)
(* above.                                                                  *)
SomeStores ==
  ({\h100} \X {0, 3, 12, 15}) \cup ({\h101} \X {0, 9}) \cup ({\h102} \X {0, 3})
  \cup ({\h10c} \X {5}) \cup {<<\h120, 1>>, <<\h121, 15>>}
  \cup ({\h125} \X {0, 14}) \cup ({\h127, \h126} \X {15})
  \cup ({\h128} \X {0, 15}) \cup ({\h129} \X {0, 3, 12}) \cup {<<\h131, 1>>, <<\h11f, 1>>}

(* One bit each, none and all: with these the CRC takes every value.       *)
SomeNibbles == {{i} : i \in 0 .. 3} \cup {{}, 0 .. 3}

AllLines == 0 .. 63
=============================================================================
