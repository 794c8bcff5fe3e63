-------------------------------- MODULE Mmu --------------------------------
(***************************************************************************)
(* The memory controllers of the HP48 S/SX and G/GX: the daisy chain that  *)
(* RESET, CONFIG, UNCNFG and C=ID work on (actions.c), the address         *)
(* decoding that every read and write of a nibble does with them           *)
(* (memory.c) and the bank switch of the second port.                      *)
(*                                                                         *)
(* Decoding is a table of windows in the order the code tries them.  What  *)
(* a cell holds, the CRC and the device registers (modules Serial and      *)
(* Scheduler) are left out: an access is the cell it goes to.              *)
(***************************************************************************)
EXTENDS Integers, Sequences

CONSTANTS
  Confs,  \* Confs[gx][i]: what the program configures controller i with
  Addrs   \* addresses it reads and writes

Chain == 0 .. 5
LastAddress == \hfffff
Space == 0 .. LastAddress

ASSUME MmuAssumption == /\ Confs \in [BOOLEAN -> [Chain -> SUBSET Space]]
                        /\ Addrs \subseteq Space

VARIABLES
  opt_gx,       \* the ROM is that of a G or GX
  mem_cntl,     \* saturn.mem_cntl[0 .. 5]
  bank_switch,  \* saturn.bank_switch
  alive,        \* the emulator has not read through a null pointer
  given         \* history: what each controller was given since it was reset

vars == <<opt_gx, mem_cntl, bank_switch, alive, given>>

(* The numbers of the controllers (mmu.h).                                 *)
MMIO   == 0
SysRAM == 1
BANK   == 2                            \* on a GX only
PORT1  == IF opt_gx THEN 3 ELSE 2
PORT2  == IF opt_gx THEN 4 ELSE 3

(* conf_tab_sx and conf_tab_gx: how many CONFIGs a controller waits for,   *)
(* its size first (config[1], here config[2]), then its address.           *)
conf_tab == [i \in Chain |-> IF i = MMIO THEN 1 ELSE IF i = 5 THEN 0 ELSE 2]

Unconfigured(i) == [unconfigured |-> conf_tab[i], config |-> <<0, 0>>]

Address(i) == mem_cntl[i].config[1]
Size(i)    == mem_cntl[i].config[2]

(* init_saturn; or, after a start from an existing ROM, all zero.          *)
Init ==
  /\ opt_gx \in BOOLEAN
  /\ mem_cntl \in { [i \in Chain |-> Unconfigured(i)],
                    [i \in Chain |-> [unconfigured |-> 0, config |-> <<0, 0>>]] }
  /\ bank_switch = 0
  /\ alive = TRUE
  /\ given = [i \in Chain |-> <<>>]

-----------------------------------------------------------------------------
Waiting == {i \in Chain : mem_cntl[i].unconfigured > 0}

FirstOf(S) == CHOOSE i \in S : \A j \in S : i <= j

(* RESET (do_reset).                                                       *)
Reset ==
  /\ alive
  /\ mem_cntl' = [i \in Chain |-> Unconfigured(i)]
  /\ given' = [i \in Chain |-> <<>>]
  /\ UNCHANGED <<opt_gx, bank_switch, alive>>

(* CONFIG (do_configure): the first controller that still waits takes what *)
(* is in C.  Mutant: it takes the address before the size.                 *)
Slot(i)          == mem_cntl[i].unconfigured
SlotBackwards(i) == conf_tab[i] - mem_cntl[i].unconfigured + 1

ConfigureBackwards(i, conf) ==
  /\ alive
  /\ i \in Waiting /\ \A j \in Waiting : i <= j
  /\ mem_cntl' = [mem_cntl EXCEPT ![i].unconfigured = @ - 1,
                                  ![i].config[SlotBackwards(i)] = conf]
  /\ given' = [given EXCEPT ![i] = Append(@, conf)]
  /\ UNCHANGED <<opt_gx, bank_switch, alive>>

Configure(i, conf) ==
  /\ alive
  /\ i \in Waiting /\ \A j \in Waiting : i <= j
  /\ mem_cntl' = [mem_cntl EXCEPT ![i].unconfigured = @ - 1,
                                  ![i].config[Slot(i)] = conf]
  /\ given' = [given EXCEPT ![i] = Append(@, conf)]
  /\ UNCHANGED <<opt_gx, bank_switch, alive>>

(* UNCNFG (do_unconfigure): the first controller whose address is the one  *)
(* in C starts again; one that waits for its address has address 0.        *)
(* Any other C does nothing.  Mutant: it keeps what it was configured with.*)
UnconfigureKeeps(i) ==
  /\ alive
  /\ \A j \in Chain : j < i => Address(j) # Address(i)
  /\ mem_cntl' = [mem_cntl EXCEPT ![i].unconfigured = conf_tab[i]]
  /\ given' = [given EXCEPT ![i] = <<>>]
  /\ UNCHANGED <<opt_gx, bank_switch, alive>>

Unconfigure(i) ==
  /\ alive
  /\ \A j \in Chain : j < i => Address(j) # Address(i)
  /\ mem_cntl' = [mem_cntl EXCEPT ![i] = Unconfigured(i)]
  /\ given' = [given EXCEPT ![i] = <<>>]
  /\ UNCHANGED <<opt_gx, bank_switch, alive>>

(* C=ID (get_identification): which controller waits, and for what.        *)
chip_id == << <<0, 0>>, <<0, 0>>, <<5, \hf6>>, <<7, \hf8>>, <<1, \hf2>>, <<0, 0>> >>

Identification ==
  IF Waiting = {} THEN 0
  ELSE LET i == FirstOf(Waiting) IN chip_id[i + 1][3 - mem_cntl[i].unconfigured]

-----------------------------------------------------------------------------
(* A window: controller ctl, at address at and of a size in sizes, serves  *)
(* the addresses from lo to hi with cells of a kind.                       *)
Window(ctl, at, sizes, lo, hi, kind) ==
  [ctl |-> ctl, at |-> at, sizes |-> sizes, lo |-> lo, hi |-> hi, kind |-> kind]

AnySize == Space

(* Mutant: the address after the last one is served too.                   *)
ServesOneMore(w, a) ==
  /\ a \in w.lo .. w.hi + 1
  /\ Address(w.ctl) = w.at
  /\ Size(w.ctl) \in w.sizes

Serves(w, a) ==
  /\ a \in w.lo .. w.hi
  /\ Address(w.ctl) = w.at
  /\ Size(w.ctl) \in w.sizes

(* The code decodes addresses in six copies.  Each has a table of its own, *)
(* with the windows in the order that copy tries them.                     *)
WriteNibbleSX ==
  << Window(MMIO, \h100, AnySize, \h100, \h13f, "dev"),
     Window(SysRAM, \h70000, {\hfc000}, \h70000, \h73fff, "ram"),
     Window(SysRAM, \h70000, {\hfe000}, \h70000, \h71fff, "ram"),
     Window(SysRAM, \h70000, {\hf0000}, \h70000, \h7ffff, "ram"),
     Window(PORT1, \h80000, AnySize, \h80000, \hbffff, "port"),
     Window(PORT2, \h80000, AnySize, \h80000, \hbffff, "port"),
     Window(SysRAM, \hf0000, AnySize, \hf0000, \hfffff, "ram"),
     Window(PORT1, \hc0000, AnySize, \hc0000, \hfffff, "port"),
     Window(PORT2, \hc0000, AnySize, \hc0000, \hfffff, "port") >>

ReadNibbleSX ==
  << Window(MMIO, \h100, AnySize, \h100, \h13f, "dev"),
     Window(SysRAM, \h70000, {\hfc000}, \h70000, \h73fff, "ram"),
     Window(SysRAM, \h70000, {\hfe000}, \h70000, \h71fff, "ram"),
     Window(SysRAM, \h70000, {\hf0000}, \h70000, \h7ffff, "ram"),
     Window(PORT1, \h80000, AnySize, \h80000, \hbffff, "port"),
     Window(PORT2, \h80000, AnySize, \h80000, \hbffff, "port"),
     Window(SysRAM, \hf0000, AnySize, \hf0000, \hfffff, "ram"),
     Window(PORT1, \hc0000, AnySize, \hc0000, \hfffff, "port"),
     Window(PORT2, \hc0000, AnySize, \hc0000, \hfffff, "port") >>

(* Mutant: this copy takes an address of 72000 for RAM of size fe000.      *)
ReadNibbleCrcSXOneMore ==
  << Window(MMIO, \h100, AnySize, \h100, \h13f, "dev"),
     Window(SysRAM, \h70000, {\hfc000}, \h70000, \h73fff, "ram"),
     Window(SysRAM, \h70000, {\hfe000}, \h70000, \h72000, "ram"),
     Window(SysRAM, \h70000, {\hf0000}, \h70000, \h7ffff, "ram"),
     Window(PORT1, \h80000, AnySize, \h80000, \hbffff, "port"),
     Window(PORT2, \h80000, AnySize, \h80000, \hbffff, "port"),
     Window(SysRAM, \hf0000, AnySize, \hf0000, \hfffff, "ram"),
     Window(PORT1, \hc0000, AnySize, \hc0000, \hfffff, "port"),
     Window(PORT2, \hc0000, AnySize, \hc0000, \hfffff, "port") >>

ReadNibbleCrcSX ==
  << Window(MMIO, \h100, AnySize, \h100, \h13f, "dev"),
     Window(SysRAM, \h70000, {\hfc000}, \h70000, \h73fff, "ram"),
     Window(SysRAM, \h70000, {\hfe000}, \h70000, \h71fff, "ram"),
     Window(SysRAM, \h70000, {\hf0000}, \h70000, \h7ffff, "ram"),
     Window(PORT1, \h80000, AnySize, \h80000, \hbffff, "port"),
     Window(PORT2, \h80000, AnySize, \h80000, \hbffff, "port"),
     Window(SysRAM, \hf0000, AnySize, \hf0000, \hfffff, "ram"),
     Window(PORT1, \hc0000, AnySize, \hc0000, \hfffff, "port"),
     Window(PORT2, \hc0000, AnySize, \hc0000, \hfffff, "port") >>

(* Writes know the bank switch at 90000 by the BANK controller, reads by   *)
(* controller 0, the MMIO one.                                             *)
WriteNibbleGX ==
  << Window(MMIO, \h100, AnySize, \h100, \h13f, "dev"),
     Window(SysRAM, \h40000, AnySize, \h40000, \h4ffff, "ram"),
     Window(BANK, \h7f000, AnySize, \h7f000, \h7ffff, "bank"),
     Window(PORT1, \h7e000, AnySize, \h7e000, \h7efff, "seven"),
     Window(PORT2, \h7e000, AnySize, \h7e000, \h7efff, "seven"),
     Window(BANK, \h90000, AnySize, \h90000, \h90fff, "bank"),
     Window(SysRAM, \h80000, {\hfc000}, \h80000, \h83fff, "ram"),
     Window(SysRAM, \h80000, {\hfe000}, \h80000, \h81fff, "ram"),
     Window(SysRAM, \h80000, {\hf0000}, \h80000, \h8ffff, "ram"),
     Window(SysRAM, \h80000, {\hc0000}, \h80000, \hbffff, "ram"),
     Window(PORT1, \ha0000, AnySize, \ha0000, \haffff, "port"),
     Window(PORT2, \hb0000, AnySize, \hb0000, \hbffff, "port"),
     Window(SysRAM, \hc0000, AnySize, \hc0000, \hcffff, "ram"),
     Window(SysRAM, \hc0000, {\hc0000}, \hd0000, \hfffff, "ram"),
     Window(PORT1, \hc0000, AnySize, \hc0000, \hcffff, "port"),
     Window(PORT1, \hc0000, {\hc0000}, \hd0000, \hfffff, "port"),
     Window(PORT2, \hc0000, AnySize, \hc0000, \hcffff, "port"),
     Window(PORT2, \hc0000, {\hc0000}, \hd0000, \hfffff, "port") >>

ReadNibbleGX ==
  << Window(MMIO, \h100, AnySize, \h100, \h13f, "dev"),
     Window(SysRAM, \h40000, AnySize, \h40000, \h4ffff, "ram"),
     Window(BANK, \h7f000, AnySize, \h7f000, \h7ffff, "bank"),
     Window(PORT1, \h7e000, AnySize, \h7e000, \h7efff, "seven"),
     Window(PORT2, \h7e000, AnySize, \h7e000, \h7efff, "seven"),
     Window(MMIO, \h90000, AnySize, \h90000, \h90fff, "bank"),
     Window(SysRAM, \h80000, {\hfc000}, \h80000, \h83fff, "ram"),
     Window(SysRAM, \h80000, {\hfe000}, \h80000, \h81fff, "ram"),
     Window(SysRAM, \h80000, {\hf0000}, \h80000, \h8ffff, "ram"),
     Window(SysRAM, \h80000, {\hc0000}, \h80000, \hbffff, "ram"),
     Window(PORT1, \ha0000, AnySize, \ha0000, \haffff, "port"),
     Window(PORT2, \hb0000, AnySize, \hb0000, \hbffff, "port"),
     Window(SysRAM, \hc0000, AnySize, \hc0000, \hcffff, "ram"),
     Window(SysRAM, \hc0000, {\hc0000}, \hd0000, \hfffff, "ram"),
     Window(PORT1, \hc0000, AnySize, \hc0000, \hcffff, "port"),
     Window(PORT1, \hc0000, {\hc0000}, \hd0000, \hfffff, "port"),
     Window(PORT2, \hc0000, AnySize, \hc0000, \hcffff, "port"),
     Window(PORT2, \hc0000, {\hc0000}, \hd0000, \hfffff, "port") >>

ReadNibbleCrcGX ==
  << Window(MMIO, \h100, AnySize, \h100, \h13f, "dev"),
     Window(SysRAM, \h40000, AnySize, \h40000, \h4ffff, "ram"),
     Window(BANK, \h7f000, AnySize, \h7f000, \h7ffff, "bank"),
     Window(PORT1, \h7e000, AnySize, \h7e000, \h7efff, "seven"),
     Window(PORT2, \h7e000, AnySize, \h7e000, \h7efff, "seven"),
     Window(MMIO, \h90000, AnySize, \h90000, \h90fff, "bank"),
     Window(SysRAM, \h80000, {\hfc000}, \h80000, \h83fff, "ram"),
     Window(SysRAM, \h80000, {\hfe000}, \h80000, \h81fff, "ram"),
     Window(SysRAM, \h80000, {\hf0000}, \h80000, \h8ffff, "ram"),
     Window(SysRAM, \h80000, {\hc0000}, \h80000, \hbffff, "ram"),
     Window(PORT1, \ha0000, AnySize, \ha0000, \haffff, "port"),
     Window(PORT2, \hb0000, AnySize, \hb0000, \hbffff, "port"),
     Window(SysRAM, \hc0000, AnySize, \hc0000, \hcffff, "ram"),
     Window(SysRAM, \hc0000, {\hc0000}, \hd0000, \hfffff, "ram"),
     Window(PORT1, \hc0000, AnySize, \hc0000, \hcffff, "port"),
     Window(PORT1, \hc0000, {\hc0000}, \hd0000, \hfffff, "port"),
     Window(PORT2, \hc0000, AnySize, \hc0000, \hcffff, "port"),
     Window(PORT2, \hc0000, {\hc0000}, \hd0000, \hfffff, "port") >>

(* The cell of the first window that serves address a.                     *)
Decode(windows, a, otherwise) ==
  LET serving == {n \in DOMAIN windows : Serves(windows[n], a)}
      w == windows[FirstOf(serving)]
  IN IF serving = {} THEN otherwise ELSE <<w.kind, a - w.at>>

(* What a read of address a finds where no controller serves, and what a   *)
(* read for the CRC finds there.                                           *)
Elsewhere(a) ==
  IF a \in \h100 .. \h13f \/ (~opt_gx /\ a >= \h80000) THEN <<"zero", 0>>
  ELSE <<"rom", a>>

ElsewhereCrc(a) ==
  IF a \in \h100 .. \h13f \/ (~opt_gx /\ a >= \h80000) THEN <<"zero", 0>>
  ELSE <<"rom", a>>

(* read_nibble and read_nibble_crc.                                        *)
ReadCell(a) ==
  Decode(IF opt_gx THEN ReadNibbleGX ELSE ReadNibbleSX, a, Elsewhere(a))

CrcCell(a) ==
  Decode(IF opt_gx THEN ReadNibbleCrcGX ELSE ReadNibbleCrcSX, a, ElsewhereCrc(a))

(* write_nibble.  Writes to the bank switch, to a port (port1_is_ram and   *)
(* port2_is_ram are never set) and where no controller serves are lost.    *)
Lost == <<"lost", 0>>

StoredAt(cell) == IF cell[1] \in {"ram", "dev"} THEN cell ELSE Lost

WriteCell(a) ==
  StoredAt(Decode(IF opt_gx THEN WriteNibbleGX ELSE WriteNibbleSX, a, Lost))

(* A read of the bank switch switches banks.  Mutant: the address is not   *)
(* halved.                                                                 *)
SwitchedUnhalved(offset) ==
  IF offset = 0 THEN 0
  ELSE IF offset \in \h40 .. \h7f THEN offset - \h40
  ELSE bank_switch

Switched(offset) ==
  IF offset = 0 THEN 0
  ELSE IF offset \in \h40 .. \h7f THEN (offset - \h40) \div 2
  ELSE bank_switch

(* A read of a port goes through port1 or port2, which read_files and      *)
(* read_rom leave null, and the emulator is killed.                        *)
Found(cell) ==
  /\ alive
  /\ alive' = (cell[1] # "port")
  /\ bank_switch' = IF cell[1] = "bank" THEN Switched(cell[2]) ELSE bank_switch
  /\ UNCHANGED <<opt_gx, mem_cntl, given>>

(* The fetch of an instruction, and a load of data.                        *)
Fetch(a)     == Found(ReadCell(a))
LoadData(a)  == Found(CrcCell(a))

Next ==
  \/ Reset
  \/ \E i \in Chain : \E conf \in Confs[opt_gx][i] : Configure(i, conf)
  \/ \E i \in Chain : Unconfigure(i)
  \/ \E a \in Addrs : Fetch(a) \/ LoadData(a)

Spec == Init /\ [][Next]_vars

-----------------------------------------------------------------------------
(* The type of the variables; the bank is one of the 32 there are, whatever *)
(* address of the bank switch is read (read_nibble_gx).                     *)
TypeOK ==
  /\ opt_gx \in BOOLEAN
  /\ mem_cntl \in [Chain -> [unconfigured : 0 .. 2, config : Space \X Space]]
  /\ bank_switch \in 0 .. 31
  /\ alive \in BOOLEAN
  /\ given \in [Chain -> Seq(Space)]

(* A controller that serves addresses serves those it was given since it    *)
(* was last reset: its size first, then its address, and nothing after,     *)
(* whatever was reset, configured and unconfigured in between (do_configure,*)
(* do_unconfigure).                                                         *)
ServesAsGiven ==
  \A i \in Chain : Address(i) # 0 =>
    /\ mem_cntl[i].unconfigured = 0
    /\ given[i] = IF i = MMIO THEN <<Address(i)>> ELSE <<Size(i), Address(i)>>

(* A CONFIG after C=ID told that a controller waits for its size moves no   *)
(* address: what the program runs from and works on stays where it is until *)
(* the address is given too (get_identification, do_configure).             *)
SizeMovesNothing ==
  [][ /\ Identification \in {5, 7, 1}
      /\ \E i \in Chain : Len(given'[i]) > Len(given[i])
      => \A a \in Addrs : ReadCell(a)' = ReadCell(a) ]_vars

(* The three copies of the decoding agree for every address, however the   *)
(* controllers overlap: the CRC is of the cell a read finds, what is        *)
(* written is read back, and RAM and devices a read finds can be written    *)
(* (write_nibble_sx and _gx, read_nibble_sx and _gx, read_nibble_crc_sx and *)
(* _gx).  They differ only in the bank switch at 90000, when the one of the *)
(* controllers that reads and writes know it by is there without the other. *)
ReadBackWhatIsWritten ==
  \A a \in Addrs :
    /\ CrcCell(a) = ReadCell(a)
    /\ \/ WriteCell(a) = StoredAt(ReadCell(a))
       \/ /\ opt_gx /\ a \in \h90000 .. \h90fff
          /\ (Address(MMIO) = \h90000) # (Address(BANK) = \h90000)

(* No access goes beyond the RAM there is: 64 K nibbles on an SX, 256 K on  *)
(* a GX (read_files).                                                       *)
WithinRam ==
  \A a \in Addrs : \A cell \in {ReadCell(a), CrcCell(a), WriteCell(a)} :
    cell[1] = "ram" => cell[2] \in 0 .. (IF opt_gx THEN \h3ffff ELSE \hffff)

=============================================================================
