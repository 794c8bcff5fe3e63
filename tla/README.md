# A TLA+ model of mcu48

mcu48 is a port of x48, an emulator of the HP48 S/SX and G/GX calculators. It
interprets the Saturn CPU nibble by nibble and models the hardware around it:
memory controllers, timers, keyboard, serial port, display. This directory
models the parts of it that decide *what the emulated program sees and when*:
interrupts, the scheduler of the emulator, the serial port, the memory
controllers, the device registers, the clock, the debugger's control of the loops
and its disassembler, and the decoding and the data instructions of the CPU.

Source references are to `src/src/` unless they say otherwise. The program has no
tests; the documents used are `src/README`, `src/doc/*.doc`, the help of the
debugger and the comments in the code.

## 1. The system

### 1.1 Components

| Component | Code | State | Operations |
|---|---|---|---|
| CPU, interrupts | `actions.c`, `emulate.c` | `saturn.PC`, `rstk[8]`, `rstkp`, `intenable`, `int_pending`, `shutdown`, `OUT`, `keybuf` | `do_interupt`, `do_kbd_int`, `do_return_interupt`, `do_reset_interrupt_system`, `do_shutdown`, `push_return_addr`, `pop_return_addr`, the control instructions of `step_instruction` |
| Data instructions | `register.c`, `actions.c` | A, B, C, D, R0-R4, D0, D1, P, ST, HST, CARRY, `hexmode` | `add_register` ... `is_greater_or_equal_register`, the field tables, the pointer and status helpers |
| Instruction decoding | `emulate.c` | - | `step_instruction`, `decode_*` |
| Scheduler | `emulate.c` | `schedule_event`, `sched_*`, `instructions`, `old_sched_instr`, `t1_tick`, `t2_tick` | `schedule`, `emulate`, `emulate_debug`, `do_step` |
| Device area | `memory.c`, `device.c` | `device.*_touched`, `device_check`, display, card and CRC registers | `read_dev_mem`, `write_dev_mem`, `check_devices` |
| Serial port | `serial.c` | `rbr`, `rcs`, `tbr`, `tcs`, `io_ctrl`, `ir_ctrl`, the static buffer of `receive_char` | `receive_char`, `transmit_char`, `serial_baud`, `serial_init` |
| Memory controllers | `actions.c`, `memory.c`, `mmu.h` | `mem_cntl[6]`, `bank_switch` | `do_reset`, `do_configure`, `do_unconfigure`, `get_identification`, `read_nibble_*`, `write_nibble_*` |
| Timers, clock | `timer.c` | T1, RUN and IDLE timers, `timer1`, `timer2`, `set_t1`, access time and CRC in RAM | `start_timer`, `stop_timer`, `get_t1_t2`, `set_accesstime`, `adjtime` in `schedule` |
| Debugger | `debugger.c`, `main.c` | `bkpt_tbl`, `num_bkpts`, `exec_flags`, `enter_debugger`, `in_debugger` | `debug`, `do_break`, `do_delete`, `do_step`, `do_continue`, ..., `check_breakpoint` |
| Disassembler, RPL decoder | `disasm.c`, `rpl.c` | - | `disassemble`, `decode_rpl_obj` |
| Start and state files | `init.c`, `romio.c` | all of `saturn` | `init_emulator`, `read_files`, `write_files`, `read_rom_file` |
| Display | `lcd.c`, `annunc.h` | `disp`, display buffers | `update_display`, `disp_draw_nibble`, `draw_annunc` |
| Front end | `x48_x11.c` | - | `GetEvent` (a stub here) |
| Options and messages | `options.c`, `resources.c`, `errors.c` | - | - |
| Tools | `mkcard.c`, `checkrom.c`, `dump2rom.c`, `romdump/` | - | stand-alone |

### 1.2 How they interact

There is one thread. `main` alternates `emulate()` or `emulate_debug()` (chosen by
`exec_flags`) and `debug()`. A loop runs one instruction, then, when the
countdown `schedule_event` is spent, `schedule()`. Everything but the CPU acts
from `schedule()`, from `do_shutdown()` while the CPU sleeps, or from the
handlers of SIGALRM and SIGINT, which set a flag.

```
   step_instruction --read/write nibble--> memory.c --touched flags--> device.c
        |  ^                                  |                          ^
   RTI, |  | PC, mask, stack       CONFIG ... |             check_devices|
   push |  |                                  v                          |
        v  |                               mem_cntl               schedule() <-- schedule_event
     actions.c  <---- do_interupt ---- serial.c, timers, GetEvent <------'
        |
     do_shutdown: sleeps, polling the same sources on SIGALRM
```

* memory accesses leave *touched* flags and set `schedule_event = 0`; the effect
  comes with `check_devices`, after the instruction;
* devices interrupt the CPU by `do_interupt` (lost if masked) or `do_kbd_int`
  (one is remembered);
* signals and the debugger's conditions are bits of `enter_debugger`, which the
  loops test after every instruction.

### 1.3 What is hard in it

There are no threads, so the hard behaviour is in orders of events within the
loops and in counters that several parts share:

* *interleaving*: a device, a key, a signal or the debugger between any two
  instructions, and in any turn of the sleep;
* *ordering*: devices are caught up with late; which job runs first decides what
  another one sees (`schedule`, `check_devices`);
* *stale state*: `num_bkpts` against the table, `exec_flags` against
  `num_bkpts`, one receive buffer for two links, `set_t1` in the sleep;
* *limits*: the eight-slot return stack, the single pending key, the one byte in
  `rbr`, the countdown at zero, fields that end at a word's end;
* *guesses*: whether a clock that differs from the timer was set by the user or has
  fallen behind is told from the size of the difference and from two flags;
* *copies*: three decodings of addresses on each of two models, two readers of instructions, two ways to
  set up the display, each of which must agree with the others;
* *liveness*: jobs of the scheduler must recur, a busy transmitter must become
  ready, a signal must bring up the debugger, a sleep must end.

The complete list, with the line each bites at, is under `hazards` in
`PROJECT.json`; every property below is aimed at one of them.

### 1.4 What makes each part correct

| Component | Correctness |
|---|---|
| Interrupts | masked exactly during one service; a remembered key is served; the service returns to where it was called; the return stack keeps the newest addresses in order |
| Scheduler | no job late; every job recurs; a change of the display or of a timer is not forgotten (a change of the display is, in one case: 3.3) |
| Serial | bytes are delivered in order, once, from the selected link; an unread byte is not overwritten; a full `rbr` is announced; the transmitter becomes ready |
| Memory controllers | a controller serves what it was given; reads, reads for the CRC and writes of an address agree; RAM is not exceeded |
| Debugger | a breakpoint is stopped at; a fault is not run again; a signal enters the debugger |
| Data instructions | only the field changes, and it holds the number arithmetic says |
| Clock | only the user moves it, or a host so fast that TIMER2 runs half a minute ahead; TIMER2 counts down, and neither its announcement nor the wake-up it owes is missed |
| Decoding | `disasm.c` shows the operation, operands, length and target of what `emulate.c` executes |
| Device registers | the display kept from them is the one they describe; polling LINE_COUNT finds every line; the CRC is right |

## 2. The modules

| Module | Lines of code it models | Notes |
|---|---|---|
| `ReturnStack` | `actions.c` push and pop | bounded stack that drops its oldest entry; 0 when empty |
| `Interrupts` | `actions.c`, `emulate.c`, `main.c`, `debugger.c` | extends `ReturnStack` |
| `CallService` | - | the abstract specification that `Interrupts` implements |
| `Interrupts_proofs` | - | theorems about `Interrupts`, the refinement of `CallService` included |
| `Scheduler` | `emulate.c`, `device.c`, part of `memory.c` and `debugger.c` | |
| `Serial` | `serial.c`, part of `memory.c`, `device.c`, `emulate.c` | |
| `Mmu` | `actions.c`, `memory.c`, `mmu.h` | |
| `Mmu_proofs`, `Scheduler_proofs`, `Serial_proofs`, `Debugger_proofs`, `Clock_proofs`, `DeviceRegisters_proofs` | - | theorems about the module each is named after |
| `Instructions_proofs` | - | theorems about `Registers` and about `Decode`: both sides of an instruction |
| `Debugger` | `debugger.c`, `main.c`, the loops | |
| `RegisterOps` | `register.c` | pure operators on words |
| `Registers` | the instructions of `emulate.c` and `actions.c` that compute | extends `RegisterOps` |
| `Decoder` | `step_instruction` and the decoders of `emulate.c` | pure operators: an opcode's length, work and target |
| `Disassembler` | `disasm.c` | extends `Decoder` for its records; the tables are its own |
| `Decode` | the program's and the debugger's look at the same code | extends both |
| `Clock` | `timer.c`, part of `emulate.c`, `actions.c`, `memory.c`, `debugger.c` | |
| `DeviceRegisters` | part of `memory.c`, `lcd.c`, `debugger.c` | |
| `MC*` | - | values of the constants for TLC |

`map` in `PROJECT.json` gives the source lines of every definition.

### 2.1 Interrupts

A step of the model is one instruction (`loc = "step"`), what the loop does after
it (`"after"`: breakpoint, schedule or the way into the debugger), one poll of
the sleep (`"asleep"`) or a visit to the debugger (`"debug"`). The ROM is
arbitrary: every step may be any of the control instructions, with any address of
`Code`. `keybuf` is abstracted to "some row is not zero" and `OUT` to "zero or
not", which is all the code asks. A SIGINT may come before any step.

Two initial states exist: the one of `init_saturn`, and the one after a start from
an existing ROM, where `init_emulator` returns before `init_saturn` and `saturn`
is all zero. In the second, `rstkp = 0` counts *one* address on the stack and
interrupts are masked: the CPU is as if it served an interrupt.

`calls`, `overflowed` and `disciplined` are history variables: the frames
outstanding with their kind, whether the stack has overflowed, and whether the ROM
has so far kept to one RTI for each interrupt. A ROM that does not (it pops the
stack by hand in a service routine, or executes RTI outside one) can mask
interrupts for good on the real CPU too; `MaskedExactlyInService` and
`ServiceReturnsToInterrupted` are stated for the ones that do.

The front end of this tree never delivers a key. The constant `Keyboard` is TRUE
in the run, so that the keyboard's part of `actions.c` is checked as a front end
that calls `do_kbd_int` would use it.

### 2.2 Scheduler

`schedule` as one action (`CallSchedule`) whose parts are operators in the order
of the code: count the instructions off, timer 2, `check_devices`, the receiver,
timer 1, `adjtime`, statistics, rollover, the display, and the minimum that
becomes `schedule_event`. The loops differ in their test of the countdown
(`<= 0`, `== 0`, none in `do_step`), which is why `loop` is part of the state;
`do_step` runs its first instruction by itself (`"first"`) and zeroes
`sched_adjtime` after it, unless a breakpoint has ended it there (`FirstStepped`).
`debug` updates the display when it is entered (`EnterDebug`), not at its commands.
A TRAP returns before it is counted (`Trap`). `skipped` is a history variable: the
instructions that a breakpoint or a count below zero hid from the countdown.
`inService`, whether PC is in the service routine, may differ at every
call, since any instruction may have entered or left it, and is a parameter.

### 2.3 Serial

The registers, the two links, the static buffer of `receive_char`, the flags for
`check_devices`, and the polls from `schedule`, from a read of RBR and from the
sleep. A byte is the number of its arrival, so that order, loss and duplication
are visible. A store is to a run of neighbouring registers, as one instruction
writes. `stopped` records that a breakpoint (or the zeroed start) came between
an access and the call of `schedule` it asked for. `transmit_char` ends in one of
four ways (`LinkClosed`, `Written`, `WouldBlock`, `WriteError`), each with its own
assignment to the busy bit.

### 2.4 Mmu

`mem_cntl[0..5]` as functions, `conf_tab_sx` and `conf_tab_gx` as `Count`. The code
decodes an address in six copies: `read_nibble`, `read_nibble_crc` and `write_nibble`,
each for the SX and for the GX. Each copy is transcribed on its own as a *table of
windows in the order that copy tries them* (`ReadNibbleSX`, `ReadNibbleCrcSX`,
`WriteNibbleSX` and the like), so that `ReadBackWhatIsWritten` compares the copies and
does not assume them equal. The program's fetches go through `ReadCell`, its loads of
data through `CrcCell`, its stores through `WriteCell`. An access is the
cell it goes to (`<<"ram", n>>`, `<<"rom", n>>`, `<<"dev", n>>`, ...). What a cell
holds does not matter to the properties. An address is at most `LastAddress`, 20 bits. `alive` becomes FALSE when a port is
read, since nothing ever allocates `port1` and `port2`; the run therefore has
`CHECK_DEADLOCK FALSE`.

### 2.5 Debugger

The table of breakpoints with its count, the loops that look at it, `do_step` with
its three locals, and the requests in `enter_debugger`. A loop's turn is split
where another party can act: before the instruction, before the look for a
breakpoint, before `schedule`, before the test of `enter_debugger`. The user may
delete any number, also of a slot that is not in use, and `delete` without one
deletes every slot with address PC, which with PC = 0 are all that are free
(`Here`). `unset` is a history variable: whether that has happened since the last
`delete all`.

### 2.6 Registers

`RegisterOps` has the loops of `register.c` as functions of the position: a nibble of the
result is computed from the nibbles at its position and the carry into it, and the carry
is a recursive function of the positions below. `Registers` has the instructions. A word
is a function from 16 positions to nibbles.
`last` is the last instruction, for the properties to refer to.

### 2.7 Decode

`step_instruction` and `disassemble` are two operators that read the same nibbles
and return the same kind of record: length, operation, destination, operands, field
as a range of nibbles, number, and the address control may go to. The code is
fetched nibble by nibble until both have what they need, so every opcode of every
length is reached, in both sets of mnemonics.

The disassembler misreads some instructions, and the properties say exactly which
(`TooShort`, `Misnamed`, `Unnamed`, `Crashes`): each is an equivalence, so an instruction that
is misread and not listed violates it, and so does one listed that is not. A line is
blank exactly for what the CPU refuses as illegal and for `Unnamed`, and none is
returned exactly for `Crashes`.

| Instruction | What `disassemble` does |
|---|---|
| D0=D0+n, D1=D1+n and the subtractions (16, 17, 18, 1c) | reads the count without advancing over it (`disasm.c:596` advances its own pointer by `*addr++`): a nibble too short |
| SRB with a field (819) | does not read the register's nibble: always B, a nibble too short |
| NOP5, and the trap (6004n, n not 0, `emulate.c:2186-2192`) | advances as far as NOP4; the trap is shown as NOP5 |
| 100 to 12f with R-registers and C | names A for C |
| 8d | shown as GOSBVL: the test at `disasm.c:1212` is for `c`, not `d` |
| A=-A and the like | the HP mnemonic is A=A-1 (`disasm.c:1588`) |
| C=P n, P=C n | exchanged in CLASS mnemonics |
| fields with the numbers 5 to 7 in 81a | nothing is shown, though the CPU executes them |
| RSI before another nibble than 0 | `disasm_8` returns the null pointer of its look-up (`disasm.c:700-720`) and `disassemble` writes through it (`disasm.c:1666`): the emulator crashes |

With the target of a relative jump the text has its distance from the instruction, a
sign and five digits (`append_r_addr`). For a jump back by less than the distance from
the instruction to the nibble the displacement counts from, the code subtracts past 0
(`disasm.c:370`) and prints a minus with what is left of the address space: a GOSUB
two nibbles on is shown as `-FFFFE`. `SameTarget` shows that the distance, taken modulo
the address space, always leads from the instruction to the target.

### 2.8 Clock

The program reads the time as ACCESSTIME - TIMER2. Only differences count, so
ACCESSTIME, the host's time and `time_offset` are one variable, `access_time`, the
value TIMER2 ought to have. Real time takes it down (`Tick`), the countdown of
`schedule` takes `timer2` down, and `get_t1_t2` puts them together (`Compare`),
either by setting the timer or, if they are more than half a minute apart, by moving
the offset. An alarm in the sleep, the adjustment in `schedule`, and the debugger's
`cont` do the latter each in its own way.

`disturbed` is a history variable: whether since they were last together the program
has set one of the two, the timer stood still, or the host stopped the process.
What the properties showed of the code, each an exception in one of them:

* the countdown goes by instructions alone (`emulate.c:2232-2241`), and though
  `get_t1_t2` slows it by `t2_tick++` when TIMER2 is ahead, each statistics job puts
  `t2_tick` back to 16, because `s_1` and `s_16` are never updated
  (`emulate.c:2371-2375`). On a fast host TIMER2 therefore runs ahead of real time, and
  when it is more than half a minute ahead `get_t1_t2` takes that for a setting and
  puts the clock on by as much (`timer.c:405-408`): `TimeIsTheUsers` excepts this,
  and `CountDown` has no limit but the model's range;
* a process that the host suspends for more than half a minute loses that time:
  it cannot be told from a setting (`"suspended"`);
* the comparison at `timer.c:421` is without a sign, so a timer below 0 is *raised*
  to an access time that is not (`Timer2OnlyGoesDown`);
* `abs` at `timer.c:403` takes the low 32 bits of the difference, so a setting by a
  multiple of 2^32 ticks is not noticed, and of the least int it is undefined;
* if the debugger is entered between a setting and the next adjustment, the setting
  is lost: `debug` writes ACCESSTIME anew;
* `set_accesstime` aborts the emulator when TIMER2 has bit 31 set and is not below 0
  (`timer.c:146-149`). A store cannot do that, but the unsigned comparison can, when it
  takes a timer below 0 back to a large access time; leaving the debugger then ends in
  `"aborted"` (`SetAccessTime`).

A store of some nibbles of TIMER2 keeps the others: `StoreTimer2` says so with quotients
and remainders by the `Weight` of a nibble, a constant (the powers of `Radix`) so that
the module needs no recursion.

TIMER1's count is left out: `get_t1_t2` adds the time since T1 was started at every
call without starting it again, and the sleep overwrites `set_t1` with it, and no
document says what it ought to be. It may wake the sleeping CPU at any time. The RUN
and IDLE timers feed only statistics.

### 2.9 DeviceRegisters

`write_dev_mem` changes one nibble and, if that makes a difference, the part of
`display` that depends on it; `init_display` computes all of it. The property is
that the two agree after any stores. One exception is known: `old_line_offset` is
a static of `write_dev_mem` that `load` in the debugger does not reset, so a
LINE_OFFSET stored again as it was before the load is not taken over
(`reloaded`). `disp.lines`, which `init_display` alone clamps to 110, is not in
the model: nothing reads it.

LINE_COUNT is modelled with its counter of looks, and a program that polls both
nibbles in one load. The CRC is a set of bits; its reference is the shift register
of CCITT, one `Bit` at a time, four to a nibble. The program is one of three (`program`): these parts of the
state have nothing to do with each other but for LINE_COUNT, which two of them store.

### 2.10 CallService

What `Interrupts` promises a program that keeps the rules: an endless stack, one
service at a time, begun between two instructions and ended where the program was,
and a key remembered during it. A return goes where the newest call says, and the
address that C=RSTK takes off is that one. It has no mask, no eight slots, no sleep, no debugger
and no second loop. `Interrupts` maps its history of frames, `calls`, to the stack,
`int_pending` to the key, and keeps the promise while it is `disciplined` and the
stack has not overflowed. `popped`, a history variable of `Interrupts`, is what the
last instruction took off the stack into C. The content of the refinement is that the
addresses RTN, RTI and C=RSTK take from the *bounded* stack are those on the endless
stack, and that a service, which the *mask* permits, begins only when none is on it. Of
a return with nothing outstanding nothing is promised; C=RSTK then yields 0.

## 3. What is checked

| Run | Question | States | Time |
|---|---|---|---|
| `interrupts` | mask, pending key, stack and return, under every interleaving; the abstract call service | 859,212 | 40 s |
| `serial` | order, loss, announcement of received bytes | 622,536 | 90 s |
| `serial_live` | the transmitter becomes ready, the receiver drains | 14,210 | 8 s |
| `scheduler` | no job late; how a change can be forgotten | 2.8 million | 150 s |
| `count_negative` | *violated*: the countdown is never negative | | 1 s |
| `mmu` | configuration and the six decodings | 68,514 | 140 s |
| `debugger` | breakpoints, faults, signals | 187,356 | 15 s |
| `delete_unset` | *violated*: breakpoints after deleting one that is not set | | 1 s |
| `registers` | the data instructions | 82,888 | 15 s |
| `decode` | the disassembler against the CPU, every opcode, both mnemonics | 591,888 | 20 s |
| `clock` | the clock and TIMER2, awake, asleep, in the debugger, suspended | 222,181 | 60 s |
| `device_registers` | the display, LINE_COUNT, the CRC | 255,500 | 70 s |

Each property of a passing run has a mutant: a plausible mistake in the code
(a dropped test, a missing reset, an order swapped) under which TLC finds the
property violated with the same configuration.

### 3.1 Bounds, and why they are enough

* `NR_RSTK = 2`, `MaxCalls = 3`: overflow, underflow and an interrupt on a full
  stack all happen; the theorems about the stack hold for every depth.
* `Code = {0, 15, 100}`: the restart address, the service entry and any other. The
  code compares addresses with nothing else.
* Serial: two links, two bytes, so that both may come in over one link or one over
  each. Reads from the host return any number of what is there. The order
  property is about pairs of bytes. The links are symmetric; liveness is checked
  without symmetry on one.
* Scheduler: periods 2 and 3 instead of 0xf to 0x3fffffff, so that jobs fall due
  together, one after the other and in either order; `DISP_INSTR_OFF` 3, in the
  code 0x10, is as there one more than the shortest period, so that the display's
  wait is and is not the least. `SCHED_NEVER` is 4, in the code 0x7fffffff: longer than
  any of them. `Ticks = {0, 2}`: 0 is what a start from an existing ROM has.
  `MaxDrift = 2` instructions may go by without a call of `schedule`. The theorems hold
  for all periods and ticks.
* Mmu: the addresses configured are those that overlap in every way, on both
  models, and the addresses accessed the corners of every window. The theorems hold for all
  addresses of 20 bits.
* Debugger: two breakpoints, three addresses and up to two steps: one breakpoint
  behind a free slot, and a step after a step. `num_bkpts` falls to `MinCount`, -2 at
  least, as deletions of free slots take it.
* Registers: words at the boundaries (zero, all nines, all digits, fifteens with one
  zero), every field and every P that changes one, both modes, one instruction from
  every initial state. The properties relate one state to the next, so longer runs
  would only enlarge the set of words. TLC's integers have 32 bits, so the properties
  about numbers look at fields of at most `Longest = 6` nibbles; the others cover the
  long fields. The theorems hold for every `Longest`, so for all 16 nibbles, and for
  all words.
* Decode: an address in the middle of the address space and one whose jumps wrap; all
  values of the nibbles that select the instruction, and of the first digits of a
  constant one without the sign bit, one with it, and 0. The theorems hold for all
  addresses and all nibbles.
* Clock: TIMER2 has three nibbles of one bit, so eight numbers with and without the sign
  bit, and half a minute is two of them. Time passes by one tick or by four, more
  than half a minute. The countdown runs ahead of it as far as it likes. Times stay
  within twice the range of the timer. The emulator may abort, so the run has
  `CHECK_DEADLOCK FALSE`.
* DeviceRegisters: the registers have their real widths. The stores are both sides of
  every test, all 64 lines are waited for, and the CRC takes all 65,536 values with the
  six nibbles that generate the others, to which both computations are linear.

### 3.2 Fairness

* `Debugger`: weak fairness of what the loop does. The loops never block outside
  `do_shutdown` and the prompt; the user is not fair.
* `Serial`: weak fairness of the loop and of the next instruction. Strong fairness of
  `CheckDevices` and `ScheduleEvent`: `schedule_event` counts down with every
  instruction and cannot be put off, although a breakpoint can interrupt it. Strong
  fairness of polls that move a byte: `sched_receive` recurs (a job that is never late,
  `JobsOnTime`, recurs as long as instructions are executed), and the host's `read` does
  not fail for ever.
* `Clock`: weak fairness of instructions, of alarms and of time; strong fairness of the
  adjustment, which recurs (`JobsOnTime`), of leaving a device's service (a ROM that
  stays in one for ever has no clock on the real machine's terms either), and of the user
  leaving the debugger.
* `DeviceRegisters`: weak fairness of the polling program.
* `Scheduler`, `Mmu`: none; they have only safety properties.
* `Interrupts`: none, for the same reason. That a masked key is served
  depends on the ROM's RTI, which nothing in the emulator promises;
  `PendingKeyIsServed` says what any step that clears it must do.

### 3.3 Disagreements

Two properties that the program states of itself do not hold (`findings`):

* `CountNotNegative`: `emulate.c` comments a negative `schedule_event` with
  `puts("bug")`. It happens when a device access finds the display's wait at one.
  `emulate` recovers; `emulate_debug`, which tests `== 0`, does not until a
  device access or an RTI sets the count to 0, or `emulate` runs again. The display
  pays for it in either loop: with an update due at once `display_touched` is 1 and its
  wait 0; the call of `schedule` after the next instruction takes the 1 off
  (`emulate.c:2256-2258`), `check_devices` finds 0 and does not update
  (`device.c:67`), and the change is not shown until the program stores to the display
  again or sleeps, or the debugger is entered. A second store 14 instructions
  (`DISP_INSTR_OFF - 2`) after the first does it, or a TRAP, which is not counted, so
  that `schedule` is called one instruction too early. `ForgottenOnlyWhenDueAtOnce`
  shows that a change is lost in no other way.
* `SetBreakpointsStop`: deleting a breakpoint that is not set counts `num_bkpts` down,
  after which one that is set is not looked at. `delete` without a number and with PC
  at 0 does this for every free slot at once. `StopsAtBreakpoints` and `CountIsRight`
  hold until then and, since `delete all` sets the count to 0, again after that.

Where a passing property has an exception, the exception is exactly a case in which
the code does something else, and each is a history variable set at the line of code
responsible, a condition, or a list of instructions:

* `serviced`: `emulate_debug` looks for breakpoints before `schedule`, so one at the
  entry of the service routine is passed when a device interrupts just then;
* `unseen`: `do_step` forgets the fault of its first instruction, so the next step runs
  the illegal instruction again, although "Can't step into an illegal instruction";
* `resumed`: `cont` goes on from a breakpoint without stopping at it;
* `skipped`: instructions hidden from the countdown (2.2);
* `unset`: a deletion of a slot not in use made the count wrong;
* `stopped` in `Serial` (2.3), `disturbed` and a timer half a minute ahead in
  `Clock` (2.8), one bank switch of the GX in `Mmu` (4), `reloaded` in
  `DeviceRegisters` (2.9), the lists of `Decode` (2.7).

## 4. What is proved

Every theorem holds for all values of the constants that satisfy the named assumptions
of the module it is about: `ReturnStack` (a stack of at least one slot),
`CodeAssumption` (0 and ISR are addresses), `MmuAssumption` (addresses of 20 bits),
`DebuggerAssumption` (addresses are naturals, so that -1 marks a free slot; at least
one slot and one step), `SchedulerAssumption` (periods and the display's wait are
positive; `SCHED_NEVER` exceeds them and the ticks), `SerialAssumption` (there is a
link), `ClockAssumption` (an even radix, whose powers are `Weight`; half a minute is
less than half the range of the timer), `RegisterAssumption` (stores are of nibbles to
the addresses of registers), `RegistersAssumption` (words and pointers are of nibbles,
constants of 1 to 16), `DecodeAssumption` (addresses of 20 bits, data of nibbles). TLC
evaluates each in the run of its module.

| Module | Theorem | Says |
|---|---|---|
| `Interrupts` | `TypeCorrect` | types; the stack never outgrows its slots |
| | `StackIsCorrect` | the return stack is the newest outstanding frames, in order |
| | `PendingIsCorrect` | a key is remembered only while interrupts are masked |
| | `MaskIsCorrect` | masked exactly while one interrupt is served |
| | `ServiceReturnIsCorrect` | the end of a service resumes the interrupted program, interrupts enabled |
| | `PendingKeyIsNotForgotten` | a remembered key goes only into its service, or into a sleep with OUT = 0 |
| | `InterruptsImplementCallService` | `Interrupts` implements `CallService`: returns, services and C=RSTK as on an endless stack |
| `Mmu` | `MmuTypeCorrect` | controllers and bank keep their types, whatever is configured and read |
| | `ChainIsCorrect` | a controller serves what it was given since its last reset |
| | `RamIsLargeEnough` | no address is decoded to beyond the RAM |
| | `ReadsAgreeWithWrites` | the copies of the decoding agree, but for writes to one bank switch of the GX |
| | `SizeIsHarmless` | a controller that gets its size moves no address |
| `Debugger` | `CountCorrect` | the count never exceeds that of the table, and equals it until a free slot is deleted |
| | `BreakpointsStop` | no loop runs past a breakpoint, on the same condition |
| | `IllegalIsCaught` | what is illegal is not run again |
| `Scheduler` | `CountdownIsAhead` | the countdown ends before any wait is used up (the inductive invariant) |
| | `SchedulerIsOnTime` | no job is late |
| | `DisplayChangeIsKept` | a change of the display is shown or waits on, unless its wait was left at 0 |
| `Serial` | `BytesComeInOrder` | no byte is lost, doubled or out of order |
| | `UnreadIsKept` | none is overwritten unread |
| | `BytesAreOfTheLink` | each comes from the selected link |
| | `ByteIsAnnounced` | none waits unannounced with its interrupt enabled |
| `Clock` | `ClockIsTheUsers` | only the user moves the clock, or a timer half a minute ahead; never one behind |
| | `Timer2IsNotIncremented` | TIMER2 only counts down |
| `DeviceRegisters` | `DisplayIsOfTheRegisters` | the display kept store by store is the one of `init_display` |
| | `CrcIsOfCcitt` | `calc_crc` is four steps of the CRC of CCITT, for every CRC and nibble |
| `Registers` | `TypesHold` | registers stay words of nibbles, CARRY a bit, whatever is computed |
| | `FieldsHold` | an instruction changes only the field and the register it names |
| | `ArithmeticHolds` | sums, differences, complements and constants are exact, and so is CARRY |
| | `AdditionHolds` | subtraction undoes addition and borrows where it carried |
| | `DecimalHolds` | decimal mode leaves decimal digits |
| | `TestsHold` | the tests decide as the numbers compare |
| | `ShiftsHold` | shifts multiply and divide; the circular ones undo each other |
| `Decode` | `LengthHolds` | the disassembler takes as many nibbles as the CPU, but for the lists `TooShort` and `Crashes` |
| | `TargetHolds` | it shows the address the CPU goes to, and the distance to it |
| | `WorkHolds` | it shows the instruction executed, but for the lists `Misnamed`, `Unnamed` and `Crashes` |

*Interrupts.* The inductive invariant `IInv` is the conjunction of the type
invariant and the three safety invariants. The mask and the stack cannot be
proved apart: that an RTI ends the *service*, and not a call within it, is known
from the frame on top of `calls`; that the address it pops is that frame's is known
from `StackHoldsNewestCalls`; and that it may enable interrupts at all from there
being only one service frame. `PushFacts`, `PopFacts` and `FrameCases` say once what
a push and a pop do to the stack and the frames; every action then is one of four
cases for the mask (`MaskCases`). `PendingKeyIsNotForgotten` needs `IInv` for one thing:
that a key is pending only under the mask, so that only what lifts the mask can clear it.

*CallService.* The initial states map to initial states; a step after which the rules
are no longer kept is `Broken`, which the abstract specification permits always; every
other is shown, action by action, to be a step of the program or of the machine, or a
stutter, from `IInv` and `IInv'`. `KeptBefore` says that the rules were then kept
before, `KeptFacts` that no frame has been lost and what the mask says of the frames;
`PopImplements` that the address popped is that of the newest frame.

*Mmu, the controllers.* `ServesAsGiven` alone is not inductive: that a controller which
takes its address now took its size before depends on what it still waits for. `Stage(i)`
adds that: with two values outstanding it has been given none, with one the size, with
none both. The invariant is `TypeOK` and `Stage(i)` for every controller.

*Mmu, the decoding.* `WithinRam` and `ReadBackWhatIsWritten` need no induction: they hold
of any values of the controllers at all. Every window of the tables fits (`SXWindows`, `GXWindows`), and an address
is decoded by the first that serves it (`FirstIsServing`, from `LeastOfNats`). The three
tables of the SX are the same, entry by entry. Those of the GX differ in the sixth, where
reads know the bank switch at 90000 by controller 0, the MMIO one (`memory.c:1047`), and
writes by BANK: an address outside 90000-90fff is not served by that entry in either, and
with both or neither of the two controllers there it serves the same ones.
`SizeMovesNothing` does need the invariant: the controller that C=ID names waits for its
size, so it has no address and none of its windows serves before or after (`SameServing`).

*Debugger.* The count is kept by each command (`TableCases`: a free slot is taken, a used
one freed, or all at once). That breakpoints stop the program rests on three facts that
no single one of them implies: the count is right, so `check_breakpoint`, which gives up
after `num_bkpts` used slots, looks at all of them (`AllAreChecked`); the loop that does
not look at all is run only with an empty table (`LoopFitsTable`); and whatever has passed
the look has been let pass (`BreakpointsPassed`). The invariant says of a
table from which a free slot was deleted (`unset`) only that no more are counted than are
set; `delete all` brings the equality back. Without `unset` `BreakpointsStop` is false
(`delete_unset`).

*Scheduler.* `JobsOnTime` is not inductive. The invariant relates what no line of the code
does: what is left of the countdown, the instruction under way and those counted since
the last call, less those hidden from the countdown, do not exceed any job's wait (`Ends`),
nor the display's (`DisplayAhead`, which adds how that wait depends on the touch counted
down). It must allow for a countdown below zero, for each loop's own test, and for what
brings the countdown forward. `ScheduleWaits` is the heart: the minimum that `schedule`
computes is not above any of the waits it leaves.

*Serial.* A byte is at all times in what was loaded, the buffer, or its link's inbox, in
this order, or discarded (`InArrivalOrder`, `NoneLost`); order over the concatenation is
order within each part and between the parts (`OrderedConcat`). `Receives` and `Loads`
say what `receive_char` does in terms of the sequences it splits and joins, and
`StepsThatMoveBytes` that nothing else does. `BufferFromLink` says which bytes may be in
the buffer the links share. The announcement is proved from what is *owed* between a
store and the next instruction: an enabled byte not announced has its IOC touched
(`SilentOnlyTouched`), and what is touched is due to be checked (`TouchedIsChecked`).

*Clock.* `get_t1_t2` tells a setting from a delay by the size of the difference. The
invariant bounds it in one direction: unless something parted them TIMER2 is never more
than half a minute behind ACCESSTIME, except in a service or at the prompt (`NotBehind`),
where no difference is taken for a setting (`MayBeUser`). In the other direction nothing
bounds it. `CloseIsNoSetting`: within
these bounds the truncation to an int and `abs` are exact; it is here that half a minute
must be less than half the range.

*DeviceRegisters.* The display is written as a function of the registers and the length
of a line (`Shown`). `StoredIn` says which numbers a nibble is part of; `UpdatedShows`
goes through the cases of `write_dev_mem` and shows that each brings up to date what
depends on them, and that where it changes nothing (the same start, the same number of
lines, with 0 shown as 63) nothing had to change. The length is right while LINE_OFFSET is the
one last taken over or the first (`DisplayIsRight`), which is what `load` breaks. `FourBits`
compares `calc_crc` and four steps of the shift register bit by bit, as sets.

*Registers.* The properties are about numbers of up to 16 digits, so the loops have to be
reasoned about as recursions. Their length is bounded by the 16 positions, and that makes
the induction a finite one (`Upwards`, `Downwards`: a set of positions closed under the
next one holds them all) which needs no theorem with an operator as a parameter. With it
a recursive definition is shown to have a solution (`Recursion`), so that the carry and
the number of a field obey their equations (`CarryObeys`, `NumberObeys`). The heart is
`LoopNumber`: the number computed, and the last carry times the weight of the field, are
the sum of the numbers that went in; what is below zero is brought back digit by digit
(`LoopDigits`). `SumIsExact` and one lemma for each function of `register.c` follow.
`SubUndoesAdd` compares the carries position by position. `TestsAreExact` follows from
the order of numbers being that of the highest digits that differ (`OrderOfNumbers`).
For the instructions, `Effects` says once that each of those on a field does one of the
operations on the registers of its row of the tables, and `NothingElse` that every other
instruction is no such operation; the properties are then proved for the operations.
None of them needs more than the type invariant `RegisterTypes`: they relate two states.

*Decode.* Here the state hardly matters (`CodeIsOfNibbles` is all that is needed of it):
the content is `Agreement`, which says of *every* code and *every* address that the two
readers agree up to the listed exceptions, the distances printed included. Each reader's alternatives are stated once
(`Executes`, `Lists` and their like for the groups), the tables compared entry by entry
(the lemmas `...Named`), and the groups of opcodes put together from them. Displacements
agree because both extend the sign and reduce by the address space (`SameDisplacement`).
`ReadsAtLeast` and `LookedAt` say that the nibbles by which the exceptions are told have
been looked at when both readers are done.

*Only model-checked.*
* Liveness: `BusyEnds`, `ReceiverDrains`, `SigIntEntersDebugger`, `Timer2IsAnnounced`,
  `SleepEnds`, `EveryLineIsSeen`. The proof system does not handle fairness and ENABLED.
* Nothing else: every invariant and action property of the passing runs is stated by a
  theorem.

## 5. What is not modelled

* The front end, the options and messages: stubs or no state.
* The display's pixels: `disp.mapped` is never set, so nothing is drawn.
* The tools, the ROM dumper and the bitmaps: not part of the running emulator.
* The files: `read_files` reads only the ROM, so the state written on exit is never
  read back; the readers for older versions are unreachable.
* `saturn.kbd_ien`: written by INTON, INTOFF and RSI, read nowhere.
* What memory holds: an access is the cell it goes to.
* The count of TIMER1 and the RUN and IDLE timers (2.8).
* The RPL decoder: it prints, and changes nothing but by reading memory.
* The debugger's commands that only print, and those that set registers and memory.
* Undefined behaviour: `trace_rom_read` beyond its 32 bytes.

## 6. Plan

The order was: interrupts, the scheduler that decides when they come, the serial port
that raises them, the memory controllers every access goes through, the debugger, the
data instructions; then the decoding and the disassembler, the clock, the call service
and its refinement, the device registers. What is left, in this order:

1. Refinements: a FIFO of bytes with a one-byte register that `Serial` implements; a set
   of breakpoints that the debugger's table and count implement.
2. A composition of `Debugger` and `Mmu`: what printing memory changes (bank, RBR,
   LINE_COUNT, touched flags).
3. The debugger's commands that set registers and memory.
