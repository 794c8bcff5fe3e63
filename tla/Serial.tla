------------------------------- MODULE Serial -------------------------------
(***************************************************************************)
(* The serial port of the emulator: the registers the Saturn program reads *)
(* and writes in the device area (memory.c), the work check_devices does   *)
(* for them between two instructions (device.c), and the transfer of bytes *)
(* from and to the two links of the host, the wire pty and the IR tty      *)
(* (serial.c).                                                             *)
(*                                                                         *)
(* A byte received is its number in order of arrival.  What a byte         *)
(* transmitted holds is left out, and so is the transmitter's interrupt:   *)
(* what do_interupt does is module Interrupts.  The bits of RCS and TCS    *)
(* other than bit 0 are only stored, so CRER changes nothing here.         *)
(***************************************************************************)
EXTENDS Integers, Sequences, SequencesExt

CONSTANTS
  Links,        \* the wire and the IR link
  Breakpoints,  \* whether the debugger may stop the program at a breakpoint
  MaxArrivals   \* bound on the number of bytes that arrive

ASSUME SerialAssumption == /\ Links # {}
                           /\ Breakpoints \in BOOLEAN
                           /\ MaxArrivals \in Nat

(* The serial registers of the device area in order of address: BAUD 0x10d *)
(* (with the two card registers behind it), IOC, RCS, TCS, the read only   *)
(* CRER and RBR, TBR, and IRC.                                             *)
Registers == <<"BAUD", "IOC", "RCS", "TCS", "TBR", "IRC">>

VARIABLES
  open,         \* the links with wire_fd or ir_fd not -1
  inbox,        \* bytes of a link the host holds for us, oldest first
  link,         \* the link bit 2 of ir_ctrl selects
  io_ctrl,      \* bits of io_ctrl: "rx" 0x2, "enable" 0x8
  full,         \* bit 0 of rcs: rbr holds a byte
  busy,         \* bit 0 of tcs: tbr holds a byte
  rbr,          \* the receive buffer register, 0 before the first byte
  buf,          \* receive_char's buf[bp .. bp + nrd - 1]
  touched,      \* device.baud_touched, ioc_touched, rbr_touched, tbr_touched
  device_check,
  due,          \* schedule_event <= 0
  loc,          \* where the loop stands
  arrived,      \* history: the link each byte came in on
  loaded,       \* history: the bytes receive_char put in rbr
  dropped,      \* history: the bytes it discarded with reception disabled
  seen,         \* history: the program has read rbr, or cleared rcs itself
  asked,        \* history: do_interupt was called for the byte in rbr
  forced,       \* history: the program has written rcs since rbr was loaded
  switched,     \* history: ir_ctrl was switched with bytes in buf
  stopped       \* history: the start or a breakpoint put off the devices' check

port    == <<open, inbox, link, io_ctrl, full, busy, rbr, buf>>
work    == <<touched, device_check, due>>
history == <<arrived, loaded, dropped, seen, asked, forced, switched, stopped>>
vars    == <<open, inbox, link, io_ctrl, full, busy, rbr, buf, touched,
             device_check, due, loc, arrived, loaded, dropped, seen, asked,
             forced, switched, stopped>>

(* The port after serial_init, which leaves a link closed when it cannot   *)
(* open it.  init_saturn leaves everything 0; a start from an existing ROM *)
(* (saturn_config_init) has baud_touched set, but not device_check.        *)
(* ir_ctrl is 0 and selects the wire, but the links are alike.             *)
Init ==
  /\ open \in SUBSET Links
  /\ inbox = [l \in Links |-> <<>>]
  /\ link \in Links
  /\ io_ctrl = {}
  /\ full = FALSE
  /\ busy = FALSE
  /\ rbr = 0
  /\ buf = <<>>
  /\ touched \in {{}, {"BAUD"}}
  /\ device_check = FALSE
  /\ due = FALSE
  /\ loc = "run"
  /\ arrived = <<>>
  /\ loaded = <<>>
  /\ dropped = {}
  /\ seen = TRUE
  /\ asked = FALSE
  /\ forced = FALSE
  /\ switched = FALSE
  /\ stopped = (touched # {})

-----------------------------------------------------------------------------
(* The program.  A store covers the registers from number i to number j,   *)
(* in order of address; storing to TBR sets the busy bit after TCS.        *)
Store(i, j) ==
  LET covered == {Registers[k] : k \in i .. j} IN
  /\ loc = "run"
  /\ io_ctrl' \in IF "IOC" \in covered THEN SUBSET {"rx", "enable"} ELSE {io_ctrl}
  /\ full' \in IF "RCS" \in covered THEN BOOLEAN ELSE {full}
  /\ busy' \in IF "TBR" \in covered THEN {TRUE}
               ELSE IF "TCS" \in covered THEN BOOLEAN ELSE {busy}
  /\ link' \in IF "IRC" \in covered THEN Links ELSE {link}
  /\ touched' = touched \cup (covered \cap {"BAUD", "IOC", "TBR"})
  /\ device_check' = TRUE
  /\ due' = TRUE
  /\ loc' = "end"
  /\ seen' = (seen \/ ("RCS" \in covered /\ ~full'))
  /\ forced' = (forced \/ "RCS" \in covered)
  /\ switched' = (switched \/ (link' # link /\ buf # <<>>))
  /\ UNCHANGED <<open, inbox, rbr, buf, arrived, loaded, dropped, asked, stopped>>

(* A load of one or both nibbles of RBR.                                   *)
ReadRbr ==
  /\ loc = "run"
  /\ full' = FALSE
  /\ touched' = touched \cup {"RBR"}
  /\ device_check' = TRUE
  /\ due' = TRUE
  /\ loc' = "end"
  /\ seen' = TRUE
  /\ UNCHANGED <<open, inbox, link, io_ctrl, busy, rbr, buf, arrived, loaded,
                 dropped, asked, forced, switched, stopped>>

(* Any other instruction; SHUTDN sleeps.                                   *)
OtherInstruction ==
  /\ loc = "run"
  /\ loc' \in {"end", "asleep"}
  /\ UNCHANGED <<port, work, history>>

-----------------------------------------------------------------------------
(* receive_char returns early when rbr is full.  Mutant: it does not.      *)
RbrFreeAlways == TRUE
RbrFree == ~full

(* The link it reads from.  Mutant: the other one.                         *)
OtherLink == CHOOSE l \in Links : l # link
Selected == link

(* The bytes left in buf once the first is in rbr.  Mutant: bp is not      *)
(* advanced.                                                               *)
BpStays(bytes) == Front(bytes)
Rest(bytes) == Tail(bytes)

(* receive_char discards what it holds while reception is disabled.        *)
(* Mutant: it discards while the receive interrupt is disabled.            *)
DiscardsUnlessRx == "rx" \notin io_ctrl
Discards == "enable" \notin io_ctrl

NothingReceived(told) ==
  /\ asked' = (asked \/ told)
  /\ UNCHANGED <<inbox, full, rbr, buf, loaded, dropped, seen, forced, switched>>

(* With bytes at hand, in buf or just read.                                *)
Discard(bytes, told) ==
  /\ Discards
  /\ buf' = <<>>
  /\ dropped' = dropped \cup {<<b, "enable" \in io_ctrl>> : b \in ToSet(bytes)}
  /\ asked' = (asked \/ told)
  /\ UNCHANGED <<full, rbr, loaded, seen, forced>>

Load(bytes) ==
  /\ ~Discards
  /\ rbr' = Head(bytes)
  /\ buf' = Rest(bytes)
  /\ full' = TRUE
  /\ loaded' = Append(loaded, Head(bytes))
  /\ seen' = FALSE
  /\ asked' = ("rx" \in io_ctrl)
  /\ forced' = FALSE
  /\ UNCHANGED dropped

(* receive_char.  An empty buffer takes what one read returns, nothing     *)
(* when the read fails; the one buffer serves both links.  fds are the     *)
(* links open when it is called; told, whether do_interupt has just been   *)
(* called for the byte in rbr.                                             *)
ReceiveChar(fds, told) ==
  \/ /\ Selected \notin fds \/ ~RbrFree \/ buf = <<>>
     /\ NothingReceived(told)
  \/ /\ Selected \in fds /\ RbrFree
     /\ \E n \in IF buf = <<>> THEN 1 .. Len(inbox[Selected]) ELSE {0} :
          LET bytes == buf \o SubSeq(inbox[Selected], 1, n) IN
          /\ inbox' = [inbox EXCEPT ![Selected] = SubSeq(@, n + 1, Len(@))]
          /\ switched' = (switched /\ buf # <<>>)
          /\ Discard(bytes, told) \/ Load(bytes)

(* check_devices' part for IOC: an unread byte interrupts when the receive *)
(* interrupt is enabled.  Mutant: only enabling it later does not.         *)
TellsNever == FALSE
TellsOfFull == "IOC" \in touched /\ "rx" \in io_ctrl /\ full

(* transmit_char: the selected link is closed; write takes the byte; the    *)
(* pipe is full (EAGAIN); or write fails otherwise.  The byte is given up   *)
(* unless it was written, and each outcome, alike for both links, clears    *)
(* the busy bit by an assignment of its own.                                *)
LinkClosed(fds) == Selected \notin fds /\ busy' = FALSE

Written(fds) == Selected \in fds /\ busy' = FALSE

(* Mutant: the byte stays in tbr to be tried again.                         *)
WouldBlockStays(fds) == Selected \in fds /\ busy' = busy
WouldBlock(fds) == Selected \in fds /\ busy' = FALSE

WriteError(fds) == Selected \in fds /\ busy' = FALSE

TransmitChar(fds) ==
  LinkClosed(fds) \/ Written(fds) \/ WouldBlock(fds) \/ WriteError(fds)

(* check_devices, called by schedule: BAUD may close a link whose terminal *)
(* settings fail, IOC, then RBR, then TBR.                                 *)
CheckDevices ==
  /\ loc = "end"
  /\ device_check
  /\ open' \in IF "BAUD" \in touched THEN SUBSET open ELSE {open}
  /\ \/ "RBR" \in touched /\ ReceiveChar(open', TellsOfFull)
     \/ "RBR" \notin touched /\ NothingReceived(TellsOfFull)
  /\ \/ "TBR" \in touched /\ TransmitChar(open')
     \/ "TBR" \notin touched /\ UNCHANGED busy
  /\ touched' = {}
  /\ device_check' = FALSE
  /\ loc' = "poll"
  /\ stopped' = FALSE
  /\ UNCHANGED <<link, io_ctrl, due, arrived>>

(* schedule with no device touched, because schedule_event ran out.        *)
ScheduleEvent ==
  /\ loc = "end"
  /\ ~device_check
  /\ loc' = "poll"
  /\ UNCHANGED <<port, work, history>>

(* The rest of schedule, when sched_receive has not run out and when it    *)
(* has.                                                                    *)
SkipReceiver ==
  /\ loc = "poll"
  /\ due' = FALSE
  /\ loc' = "run"
  /\ UNCHANGED <<port, touched, device_check, history>>

PollReceiver ==
  /\ loc = "poll"
  /\ ReceiveChar(open, FALSE)
  /\ due' = FALSE
  /\ loc' = "run"
  /\ UNCHANGED <<open, link, io_ctrl, busy, touched, device_check, arrived, stopped>>

(* The loop goes on without schedule: schedule_event has not run out.      *)
NextInstruction ==
  /\ loc = "end"
  /\ ~due
  /\ loc' = "run"
  /\ UNCHANGED <<port, work, history>>

(* emulate_debug and step return at a breakpoint before schedule.          *)
BreakpointHit ==
  /\ Breakpoints
  /\ loc = "end"
  /\ loc' = "run"
  /\ stopped' = (stopped \/ due)
  /\ UNCHANGED <<port, work, arrived, loaded, dropped, seen, asked, forced, switched>>

(* One turn of do_shutdown's loop, and what wakes it: the interrupt of the *)
(* byte received, or a timer, a key or the debugger.                       *)
SleepReceive ==
  /\ loc = "asleep"
  /\ ReceiveChar(open, FALSE)
  /\ loc' \in {"asleep", "end"}
  /\ UNCHANGED <<open, link, io_ctrl, busy, touched, device_check, due,
                 arrived, stopped>>

(* The host: a byte arrives on an open link.                               *)
Arrive(l) ==
  /\ l \in open
  /\ Len(arrived) < MaxArrivals
  /\ arrived' = Append(arrived, l)
  /\ inbox' = [inbox EXCEPT ![l] = Append(@, Len(arrived) + 1)]
  /\ UNCHANGED <<open, link, io_ctrl, full, busy, rbr, buf, work, loc, loaded,
                 dropped, seen, asked, forced, switched, stopped>>

Instruction ==
  \/ \E i \in DOMAIN Registers : \E j \in i .. Len(Registers) : Store(i, j)
  \/ ReadRbr
  \/ OtherInstruction

Loop == CheckDevices \/ ScheduleEvent \/ PollReceiver \/ SkipReceiver
          \/ NextInstruction

Next == \/ Instruction \/ Loop \/ SleepReceive \/ BreakpointHit
        \/ \E l \in Links : Arrive(l)

(* The loop goes on while it is awake, but nothing promises that it is     *)
(* woken.  sched_receive counts down with the instructions and is one of   *)
(* the events schedule_event is the least of, so the receiver is polled    *)
(* again and again, and so it is in every turn of the sleep; the host's    *)
(* read does not fail for ever.                                            *)
Fairness ==
  /\ WF_vars(Instruction)
  /\ WF_vars(Loop)
  /\ SF_vars(CheckDevices)
  /\ SF_vars(ScheduleEvent)
  /\ SF_vars(PollReceiver /\ port' # port)
  /\ SF_vars(SleepReceive /\ port' # port)

Spec == Init /\ [][Next]_vars /\ Fairness

-----------------------------------------------------------------------------
Bytes == 1 .. Len(arrived)

(* No two bytes of one link stand in s out of the order they arrived in.   *)
InOrder(s) ==
  \A i, j \in DOMAIN s : i < j /\ arrived[s[i]] = arrived[s[j]] => s[i] < s[j]

(* Every byte that arrives on a link is somewhere: received, buffered, with *)
(* the host, or discarded while reception was disabled; and the first three *)
(* follow one another in the order of arrival, none twice, whatever the     *)
(* program stores in between (receive_char).                                *)
ReceivedInOrder ==
  /\ \A l \in Links : InOrder((loaded \o buf) \o inbox[l])
  /\ \A b \in Bytes : \/ b \in ToSet((loaded \o buf) \o inbox[arrived[b]])
                      \/ <<b, FALSE>> \in dropped

(* receive_char never replaces a byte in rbr that the program has not read, *)
(* unless the program itself declared rbr empty.                            *)
UnreadNotOverwritten == [][loaded' # loaded => seen]_vars

(* A byte comes from the link the program has selected, except for what a   *)
(* switch of links finds in the one buffer both share (receive_char).       *)
LoadedFromSelectedLink ==
  [][loaded' # loaded => switched \/ arrived[rbr'] = link]_vars

(* Between two instructions, a byte that waits in rbr with its interrupt    *)
(* enabled has had do_interupt called for it: whether the byte came first   *)
(* or the enabling, no order of stores, reads and polls leaves it silent    *)
(* (check_devices, receive_char).                                           *)
FullIsAnnounced ==
  loc = "run" /\ ~stopped /\ full /\ ~forced /\ "rx" \in io_ctrl => asked

(* A byte stored in TBR does not keep the transmitter busy for ever.        *)
BusyEnds == "TBR" \in touched ~> ~busy

(* While the program leaves reception enabled on an open link and keeps     *)
(* emptying rbr, it gets every byte that has arrived there.                 *)
ReceiverDrains ==
  \A l \in Links :
    /\ <>[](link = l /\ l \in open /\ "enable" \in io_ctrl)
    /\ []<>~full
    => <>[](inbox[l] = <<>> /\ buf = <<>>)

=============================================================================
