----------------------------- MODULE Mmu_proofs -----------------------------
(***************************************************************************)
(* Proofs about module Mmu, for every set of inputs of the program: the    *)
(* type of its variables, that a controller serves what it was given, and  *)
(* what reads and writes find of the RAM and the devices.                  *)
(*                                                                         *)
(* Steps with addresses name SMT: Zenon writes a number as that many       *)
(* successors of 0.                                                        *)
(***************************************************************************)
EXTENDS Mmu, FiniteSetTheorems, WellFoundedInduction, TLAPS

(* A set of naturals has a least element: the sets of the numbers below    *)
(* its elements are finite, and one of them contains no other.             *)
Below(m) == 0 .. m - 1

LEMMA LeastOfNats ==
  ASSUME NEW S \in SUBSET Nat, S # {}
  PROVE  \E x \in S : \A y \in S : x <= y
<1> DEFINE R == StrictSubsetOrdering(Nat)
           F == FiniteSubsetsOf(Nat)
           T == {Below(m) : m \in S}
<1>1. IsWellFoundedOn(R, F)
  BY FS_StrictSubsetOrderingWellFounded
<1>2. T \subseteq F /\ T # {}
  <2>1. ASSUME NEW m \in S PROVE Below(m) \in F
    <3>1. Below(m) \subseteq Nat
      BY DEF Below
    <3>2. IsFiniteSet(Below(m))
      BY FS_Interval DEF Below
    <3> QED BY <3>1, <3>2 DEF FiniteSubsetsOf
  <2> QED BY <2>1
<1>3. \E b \in T : \A c \in T : ~ (<<c, b>> \in R)
  <2> HIDE DEF R, F, T
  <2> QED BY <1>1, <1>2, WFMin
<1>4. PICK x \in S : \A y \in S : ~ (<<Below(y), Below(x)>> \in R)
  BY <1>3
<1>5. ASSUME NEW y \in S, ~(x <= y) PROVE FALSE
  <2>1. Below(y) \subseteq Below(x) /\ y \in Below(x) /\ y \notin Below(y)
    BY <1>5 DEF Below
  <2>2. <<Below(y), Below(x)>> \in R
    <3>1. Below(y) \in SUBSET Nat /\ Below(x) \in SUBSET Nat
      BY DEF Below
    <3> QED BY <2>1, <3>1 DEF StrictSubsetOrdering
  <2> QED BY <2>2, <1>4
<1> QED BY <1>5

-----------------------------------------------------------------------------
(* How far a controller has come down its part of the chain, and what it   *)
(* has been given so far.                                                  *)
Stage(i) ==
  LET m == mem_cntl[i] IN
  /\ Address(i) # 0 =>
       /\ m.unconfigured = 0
       /\ given[i] = IF i = MMIO THEN <<Address(i)>> ELSE <<Size(i), Address(i)>>
  /\ m.unconfigured = 2 => i # MMIO /\ Address(i) = 0 /\ given[i] = <<>>
  /\ m.unconfigured = 1 => /\ Address(i) = 0
                           /\ given[i] = IF i = MMIO THEN <<>> ELSE <<Size(i)>>

Inv == TypeOK /\ \A i \in Chain : Stage(i)

-----------------------------------------------------------------------------
LEMMA Addresses ==
  /\ LastAddress \in Nat /\ LastAddress = \hfffff
  /\ \A x : x \in Space <=> x \in Nat /\ x <= LastAddress
<1>1. LastAddress \in Nat
  BY SMT DEF LastAddress
<1>2. \A x : x \in Space <=> x \in Nat /\ x <= LastAddress
  BY SMT, <1>1 DEF Space
<1>3. LastAddress = \hfffff
  BY SMT DEF LastAddress
<1> QED BY SMT, <1>1, <1>2, <1>3

LEMMA ZeroInSpace == 0 \in Space
BY SMT, Addresses

(* What a sequence of one or two becomes when something is appended.       *)
LEMMA FirstGiven ==
  ASSUME NEW S, NEW c \in S
  PROVE  Append(<<>>, c) = <<c>> /\ Append(<<>>, c) \in Seq(S)
OBVIOUS

LEMMA LastAppended ==
  ASSUME NEW S, NEW s \in Seq(S), NEW d \in S
  PROVE  Append(s, d)[Len(s) + 1] = d
OBVIOUS

LEMMA AppendToOne ==
  ASSUME NEW S, NEW s \in Seq(S), Len(s) = 1, NEW d \in S
  PROVE  Append(s, d) = <<s[1], d>> /\ Append(s, d) \in Seq(S)
<1> DEFINE t == Append(s, d)
<1>1. t \in Seq(S)
  OBVIOUS
<1>2. Len(t) = Len(s) + 1
  OBVIOUS
<1>3. t[1] = s[1]
  OBVIOUS
<1>4. t[Len(s) + 1] = d
  BY LastAppended, Zenon
<1>5. t = <<s[1], d>>
  <2> HIDE DEF t
  <2> QED BY <1>1, <1>2, <1>3, <1>4
<1> QED BY <1>1, <1>5

LEMMA SecondGiven ==
  ASSUME NEW S, NEW c \in S, NEW d \in S
  PROVE  Append(<<c>>, d) = <<c, d>> /\ Append(<<c>>, d) \in Seq(S)
<1> DEFINE s == <<c>>
<1>1. s \in Seq(S) /\ Len(s) = 1 /\ s[1] = c
  OBVIOUS
<1>2. Append(s, d) = <<c, d>> /\ Append(s, d) \in Seq(S)
  <2> HIDE DEF s
  <2> QED BY <1>1, AppendToOne
<1> QED BY <1>2

(* A controller that has been reset.                                       *)
LEMMA UnconfiguredType ==
  ASSUME NEW i \in Chain
  PROVE  /\ Unconfigured(i) \in [unconfigured : 0 .. 2, config : Space \X Space]
         /\ Unconfigured(i).config = <<0, 0>>
         /\ Unconfigured(i).unconfigured = 1 => i = MMIO
         /\ Unconfigured(i).unconfigured = 2 => i # MMIO
BY ZeroInSpace DEF Unconfigured, conf_tab, MMIO, Chain

LEMMA InitInv == MmuAssumption /\ Init => Inv
<1> SUFFICES ASSUME Init PROVE Inv
  OBVIOUS
<1>1. \A i \in Chain : /\ mem_cntl[i] \in [unconfigured : 0 .. 2, config : Space \X Space]
                       /\ Address(i) = 0
                       /\ mem_cntl[i].unconfigured = 1 => i = MMIO
                       /\ mem_cntl[i].unconfigured = 2 => i # MMIO
  BY UnconfiguredType, ZeroInSpace DEF Init, Address
<1>2. TypeOK
  BY <1>1, UnconfiguredType, ZeroInSpace DEF Init, TypeOK
<1>3. ASSUME NEW i \in Chain PROVE Stage(i)
  BY <1>1 DEF Init, Stage
<1> QED BY <1>2, <1>3 DEF Inv

(* CONFIG: the controller takes its size with a count of 2 and its address *)
(* with a count of 1.                                                      *)
LEMMA ConfigureInv ==
  ASSUME Inv, NEW i \in Chain, NEW conf \in Space, Configure(i, conf)
  PROVE  Inv'
<1> DEFINE m == mem_cntl[i]
           n == mem_cntl'[i]
<1>1. /\ m \in [unconfigured : 0 .. 2, config : Space \X Space]
      /\ m.unconfigured \in {1, 2}
      /\ Stage(i)
  BY DEF Inv, TypeOK, Configure, Waiting
<1>2. /\ n.unconfigured = m.unconfigured - 1
      /\ n.config = [m.config EXCEPT ![m.unconfigured] = conf]
      /\ n \in [unconfigured : 0 .. 2, config : Space \X Space]
  <2>1. n = [m EXCEPT !.unconfigured = @ - 1, !.config[m.unconfigured] = conf]
    BY DEF Configure, Inv, TypeOK, Slot
  <2>2. [m.config EXCEPT ![m.unconfigured] = conf] \in Space \X Space
    BY <1>1
  <2>3. n = [unconfigured |-> m.unconfigured - 1,
             config |-> [m.config EXCEPT ![m.unconfigured] = conf]]
    BY <1>1, <2>1
  <2> QED BY <1>1, <2>2, <2>3
<1>3. given'[i] \in Seq(Space) /\ given'[i] = Append(given[i], conf)
  BY <1>1, FirstGiven DEF Configure, Inv, TypeOK
<1>4. TypeOK'
  BY <1>2, <1>3 DEF Configure, Inv, TypeOK
<1>5. Stage(i)'
  <2>1. CASE m.unconfigured = 2
    <3>1. i # MMIO /\ m.config[1] = 0 /\ given[i] = <<>>
      BY <1>1, <2>1 DEF Stage, Address
    <3>2. /\ n.unconfigured = 1
          /\ n.config[1] = 0 /\ n.config[2] = conf
      BY <1>1, <1>2, <2>1, <3>1
    <3>3. given'[i] = <<conf>>
      BY <1>3, <3>1, FirstGiven
    <3> QED BY <3>1, <3>2, <3>3 DEF Stage, Address, Size
  <2>2. CASE m.unconfigured = 1
    <3>1. /\ n.unconfigured = 0
          /\ n.config[1] = conf /\ n.config[2] = m.config[2]
      BY <1>1, <1>2, <2>2
    <3>2. CASE i = MMIO
      <4>1. given'[i] = <<conf>>
        BY <1>1, <1>3, <2>2, <3>2, FirstGiven DEF Stage
      <4> QED BY <3>1, <3>2, <4>1 DEF Stage, Address, Size
    <3>3. CASE i # MMIO
      <4>1. given[i] = <<m.config[2]>> /\ m.config[2] \in Space
        BY <1>1, <2>2, <3>3 DEF Stage, Size
      <4>2. given'[i] = <<m.config[2], conf>>
        BY <1>3, <4>1, SecondGiven
      <4> QED BY <3>1, <3>3, <4>2 DEF Stage, Address, Size
    <3> QED BY <3>2, <3>3
  <2> QED BY <1>1, <2>1, <2>2
<1>6. ASSUME NEW j \in Chain, j # i PROVE Stage(j)'
  <2>1. mem_cntl'[j] = mem_cntl[j] /\ given'[j] = given[j] /\ Stage(j)
    BY <1>6 DEF Configure, Inv, TypeOK
  <2> QED BY <2>1 DEF Stage, Address, Size
<1> QED BY <1>4, <1>5, <1>6 DEF Inv

LEMMA ResetInv == ASSUME Inv, Reset PROVE Inv'
<1>1. TypeOK'
  BY UnconfiguredType DEF Inv, TypeOK, Reset
<1>2. ASSUME NEW i \in Chain PROVE Stage(i)'
  <2>1. mem_cntl'[i] = Unconfigured(i) /\ given'[i] = <<>>
    BY DEF Reset
  <2> QED BY <2>1, UnconfiguredType DEF Stage, Address, Size
<1> QED BY <1>1, <1>2 DEF Inv

LEMMA UnconfigureInv ==
  ASSUME Inv, NEW i \in Chain, Unconfigure(i)
  PROVE  Inv'
<1>1. TypeOK'
  BY UnconfiguredType DEF Inv, TypeOK, Unconfigure
<1>2. ASSUME NEW j \in Chain PROVE Stage(j)'
  <2>1. CASE j = i
    <3>1. mem_cntl'[i] = Unconfigured(i) /\ given'[i] = <<>>
      BY DEF Unconfigure, Inv, TypeOK
    <3> QED BY <2>1, <3>1, UnconfiguredType DEF Stage, Address, Size
  <2>2. CASE j # i
    <3>1. mem_cntl'[j] = mem_cntl[j] /\ given'[j] = given[j] /\ Stage(j)
      BY <2>2 DEF Unconfigure, Inv, TypeOK
    <3> QED BY <3>1 DEF Stage, Address, Size
  <2> QED BY <2>1, <2>2
<1> QED BY <1>1, <1>2 DEF Inv

(* The bank, whatever address a read of the bank switch has.               *)
LEMMA SwitchedType ==
  ASSUME bank_switch \in 0 .. 31, NEW offset
  PROVE  Switched(offset) \in 0 .. 31
<1>1. CASE offset \in \h40 .. \h7f
  <2>1. (offset - \h40) \div 2 \in 0 .. 31
    BY <1>1
  <2> QED BY <1>1, <2>1 DEF Switched
<1>2. CASE offset \notin \h40 .. \h7f
  BY <1>2 DEF Switched
<1> QED BY <1>1, <1>2

LEMMA FoundInv ==
  ASSUME Inv, NEW cell, Found(cell)
  PROVE  Inv'
<1>1. bank_switch' \in 0 .. 31 /\ alive' \in BOOLEAN
  BY SwitchedType DEF Found, Inv, TypeOK
<1>2. TypeOK'
  BY <1>1 DEF Found, Inv, TypeOK
<1>3. ASSUME NEW i \in Chain PROVE Stage(i)'
  BY DEF Found, Inv, Stage, Address, Size
<1> QED BY <1>2, <1>3 DEF Inv

LEMMA NextInv == MmuAssumption /\ Inv /\ [Next]_vars => Inv'
<1> SUFFICES ASSUME MmuAssumption, Inv, [Next]_vars PROVE Inv'
  OBVIOUS
<1>1. CASE Reset
  BY <1>1, ResetInv
<1>2. ASSUME NEW i \in Chain, NEW conf \in Confs[opt_gx][i], Configure(i, conf)
      PROVE  Inv'
  <2>1. conf \in Space
    BY DEF MmuAssumption, Inv, TypeOK
  <2> QED BY <1>2, <2>1, ConfigureInv
<1>3. ASSUME NEW i \in Chain, Unconfigure(i) PROVE Inv'
  BY <1>3, UnconfigureInv
<1>4. ASSUME NEW a \in Addrs, Fetch(a) \/ LoadData(a) PROVE Inv'
  BY <1>4, FoundInv DEF Fetch, LoadData
<1>5. CASE UNCHANGED vars
  BY <1>5 DEF vars, Inv, TypeOK, Stage, Address, Size
<1> QED BY <1>1, <1>2, <1>3, <1>4, <1>5 DEF Next

-----------------------------------------------------------------------------
(* Mmu's variables keep their types, and the bank is one of the 32, for    *)
(* every set of addresses the program uses.                                *)
THEOREM MmuTypeCorrect == Spec => []TypeOK
<1>1. Inv => TypeOK
  BY DEF Inv
<1> QED BY <1>1, InitInv, NextInv, MmuAssumption, PTL DEF Spec

(* A controller that serves addresses serves those it was given since it   *)
(* was last reset, for every program.                                      *)
THEOREM ChainIsCorrect == Spec => []ServesAsGiven
<1>1. Inv => ServesAsGiven
  BY DEF Inv, Stage, ServesAsGiven
<1> QED BY <1>1, InitInv, NextInv, MmuAssumption, PTL DEF Spec

-----------------------------------------------------------------------------
(* The RAM there is.                                                       *)
Limit == IF opt_gx THEN \h3ffff ELSE \hffff

Kinds == {"dev", "ram", "bank", "seven", "port"}

(* Windows as all those of the decoding are: of a controller, at an address *)
(* other than 0, which stands for none, and within the RAM if of the RAM.  *)
GoodWindow ==
  {w \in [ctl : Chain, at : Nat, sizes : SUBSET Space, lo : Nat, hi : Nat, kind : Kinds] :
     /\ w.at # 0
     /\ w.kind = "ram" /\ w.sizes # {} => w.at <= w.lo /\ w.hi <= w.at + Limit}

LEMMA Controllers ==
  {MMIO, SysRAM, BANK, PORT1, PORT2} \subseteq Chain
BY DEF MMIO, SysRAM, BANK, PORT1, PORT2, Chain

LEMMA AWindow ==
  ASSUME NEW ctl \in Chain, NEW at \in Nat \ {0}, NEW sizes \in SUBSET Space,
         NEW lo \in Nat, NEW hi \in Nat, NEW kind \in Kinds,
         kind = "ram" /\ sizes # {} => at <= lo /\ hi <= at + Limit
  PROVE  Window(ctl, at, sizes, lo, hi, kind) \in GoodWindow
BY SMT DEF Window, GoodWindow

LEMMA RamWindow ==
  ASSUME NEW at \in Nat \ {0}, NEW sizes \in SUBSET Space, NEW hi \in Nat,
         sizes # {} => hi <= at + Limit
  PROVE  Window(SysRAM, at, sizes, at, hi, "ram") \in GoodWindow
<1>1. SysRAM \in Chain /\ "ram" \in Kinds
  BY Controllers DEF Kinds
<1> QED BY SMT, <1>1, AWindow

LEMMA SXWindows ==
  ASSUME ~opt_gx
  PROVE  /\ ReadNibbleSX \in Seq(GoodWindow)
         /\ ReadNibbleCrcSX \in Seq(GoodWindow)
         /\ WriteNibbleSX \in Seq(GoodWindow)
<1>0. /\ {MMIO, SysRAM, PORT1, PORT2} \subseteq Chain /\ {"dev", "port"} \subseteq Kinds
      /\ AnySize \in SUBSET Space
  BY Controllers DEF Kinds, AnySize
<1>1. /\ {\hfc000} \in SUBSET Space /\ {\hfe000} \in SUBSET Space /\ {\hf0000} \in SUBSET Space
      /\ Limit = \hffff
  BY SMT, Addresses DEF Limit
<1>2. Window(MMIO, \h100, AnySize, \h100, \h13f, "dev") \in GoodWindow
  BY SMT, <1>0, AWindow
<1>3. /\ Window(SysRAM, \h70000, {\hfc000}, \h70000, \h73fff, "ram") \in GoodWindow
      /\ Window(SysRAM, \h70000, {\hfe000}, \h70000, \h71fff, "ram") \in GoodWindow
      /\ Window(SysRAM, \h70000, {\hf0000}, \h70000, \h7ffff, "ram") \in GoodWindow
      /\ Window(SysRAM, \hf0000, AnySize, \hf0000, \hfffff, "ram") \in GoodWindow
  BY SMT, <1>0, <1>1, RamWindow
<1>4. /\ Window(PORT1, \h80000, AnySize, \h80000, \hbffff, "port") \in GoodWindow
      /\ Window(PORT2, \h80000, AnySize, \h80000, \hbffff, "port") \in GoodWindow
      /\ Window(PORT1, \hc0000, AnySize, \hc0000, \hfffff, "port") \in GoodWindow
      /\ Window(PORT2, \hc0000, AnySize, \hc0000, \hfffff, "port") \in GoodWindow
  BY SMT, <1>0, AWindow
<1>5. ReadNibbleSX \in Seq(GoodWindow)
  BY SMT, <1>2, <1>3, <1>4 DEF ReadNibbleSX
<1>6. ReadNibbleCrcSX \in Seq(GoodWindow)
  BY SMT, <1>2, <1>3, <1>4 DEF ReadNibbleCrcSX
<1>7. WriteNibbleSX \in Seq(GoodWindow)
  BY SMT, <1>2, <1>3, <1>4 DEF WriteNibbleSX
<1> QED BY <1>5, <1>6, <1>7

LEMMA GXWindows ==
  ASSUME opt_gx
  PROVE  /\ ReadNibbleGX \in Seq(GoodWindow)
         /\ ReadNibbleCrcGX \in Seq(GoodWindow)
         /\ WriteNibbleGX \in Seq(GoodWindow)
<1>0. /\ MMIO \in Chain /\ SysRAM \in Chain /\ BANK \in Chain /\ PORT1 \in Chain /\ PORT2 \in Chain
      /\ Kinds = {"dev", "ram", "bank", "seven", "port"}
      /\ AnySize \in SUBSET Space
  BY Controllers DEF Kinds, AnySize
<1>1. /\ {\hfc000} \in SUBSET Space /\ {\hfe000} \in SUBSET Space
      /\ {\hf0000} \in SUBSET Space /\ {\hc0000} \in SUBSET Space
      /\ Limit = \h3ffff
  BY SMT, Addresses DEF Limit
<1>2. /\ Window(MMIO, \h100, AnySize, \h100, \h13f, "dev") \in GoodWindow
      /\ Window(BANK, \h7f000, AnySize, \h7f000, \h7ffff, "bank") \in GoodWindow
      /\ Window(PORT1, \h7e000, AnySize, \h7e000, \h7efff, "seven") \in GoodWindow
      /\ Window(PORT2, \h7e000, AnySize, \h7e000, \h7efff, "seven") \in GoodWindow
      /\ Window(MMIO, \h90000, AnySize, \h90000, \h90fff, "bank") \in GoodWindow
      /\ Window(BANK, \h90000, AnySize, \h90000, \h90fff, "bank") \in GoodWindow
  BY SMT, <1>0, AWindow
<1>3. /\ Window(SysRAM, \h40000, AnySize, \h40000, \h4ffff, "ram") \in GoodWindow
      /\ Window(SysRAM, \h80000, {\hfc000}, \h80000, \h83fff, "ram") \in GoodWindow
      /\ Window(SysRAM, \h80000, {\hfe000}, \h80000, \h81fff, "ram") \in GoodWindow
      /\ Window(SysRAM, \h80000, {\hf0000}, \h80000, \h8ffff, "ram") \in GoodWindow
      /\ Window(SysRAM, \h80000, {\hc0000}, \h80000, \hbffff, "ram") \in GoodWindow
      /\ Window(SysRAM, \hc0000, AnySize, \hc0000, \hcffff, "ram") \in GoodWindow
  BY SMT, <1>0, <1>1, RamWindow
<1>4. Window(SysRAM, \hc0000, {\hc0000}, \hd0000, \hfffff, "ram") \in GoodWindow
  BY SMT, <1>0, <1>1, AWindow
<1>5. /\ Window(PORT1, \ha0000, AnySize, \ha0000, \haffff, "port") \in GoodWindow
      /\ Window(PORT2, \hb0000, AnySize, \hb0000, \hbffff, "port") \in GoodWindow
      /\ Window(PORT1, \hc0000, AnySize, \hc0000, \hcffff, "port") \in GoodWindow
      /\ Window(PORT1, \hc0000, {\hc0000}, \hd0000, \hfffff, "port") \in GoodWindow
      /\ Window(PORT2, \hc0000, AnySize, \hc0000, \hcffff, "port") \in GoodWindow
      /\ Window(PORT2, \hc0000, {\hc0000}, \hd0000, \hfffff, "port") \in GoodWindow
  BY SMT, <1>0, <1>1, AWindow
<1>6. ReadNibbleGX \in Seq(GoodWindow)
  BY SMT, <1>2, <1>3, <1>4, <1>5 DEF ReadNibbleGX
<1>7. ReadNibbleCrcGX \in Seq(GoodWindow)
  BY SMT, <1>2, <1>3, <1>4, <1>5 DEF ReadNibbleCrcGX
<1>8. WriteNibbleGX \in Seq(GoodWindow)
  BY SMT, <1>2, <1>3, <1>4, <1>5 DEF WriteNibbleGX
<1> QED BY <1>6, <1>7, <1>8

(* The windows each kind of access goes through.                           *)
Reads  == IF opt_gx THEN ReadNibbleGX ELSE ReadNibbleSX
Crcs   == IF opt_gx THEN ReadNibbleCrcGX ELSE ReadNibbleCrcSX
Writes == IF opt_gx THEN WriteNibbleGX ELSE WriteNibbleSX

LEMMA Windows ==
  /\ Reads \in Seq(GoodWindow)
  /\ Crcs \in Seq(GoodWindow)
  /\ Writes \in Seq(GoodWindow)
<1>1. CASE opt_gx
  BY <1>1, GXWindows DEF Reads, Crcs, Writes
<1>2. CASE ~opt_gx
  BY <1>2, SXWindows DEF Reads, Crcs, Writes
<1> QED BY <1>1, <1>2

-----------------------------------------------------------------------------
(* The first of the windows that serve an address.                         *)
LEMMA FirstOfSome ==
  ASSUME NEW S \in SUBSET Nat, S # {}
  PROVE  FirstOf(S) \in S /\ \A n \in S : FirstOf(S) <= n
<1>1. \E n \in S : \A m \in S : n <= m
  BY LeastOfNats
<1> QED BY <1>1 DEF FirstOf

LEMMA FirstIsServing ==
  ASSUME NEW S, NEW windows \in Seq(S), NEW a, NEW otherwise,
         NEW k \in DOMAIN windows, Serves(windows[k], a)
  PROVE  \E n \in DOMAIN windows :
           /\ Serves(windows[n], a)
           /\ \A m \in DOMAIN windows : Serves(windows[m], a) => n <= m
           /\ Decode(windows, a, otherwise) = <<windows[n].kind, a - windows[n].at>>
<1> DEFINE serving == {n \in DOMAIN windows : Serves(windows[n], a)}
<1>1. serving \in SUBSET Nat /\ serving # {}
  OBVIOUS
<1>2. /\ FirstOf(serving) \in serving
      /\ \A n \in serving : FirstOf(serving) <= n
  BY <1>1, FirstOfSome
<1>3. Decode(windows, a, otherwise) =
        <<windows[FirstOf(serving)].kind, a - windows[FirstOf(serving)].at>>
  BY <1>1 DEF Decode
<1> QED BY <1>2, <1>3

LEMMA NoneIsServing ==
  ASSUME NEW windows, NEW a, NEW otherwise,
         \A k \in DOMAIN windows : ~Serves(windows[k], a)
  PROVE  Decode(windows, a, otherwise) = otherwise
BY DEF Decode

(* The first window that serves is the one decoded.                        *)
LEMMA DecodedFirst ==
  ASSUME NEW S, NEW windows \in Seq(S), NEW a, NEW otherwise,
         NEW n \in DOMAIN windows, Serves(windows[n], a),
         \A m \in DOMAIN windows : Serves(windows[m], a) => n <= m
  PROVE  Decode(windows, a, otherwise) = <<windows[n].kind, a - windows[n].at>>
<1>1. PICK k \in DOMAIN windows :
           /\ Serves(windows[k], a)
           /\ \A m \in DOMAIN windows : Serves(windows[m], a) => k <= m
           /\ Decode(windows, a, otherwise) = <<windows[k].kind, a - windows[k].at>>
  BY FirstIsServing
<1>2. k <= n /\ n <= k /\ k \in Nat /\ n \in Nat
  BY <1>1
<1>3. k = n
  BY <1>2
<1> QED BY <1>1, <1>3

LEMMA DecodeWithinRam ==
  ASSUME NEW windows \in Seq(GoodWindow), NEW a \in Nat, NEW otherwise,
         otherwise[1] # "ram", Decode(windows, a, otherwise)[1] = "ram"
  PROVE  Decode(windows, a, otherwise)[2] \in 0 .. Limit
<1>1. PICK k \in DOMAIN windows : Serves(windows[k], a)
  BY NoneIsServing
<1>2. PICK n \in DOMAIN windows :
           /\ Serves(windows[n], a)
           /\ Decode(windows, a, otherwise) = <<windows[n].kind, a - windows[n].at>>
  BY <1>1, FirstIsServing
<1> DEFINE w == windows[n]
<1>3. w \in GoodWindow /\ w.kind = "ram"
  BY <1>2
<1>4. a \in w.lo .. w.hi /\ w.sizes # {}
  BY <1>2 DEF Serves
<1>5. w.at <= w.lo /\ w.hi <= w.at + Limit /\ w.at \in Nat /\ w.lo \in Nat /\ w.hi \in Nat
  BY <1>3, <1>4 DEF GoodWindow
<1> HIDE DEF w
<1>6. Limit \in Nat
  BY SMT DEF Limit
<1>7. a - w.at \in 0 .. Limit
  BY <1>4, <1>5, <1>6
<1> QED BY <1>2, <1>7 DEF w

LEMMA RamFits == MmuAssumption => WithinRam
<1> SUFFICES ASSUME MmuAssumption, NEW a \in Addrs
             PROVE  /\ ReadCell(a)[1] = "ram" => ReadCell(a)[2] \in 0 .. Limit
                    /\ CrcCell(a)[1] = "ram" => CrcCell(a)[2] \in 0 .. Limit
                    /\ WriteCell(a)[1] = "ram" => WriteCell(a)[2] \in 0 .. Limit
  BY DEF WithinRam, Limit
<1>1. a \in Nat
  BY SMT, MmuAssumption, Addresses DEF MmuAssumption
<1>2. Elsewhere(a)[1] # "ram" /\ ElsewhereCrc(a)[1] # "ram" /\ Lost[1] # "ram"
  BY SMT DEF Elsewhere, ElsewhereCrc, Lost
<1>3. ReadCell(a) = Decode(Reads, a, Elsewhere(a))
  BY DEF ReadCell, Reads
<1>4. CrcCell(a) = Decode(Crcs, a, ElsewhereCrc(a))
  BY DEF CrcCell, Crcs
<1>5. WriteCell(a)[1] = "ram" => WriteCell(a) = Decode(Writes, a, Lost)
  BY <1>2 DEF WriteCell, Writes, StoredAt
<1> QED BY <1>1, <1>2, <1>3, <1>4, <1>5, Windows, DecodeWithinRam

-----------------------------------------------------------------------------
(* What each kind of access finds, wherever two lists of windows serve the *)
(* address by equal windows: the same.                                     *)
LEMMA SameDecoded ==
  ASSUME NEW S, NEW f \in Seq(S), NEW g \in Seq(S), NEW a, NEW otherwise,
         DOMAIN f = DOMAIN g,
         \A n \in DOMAIN g : Serves(f[n], a) <=> Serves(g[n], a),
         \A n \in DOMAIN g : Serves(g[n], a) => f[n].kind = g[n].kind /\ f[n].at = g[n].at
  PROVE  Decode(f, a, otherwise) = Decode(g, a, otherwise)
<1>1. CASE \A n \in DOMAIN g : ~Serves(g[n], a)
  <2>1. \A n \in DOMAIN f : ~Serves(f[n], a)
    BY <1>1
  <2> QED BY <1>1, <2>1, NoneIsServing
<1>2. ASSUME NEW k \in DOMAIN g, Serves(g[k], a)
      PROVE  Decode(f, a, otherwise) = Decode(g, a, otherwise)
  <2>1. PICK n \in DOMAIN g :
          /\ Serves(g[n], a)
          /\ \A m \in DOMAIN g : Serves(g[m], a) => n <= m
          /\ Decode(g, a, otherwise) = <<g[n].kind, a - g[n].at>>
    BY <1>2, FirstIsServing
  <2>2. /\ n \in DOMAIN f /\ Serves(f[n], a)
        /\ \A m \in DOMAIN f : Serves(f[m], a) => n <= m
    BY <2>1
  <2>3. Decode(f, a, otherwise) = <<f[n].kind, a - f[n].at>>
    BY <2>2, DecodedFirst
  <2>4. f[n].kind = g[n].kind /\ f[n].at = g[n].at
    BY <2>1
  <2> QED BY <2>1, <2>3, <2>4
<1> QED BY <1>1, <1>2

(* The copies of the SX have the same windows, and so have the two that    *)
(* read on a GX.                                                           *)
LEMMA CopiesAgree ==
  /\ ReadNibbleSX = WriteNibbleSX
  /\ ReadNibbleCrcSX = ReadNibbleSX
  /\ ReadNibbleCrcGX = ReadNibbleGX
<1>1. ReadNibbleSX = WriteNibbleSX
  BY DEF ReadNibbleSX, WriteNibbleSX
<1>2. ReadNibbleCrcSX = ReadNibbleSX
  BY DEF ReadNibbleSX, ReadNibbleCrcSX
<1>3. ReadNibbleCrcGX = ReadNibbleGX
  BY DEF ReadNibbleGX, ReadNibbleCrcGX
<1> QED BY <1>1, <1>2, <1>3

(* Reads and writes of a GX look for the bank switch at 90000 by different *)
(* controllers, and do everything else alike.                              *)
LEMMA OneBankerApart ==
  /\ DOMAIN ReadNibbleGX = 1 .. 18 /\ DOMAIN WriteNibbleGX = 1 .. 18
  /\ \A n \in 1 .. 18 : n # 6 => ReadNibbleGX[n] = WriteNibbleGX[n]
  /\ ReadNibbleGX[6] = Window(MMIO, \h90000, AnySize, \h90000, \h90fff, "bank")
  /\ WriteNibbleGX[6] = Window(BANK, \h90000, AnySize, \h90000, \h90fff, "bank")
<1>1. Len(ReadNibbleGX) = 18 /\ DOMAIN ReadNibbleGX = 1 .. 18
  BY SMT DEF ReadNibbleGX
<1>2. Len(WriteNibbleGX) = 18 /\ DOMAIN WriteNibbleGX = 1 .. 18
  BY SMT DEF WriteNibbleGX
<1>3. \A n \in 1 .. 18 : n # 6 => ReadNibbleGX[n] = WriteNibbleGX[n]
  BY SMT DEF ReadNibbleGX, WriteNibbleGX
<1>4. ReadNibbleGX[6] = Window(MMIO, \h90000, AnySize, \h90000, \h90fff, "bank")
  BY SMT DEF ReadNibbleGX
<1>5. WriteNibbleGX[6] = Window(BANK, \h90000, AnySize, \h90000, \h90fff, "bank")
  BY SMT DEF WriteNibbleGX
<1> QED BY <1>1, <1>2, <1>3, <1>4, <1>5

(* Where nothing serves there is nothing a write could store to.           *)
LEMMA NothingStoredElsewhere ==
  ASSUME NEW S, NEW windows \in Seq(S), NEW a
  PROVE  StoredAt(Decode(windows, a, Elsewhere(a))) = StoredAt(Decode(windows, a, Lost))
<1>1. CASE \A n \in DOMAIN windows : ~Serves(windows[n], a)
  <2>1. Decode(windows, a, Elsewhere(a)) = Elsewhere(a) /\ Decode(windows, a, Lost) = Lost
    BY <1>1, NoneIsServing
  <2>2. StoredAt(Elsewhere(a)) = Lost /\ StoredAt(Lost) = Lost
    BY SMT DEF StoredAt, Elsewhere, Lost
  <2> QED BY <2>1, <2>2
<1>2. ASSUME NEW k \in DOMAIN windows, Serves(windows[k], a)
      PROVE  Decode(windows, a, Elsewhere(a)) = Decode(windows, a, Lost)
  <2>1. PICK n \in DOMAIN windows :
          /\ Serves(windows[n], a)
          /\ \A m \in DOMAIN windows : Serves(windows[m], a) => n <= m
          /\ Decode(windows, a, Lost) = <<windows[n].kind, a - windows[n].at>>
    BY <1>2, FirstIsServing
  <2>2. Decode(windows, a, Elsewhere(a)) = <<windows[n].kind, a - windows[n].at>>
    BY <2>1, DecodedFirst
  <2> QED BY <2>1, <2>2
<1> QED BY <1>1, <1>2

(* Where reads and writes know the bank switch at 90000 alike.             *)
BankersAgree(a) ==
  \/ ~opt_gx
  \/ a \notin \h90000 .. \h90fff
  \/ (Address(MMIO) = \h90000) <=> (Address(BANK) = \h90000)

LEMMA ServedAlike ==
  ASSUME Inv, NEW a, BankersAgree(a), NEW otherwise
  PROVE  Decode(Reads, a, otherwise) = Decode(Writes, a, otherwise)
<1>1. CASE ~opt_gx
  BY <1>1, CopiesAgree DEF Reads, Writes
<1>2. CASE opt_gx
  <2> DEFINE f == ReadNibbleGX
             g == WriteNibbleGX
             r == Window(MMIO, \h90000, AnySize, \h90000, \h90fff, "bank")
             w == Window(BANK, \h90000, AnySize, \h90000, \h90fff, "bank")
  <2>1. Size(MMIO) \in AnySize /\ Size(BANK) \in AnySize
    BY DEF Inv, TypeOK, Size, AnySize, MMIO, BANK, Chain
  <2>2. /\ r.ctl = MMIO /\ r.at = \h90000 /\ r.sizes = AnySize
        /\ r.lo = \h90000 /\ r.hi = \h90fff /\ r.kind = "bank"
        /\ w.ctl = BANK /\ w.at = \h90000 /\ w.sizes = AnySize
        /\ w.lo = \h90000 /\ w.hi = \h90fff /\ w.kind = "bank"
    BY SMT DEF Window
  <2> HIDE DEF r, w
  <2>3. Serves(r, a) <=> a \in \h90000 .. \h90fff /\ Address(MMIO) = \h90000
    <3> DEFINE range == \h90000 .. \h90fff
    <3>1. r.lo .. r.hi = range
      BY SMT, <2>2
    <3> HIDE DEF range
    <3> QED BY SMT, <2>1, <2>2, <3>1 DEF Serves, range
  <2>4. Serves(w, a) <=> a \in \h90000 .. \h90fff /\ Address(BANK) = \h90000
    <3> DEFINE range == \h90000 .. \h90fff
    <3>1. w.lo .. w.hi = range
      BY SMT, <2>2
    <3> HIDE DEF range
    <3> QED BY SMT, <2>1, <2>2, <3>1 DEF Serves, range
  <2>5. /\ Serves(r, a) <=> Serves(w, a)
        /\ r.kind = w.kind /\ r.at = w.at
    BY SMT, <1>2, <2>2, <2>3, <2>4 DEF BankersAgree
  <2>6. f \in Seq(GoodWindow) /\ g \in Seq(GoodWindow)
    BY <1>2, GXWindows
  <2>7. /\ DOMAIN f = DOMAIN g /\ f[6] = r /\ g[6] = w
        /\ \A n \in DOMAIN g : n # 6 => f[n] = g[n]
    BY SMT, OneBankerApart DEF r, w
  <2> HIDE DEF f, g
  <2>8. \A n \in DOMAIN g :
          /\ Serves(f[n], a) <=> Serves(g[n], a)
          /\ f[n].kind = g[n].kind /\ f[n].at = g[n].at
    BY Zenon, <2>5, <2>7
  <2>9. Decode(f, a, otherwise) = Decode(g, a, otherwise)
    BY SMT, <2>6, <2>7, <2>8, SameDecoded
  <2> QED BY <1>2, <2>9 DEF f, g, Reads, Writes
<1> QED BY <1>1, <1>2

LEMMA WritesAreReadBack == Inv => ReadBackWhatIsWritten
<1> SUFFICES ASSUME Inv, NEW a \in Addrs
             PROVE  /\ CrcCell(a) = ReadCell(a)
                    /\ BankersAgree(a) => WriteCell(a) = StoredAt(ReadCell(a))
  BY SMT DEF ReadBackWhatIsWritten, BankersAgree
<1>1. ReadCell(a) = Decode(Reads, a, Elsewhere(a))
  BY DEF ReadCell, Reads
<1>2. CrcCell(a) = Decode(Crcs, a, ElsewhereCrc(a))
  BY DEF CrcCell, Crcs
<1>3. WriteCell(a) = StoredAt(Decode(Writes, a, Lost))
  BY DEF WriteCell, Writes
<1>4. CrcCell(a) = ReadCell(a)
  <2>1. Crcs = Reads
    BY CopiesAgree DEF Crcs, Reads
  <2>2. ElsewhereCrc(a) = Elsewhere(a)
    BY DEF Elsewhere, ElsewhereCrc
  <2> QED BY <1>1, <1>2, <2>1, <2>2
<1>5. ASSUME BankersAgree(a) PROVE WriteCell(a) = StoredAt(ReadCell(a))
  <2>1. Decode(Reads, a, Lost) = Decode(Writes, a, Lost)
    BY <1>5, ServedAlike
  <2>2. StoredAt(Decode(Reads, a, Elsewhere(a))) = StoredAt(Decode(Reads, a, Lost))
    BY Windows, NothingStoredElsewhere
  <2> QED BY <1>1, <1>3, <2>1, <2>2
<1> QED BY <1>4, <1>5

-----------------------------------------------------------------------------
(* A read finds the same cell as long as every window serves the same.     *)
LEMMA SameServing ==
  ASSUME NEW windows, NEW a, NEW otherwise,
         \A n \in DOMAIN windows : Serves(windows[n], a)' <=> Serves(windows[n], a)
  PROVE  Decode(windows, a, otherwise)' = Decode(windows, a, otherwise)
<1>1. PICK S : S = {n \in DOMAIN windows : Serves(windows[n], a)}
  OBVIOUS
<1>2. S = {n \in DOMAIN windows : Serves(windows[n], a)'}
  BY <1>1
<1> DEFINE cell == IF S = {} THEN otherwise
                   ELSE <<windows[FirstOf(S)].kind, a - windows[FirstOf(S)].at>>
<1>3. Decode(windows, a, otherwise) = cell
  BY <1>1 DEF Decode
<1>4. Decode(windows, a, otherwise)' = cell
  BY <1>2 DEF Decode
<1> QED BY <1>3, <1>4

(* The controller that tells its identification, and waits for its size.   *)
LEMMA IdentifiedWaitsForSize ==
  ASSUME Inv, Identification \in {5, 7, 1}, NEW i \in Chain, NEW conf, Configure(i, conf)
  PROVE  mem_cntl[i].unconfigured = 2
<1>1. i \in Waiting /\ \A j \in Waiting : i <= j
  BY DEF Configure
<1>2. FirstOf(Waiting) = i
  <2>1. Waiting \in SUBSET Nat /\ Waiting # {}
    BY <1>1 DEF Waiting, Chain
  <2>2. FirstOf(Waiting) \in Waiting /\ \A n \in Waiting : FirstOf(Waiting) <= n
    BY <2>1, FirstOfSome
  <2>3. PICK f \in Nat : f = FirstOf(Waiting)
    BY <2>1, <2>2
  <2>4. f <= i /\ i <= f /\ i \in Nat
    BY <1>1, <2>1, <2>2, <2>3
  <2> QED BY <2>3, <2>4
<1>3. Identification = chip_id[i + 1][3 - mem_cntl[i].unconfigured]
  BY <1>1, <1>2 DEF Identification
<1>4. mem_cntl[i].unconfigured \in {1, 2}
  BY <1>1 DEF Inv, TypeOK, Waiting
<1>5. ASSUME mem_cntl[i].unconfigured = 1
      PROVE  FALSE
  <2>1. Identification = chip_id[i + 1][2]
    BY <1>3, <1>5
  <2>2. i \in {0, 1, 2, 3, 4, 5}
    BY DEF Chain
  <2> QED BY <2>1, <2>2 DEF chip_id
<1> QED BY <1>4, <1>5

LEMMA SizeStep ==
  ASSUME MmuAssumption, Inv, Next, Identification \in {5, 7, 1},
         NEW k \in Chain, Len(given'[k]) > Len(given[k]), NEW a \in Addrs
  PROVE  ReadCell(a)' = ReadCell(a)
<1>1. ~Reset
  <2>1. Len(<<>>) = 0 /\ Len(given[k]) \in Nat
    BY DEF Inv, TypeOK
  <2> QED BY <2>1 DEF Reset
<1>2. ~ \E i \in Chain : Unconfigure(i)
  <2>1. Len(<<>>) = 0 /\ Len(given[k]) \in Nat
    BY DEF Inv, TypeOK
  <2> QED BY SMTT(20), <2>1 DEF Unconfigure, Inv, TypeOK
<1>3. ~ \E b \in Addrs : Fetch(b) \/ LoadData(b)
  <2>1. Len(given[k]) \in Nat
    BY DEF Inv, TypeOK
  <2> QED BY <2>1 DEF Fetch, LoadData, Found
<1>4. PICK i \in Chain : \E conf \in Confs[opt_gx][i] : Configure(i, conf)
  BY <1>1, <1>2, <1>3 DEF Next
<1>5. PICK conf \in Confs[opt_gx][i] : Configure(i, conf)
  BY <1>4
<1>6. mem_cntl[i].unconfigured = 2
  BY <1>5, IdentifiedWaitsForSize
<1>7. /\ opt_gx' = opt_gx
      /\ mem_cntl[i].config \in Space \X Space
      /\ mem_cntl' = [mem_cntl EXCEPT ![i].unconfigured = @ - 1, ![i].config[2] = conf]
      /\ mem_cntl \in [Chain -> [unconfigured : 0 .. 2, config : Space \X Space]]
  BY <1>5, <1>6 DEF Configure, Slot, Inv, TypeOK
<1>8. Address(i) = 0
  BY <1>6 DEF Inv, Stage
<1>9. Address(i)' = 0
  <2>1. mem_cntl'[i].config = [mem_cntl[i].config EXCEPT ![2] = conf]
    BY <1>7
  <2> QED BY <1>7, <1>8, <2>1 DEF Address
<1>10. \A j \in Chain : j # i => mem_cntl'[j] = mem_cntl[j]
  BY <1>7
<1>11. PICK windows : windows = Reads
  OBVIOUS
<1>12. windows = Reads'
  <2>1. opt_gx' = opt_gx
    BY <1>7
  <2>2. ReadNibbleSX' = ReadNibbleSX
    BY SMT, <2>1 DEF ReadNibbleSX, Window, PORT1, PORT2, MMIO, SysRAM, AnySize
  <2>3. ReadNibbleGX' = ReadNibbleGX
    BY SMT, <2>1 DEF ReadNibbleGX, Window, PORT1, PORT2, MMIO, BANK, SysRAM, AnySize
  <2> QED BY SMT, <1>11, <2>1, <2>2, <2>3 DEF Reads
<1>13. windows \in Seq(GoodWindow)
  BY <1>11, Windows
<1>14. ASSUME NEW n \in DOMAIN windows
       PROVE  Serves(windows[n], a)' <=> Serves(windows[n], a)
  <2>1. windows[n].ctl \in Chain /\ windows[n].at # 0
    BY <1>13 DEF GoodWindow
  <2>2. CASE windows[n].ctl = i
    BY <1>8, <1>9, <2>1, <2>2 DEF Serves
  <2>3. CASE windows[n].ctl # i
    BY <1>10, <2>1, <2>3 DEF Serves, Address, Size
  <2> QED BY <2>2, <2>3
<1>15. PICK otherwise : otherwise = Elsewhere(a)
  OBVIOUS
<1>16. Elsewhere(a)' = otherwise
  BY SMT, <1>7, <1>15 DEF Elsewhere
<1>17. ReadCell(a) = Decode(windows, a, otherwise)
  BY <1>11, <1>15 DEF ReadCell, Reads
<1>18. ReadCell(a)' = Decode(windows, a, otherwise)'
  BY <1>12, <1>16 DEF ReadCell, Reads
<1> QED BY <1>14, <1>17, <1>18, SameServing

-----------------------------------------------------------------------------
(* No access of the program goes beyond the RAM there is, at whatever      *)
(* addresses and with whatever sizes the controllers are configured: each  *)
(* of the windows of memory.c fits.                                        *)
THEOREM RamIsLargeEnough == Spec => []WithinRam
BY MmuAssumption, RamFits, PTL DEF Spec

(* The three copies of the decoding agree on every address for every       *)
(* program, except for writes to the bank switch at 90000 that only one of *)
(* the two controllers makes one.                                          *)
THEOREM ReadsAgreeWithWrites == Spec => []ReadBackWhatIsWritten
BY InitInv, NextInv, MmuAssumption, WritesAreReadBack, PTL DEF Spec

(* A CONFIG after a C=ID that told of a controller waiting for its size    *)
(* moves no address: that controller has no address before or after.       *)
THEOREM SizeIsHarmless == Spec => SizeMovesNothing
<1>1. MmuAssumption /\ Inv /\ [Next]_vars =>
        [ /\ Identification \in {5, 7, 1}
          /\ \E i \in Chain : Len(given'[i]) > Len(given[i])
          => \A a \in Addrs : ReadCell(a)' = ReadCell(a) ]_vars
  BY SizeStep
<1> QED BY <1>1, InitInv, NextInv, MmuAssumption, PTL DEF Spec, SizeMovesNothing
=============================================================================
