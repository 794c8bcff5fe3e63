---------------------------- MODULE RegisterOps ----------------------------
(***************************************************************************)
(* The operations of register.c on a field of the CPU's working registers. *)
(* A register is a function from its sixteen nibble positions, 0 the least *)
(* significant, to nibbles.  An operation takes the first and last         *)
(* position of the field, s and e, and the base of the arithmetic,         *)
(* saturn.hexmode (10 or 16); one that can set saturn.CARRY returns a      *)
(* record with the register's new value and the carry.                     *)
(***************************************************************************)
EXTENDS Integers, Sequences

Positions == 0 .. 15
Nibble    == 0 .. 15
Word      == [Positions -> Nibble]

(* The first and last position of each field code; -1 stands for the       *)
(* pointer P.                                                              *)
start_fields == <<-1,  0, 2, 0, 15,  3, 0,  0, -1,  0, 2, 0, 15,  3, 0, 0, 0, 0, 0>>
end_fields   == <<-1, -1, 2, 2, 15, 14, 1, 15, -1, -1, 2, 2, 15, 14, 1, 4, 3, 2, 0>>

(* Mutant: the mantissa reaches into the sign.                             *)
get_end_M15(code, p) ==
  IF end_fields[code + 1] = -1 THEN p ELSE IF code = 5 THEN 15 ELSE end_fields[code + 1]

get_start(code, p) == IF start_fields[code + 1] = -1 THEN p ELSE start_fields[code + 1]
get_end(code, p)   == IF end_fields[code + 1] = -1 THEN p ELSE end_fields[code + 1]

W_FIELD  == 7
A_FIELD  == 15

-----------------------------------------------------------------------------
(* The loop the arithmetic operations share, from position s with the      *)
(* carry c0.  To the nibble a[i] of a position it adds the carry, or takes *)
(* it away when sign is -1; what does not fit is brought back by the base  *)
(* and carries one into the next position.  When the loop breaks, it is    *)
(* left at the first position that carries nothing on, and the positions   *)
(* above keep their nibble whatever it is.                                 *)
Overflows(t, sign, base) == IF sign = 1 THEN t >= base ELSE t < 0

Carry(a, s, c0, sign, base, breaks, i) ==
  LET carry[k \in 0 .. 16] ==
        IF k <= s THEN c0
        ELSE LET c == carry[k - 1]
             IN IF (breaks => c # 0) /\ Overflows(a[k - 1] + sign * c, sign, base)
                THEN 1 ELSE 0
  IN carry[i]

(* What is left in a nibble.                                               *)
Brought(t, sign, base) == (IF Overflows(t, sign, base) THEN t - sign * base ELSE t) % 16

Loop(w, a, s, e, c0, sign, base, breaks) ==
  LET C(i) == Carry(a, s, c0, sign, base, breaks, i)
  IN [value |-> [i \in Positions |->
                   IF i \in s .. e /\ (breaks => C(i) # 0)
                   THEN Brought(a[i] + sign * C(i), sign, base) ELSE w[i]],
      carry |-> C(e + 1)]

Sums(r1, r2)         == [i \in Positions |-> r1[i] + r2[i]]
Differences(r1, r2)  == [i \in Positions |-> r1[i] - r2[i]]
Complements(w, base) == [i \in Positions |-> base - 1 - w[i]]

(* Mutant: a sum is hexadecimal in decimal mode too.                       *)
add_register_hex(w, r1, r2, s, e, base) == Loop(w, Sums(r1, r2), s, e, 0, 1, 16, FALSE)

add_register(w, r1, r2, s, e, base) == Loop(w, Sums(r1, r2), s, e, 0, 1, base, FALSE)

(* Mutant: a borrow is always worth sixteen.                               *)
sub_register_hex(w, r1, r2, s, e, base) ==
  Loop(w, Differences(r1, r2), s, e, 0, -1, 16, FALSE)

sub_register(w, r1, r2, s, e, base) ==
  Loop(w, Differences(r1, r2), s, e, 0, -1, base, FALSE)

inc_register(w, s, e, base) == Loop(w, w, s, e, 1, 1, base, TRUE)

(* Mutant: a borrow always yields fifteen.                                 *)
dec_register_hex(w, s, e, base) == Loop(w, w, s, e, 1, -1, 16, TRUE)

dec_register(w, s, e, base) == Loop(w, w, s, e, 1, -1, base, TRUE)

(* Adding and subtracting a constant of 1 to 16 is hexadecimal in both     *)
(* modes.                                                                  *)
add_register_constant(w, s, e, val) == Loop(w, w, s, e, val, 1, 16, TRUE)

sub_register_constant(w, s, e, val) == Loop(w, w, s, e, val, -1, 16, TRUE)

(* C+P+1 always works on the five nibbles of the address field, in base    *)
(* sixteen.                                                                *)
add_p_plus_one(w, p) == Loop(w, w, 0, 4, p + 1, 1, 16, FALSE)

complement_2_register(w, s, e, base) ==
  LET r == Loop(w, Complements(w, base), s, e, 1, 1, base, FALSE)
  IN [value |-> r.value,
      carry |-> IF \E i \in s .. e : r.value[i] # 0 THEN 1 ELSE 0]

complement_1_register(w, s, e, base) ==
  [value |-> [i \in Positions |-> IF i \in s .. e THEN (base - 1 - w[i]) % 16 ELSE w[i]],
   carry |-> 0]

-----------------------------------------------------------------------------
(* The operations that leave CARRY alone.                                  *)
zero_register(w, s, e) == [i \in Positions |-> IF i \in s .. e THEN 0 ELSE w[i]]

copy_register(to, from, s, e) == [i \in Positions |-> IF i \in s .. e THEN from[i] ELSE to[i]]

Bit(n, k) == (n \div 2^k) % 2

NibbleOf(Op(_, _), m, n) ==
  LET b(k) == IF Op(Bit(m, k) = 1, Bit(n, k) = 1) THEN 2^k ELSE 0
  IN b(0) + b(1) + b(2) + b(3)

or_register(w, r1, r2, s, e) ==
  [i \in Positions |-> IF i \in s .. e
                       THEN NibbleOf(LAMBDA x, y : x \/ y, r1[i], r2[i]) ELSE w[i]]

and_register(w, r1, r2, s, e) ==
  [i \in Positions |-> IF i \in s .. e
                       THEN NibbleOf(LAMBDA x, y : x /\ y, r1[i], r2[i]) ELSE w[i]]

(* A shift by one nibble, and the nibble that falls out; the circular ones *)
(* bring it in at the other end.                                           *)
shift_left_register(w, s, e) ==
  [i \in Positions |-> IF i = s THEN 0 ELSE IF i \in s + 1 .. e THEN w[i - 1] ELSE w[i]]

shift_left_circ_register(w, s, e) ==
  [i \in Positions |-> IF i = s THEN w[e] ELSE IF i \in s + 1 .. e THEN w[i - 1] ELSE w[i]]

shift_right_register(w, s, e) ==
  [i \in Positions |-> IF i = e THEN 0 ELSE IF i \in s .. e - 1 THEN w[i + 1] ELSE w[i]]

shift_right_circ_register(w, s, e) ==
  [i \in Positions |-> IF i = e THEN w[s] ELSE IF i \in s .. e - 1 THEN w[i + 1] ELSE w[i]]

(* Mutant: the bit shifted out of a nibble does not enter the next.        *)
shift_right_bit_drops(w, s, e) ==
  [i \in Positions |-> IF i \in s .. e THEN w[i] \div 2 ELSE w[i]]

shift_right_bit_register(w, s, e) ==
  LET FromAbove(i) == IF i = e THEN 0 ELSE w[i + 1] % 2
  IN [i \in Positions |-> IF i \in s .. e THEN w[i] \div 2 + 8 * FromAbove(i) ELSE w[i]]

-----------------------------------------------------------------------------
(* The tests.  The orderings scan down from the last position, and the     *)
(* first nibbles that differ decide.                                       *)
is_zero_register(w, s, e) == \A i \in s .. e : w[i] = 0

is_equal_register(r1, r2, s, e) == \A i \in s .. e : r1[i] = r2[i]

(* Mutant: the scan starts at the least significant nibble.                *)
is_less_from_below(r1, r2, s, e) ==
  \E i \in s .. e : r1[i] < r2[i] /\ \A j \in s .. i - 1 : r1[j] = r2[j]

is_less_register(r1, r2, s, e) ==
  \E i \in s .. e : r1[i] < r2[i] /\ \A j \in i + 1 .. e : r1[j] = r2[j]

is_less_or_equal_register(r1, r2, s, e) ==
  is_less_register(r1, r2, s, e) \/ is_equal_register(r1, r2, s, e)

is_greater_register(r1, r2, s, e) ==
  \E i \in s .. e : r1[i] > r2[i] /\ \A j \in i + 1 .. e : r1[j] = r2[j]

is_greater_or_equal_register(r1, r2, s, e) ==
  is_greater_register(r1, r2, s, e) \/ is_equal_register(r1, r2, s, e)
-----------------------------------------------------------------------------
(* The number the positions s to e of a register stand for.                *)
Number(w, s, e, base) ==
  LET n[i \in 0 .. e + 1] == IF i = e + 1 THEN 0 ELSE w[i] + base * n[i + 1] IN n[s]

(* Registers and the data pointers D0 and D1, numbers of twenty bits.      *)
dat_to_addr(w) == Number(w, 0, 4, 16)

register_to_address(dat, w, n) == (dat \div 16^n) * 16^n + Number(w, 0, n - 1, 16)

address_to_register(w, dat, n) ==
  [i \in Positions |-> IF i < n THEN (dat \div 16^i) % 16 ELSE w[i]]

add_address(dat, n) == [value |-> (dat + n) % 2^20,
                        carry |-> IF dat + n \in 0 .. 2^20 - 1 THEN 0 ELSE 1]

(* A constant in the code is loaded from position P upwards and wraps.     *)
load_constant(w, digits, p) ==
  [i \in Positions |-> LET k == (i - p) % 16
                       IN IF k < Len(digits) THEN digits[k + 1] ELSE w[i]]

(* The twelve low status bits and the three low nibbles of a register.     *)
register_to_status(pstat, w) ==
  [i \in Positions |-> IF i < 12 THEN Bit(w[i \div 4], i % 4) ELSE pstat[i]]

status_to_register(w, pstat) ==
  [i \in Positions |-> IF i < 3 THEN Number([k \in 0 .. 3 |-> pstat[4 * i + k]], 0, 3, 2)
                                ELSE w[i]]

set_register_bit(w, n) == [w EXCEPT ![n \div 4] = NibbleOf(LAMBDA x, y : x \/ y, @, 2^(n % 4))]

clear_register_bit(w, n) ==
  [w EXCEPT ![n \div 4] = NibbleOf(LAMBDA x, y : x /\ ~y, @, 2^(n % 4))]

get_register_bit(w, n) == Bit(w[n \div 4], n % 4)
=============================================================================
