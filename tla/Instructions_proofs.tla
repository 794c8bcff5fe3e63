------------------------ MODULE Instructions_proofs ------------------------
(***************************************************************************)
(* Proofs about the instructions of the CPU: what those on data leave in   *)
(* the registers (module Registers), and that the debugger lists every     *)
(* instruction as it is executed (module Decode).  The two systems share   *)
(* the tables of fields and nothing that changes.                          *)
(***************************************************************************)
EXTENDS Registers, Decode, TLAPS

Bounds == 0 .. 16   \* the positions, and the one after the last

Regs == Working \cup Scratch

(* Every register keeps sixteen nibbles, the pointer P a nibble and every  *)
(* status bit a bit, whatever digits an operation meets in either mode.    *)
RegisterTypes ==
  /\ reg \in [Regs -> Word]
  /\ D0 \in Int
  /\ P \in Nibble
  /\ hexmode \in {DEC, HEX}
  /\ CARRY \in {0, 1}
  /\ PSTAT \in [Positions -> {0, 1}]

-----------------------------------------------------------------------------
(* What the loop of the arithmetic is used with: it adds or takes away, in *)
(* the two modes.                                                          *)
Signs   == {1, -1}
Radices == {10, 16}

(* Induction over the positions of a register, one after the other, on the *)
(* set of those for which something holds.                                 *)
LEMMA Upwards ==
  ASSUME NEW Q, 0 \in Q, \A i \in Positions : i \in Q => i + 1 \in Q
  PROVE  Bounds \subseteq Q
<1>1. \A i \in Positions : i \in Q => i + 1 \in Q
  OBVIOUS
<1>2. 1 \in Q /\ 2 \in Q /\ 3 \in Q /\ 4 \in Q
  BY <1>1 DEF Positions
<1>3. 5 \in Q /\ 6 \in Q /\ 7 \in Q /\ 8 \in Q
  BY <1>1, <1>2 DEF Positions
<1>4. 9 \in Q /\ 10 \in Q /\ 11 \in Q /\ 12 \in Q
  BY <1>1, <1>3 DEF Positions
<1>5. 13 \in Q /\ 14 \in Q /\ 15 \in Q /\ 16 \in Q
  BY <1>1, <1>4 DEF Positions
<1> QED BY <1>2, <1>3, <1>4, <1>5 DEF Bounds

LEMMA Downwards ==
  ASSUME NEW e \in Positions, NEW Q, e + 1 \in Q,
         \A i \in 0 .. e : i + 1 \in Q => i \in Q
  PROVE  0 .. e + 1 \subseteq Q
<1> DEFINE R == {i \in Bounds : i <= e + 1 => e + 1 - i \in Q}
<1>1. 0 \in R
  BY DEF Bounds, Positions
<1>2. ASSUME NEW i \in Positions, i \in R PROVE i + 1 \in R
  <2>1. CASE i + 1 <= e + 1
    <3>1. e - i \in 0 .. e /\ (e - i) + 1 = e + 1 - i /\ e + 1 - (i + 1) = e - i
      BY <2>1 DEF Positions
    <3> QED BY <1>2, <2>1, <3>1 DEF Bounds, Positions
  <2>2. CASE ~(i + 1 <= e + 1)
    BY <2>2 DEF Bounds, Positions
  <2> QED BY <2>1, <2>2
<1>3. Bounds \subseteq R
  <2> HIDE DEF R
  <2> QED BY <1>1, <1>2, Upwards
<1>4. ASSUME NEW j \in 0 .. e + 1 PROVE j \in Q
  <2> DEFINE i == e + 1 - j
  <2>1. i \in Bounds /\ i <= e + 1 /\ e + 1 - i = j
    BY DEF Bounds, Positions
  <2>2. i \in R
    BY <1>3, <2>1
  <2>3. e + 1 - i \in Q
    BY <2>1, <2>2
  <2> QED BY <2>1, <2>3
<1> QED BY <1>4

(* Recursion over the positions has a solution: what a carry and a number  *)
(* are defined by.                                                         *)
LEMMA RecursionOver ==
  ASSUME NEW V, NEW x \in V, NEW F \in [Positions -> [V -> V]]
  PROVE  \E g \in [Bounds -> V] :
           g[0] = x /\ \A i \in Positions : g[i + 1] = F[i][g[i]]
<1> DEFINE Good(n) == \E g \in [Bounds -> V] :
                        g[0] = x /\ \A i \in Positions : i < n => g[i + 1] = F[i][g[i]]
           Q == {n \in Bounds : Good(n)}
<1>1. 0 \in Q
  <2>1. [i \in Bounds |-> x] \in [Bounds -> V]
    OBVIOUS
  <2>2. [i \in Bounds |-> x][0] = x
    BY DEF Bounds
  <2>3. \A i \in Positions : ~(i < 0)
    BY DEF Positions
  <2>4. Good(0)
    BY <2>1, <2>2, <2>3
  <2> QED BY <2>4 DEF Bounds
<1>2. ASSUME NEW n \in Positions, n \in Q PROVE n + 1 \in Q
  <2>1. PICK g \in [Bounds -> V] :
          g[0] = x /\ \A i \in Positions : i < n => g[i + 1] = F[i][g[i]]
    BY <1>2
  <2> DEFINE h == [g EXCEPT ![n + 1] = F[n][g[n]]]
  <2>2. n \in Bounds /\ n + 1 \in Bounds /\ n + 1 # 0 /\ 0 \in Bounds
    BY DEF Bounds, Positions
  <2>3. F[n][g[n]] \in V
    BY <2>2
  <2>4. h \in [Bounds -> V] /\ h[0] = x /\ h[n + 1] = F[n][g[n]]
    BY <2>1, <2>2, <2>3
  <2>5. ASSUME NEW i \in Positions, i < n + 1 PROVE h[i + 1] = F[i][h[i]]
    <3>1. i \in Bounds /\ i + 1 \in Bounds /\ i # n + 1
      BY <2>5 DEF Bounds, Positions
    <3>2. h[i] = g[i]
      BY <3>1
    <3>3. CASE i = n
      BY <2>4, <3>2, <3>3
    <3>4. CASE i # n
      <4>1. i < n /\ i + 1 # n + 1
        BY <2>5, <3>4 DEF Positions
      <4> QED BY <2>1, <3>1, <3>2, <4>1
    <3> QED BY <3>3, <3>4
  <2>6. Good(n + 1)
    <3> HIDE DEF h
    <3> QED BY <2>4, <2>5
  <2> QED BY <2>2, <2>6
<1>3. 16 \in Q
  <2> HIDE DEF Q
  <2>1. Bounds \subseteq Q
    BY <1>1, <1>2, Upwards
  <2> QED BY <2>1 DEF Bounds
<1>4. \A i \in Positions : i < 16
  BY DEF Positions
<1> QED BY <1>3, <1>4

LEMMA Recursion ==
  ASSUME NEW x \in Int, NEW F \in [Positions -> [Int -> Int]]
  PROVE  \E g \in [Bounds -> Int] :
           g[0] = x /\ \A i \in Positions : g[i + 1] = F[i][g[i]]
<1> DEFINE V == Int
<1>1. x \in V /\ F \in [Positions -> [V -> V]]
  OBVIOUS
<1> HIDE DEF V
<1>2. \E g \in [Bounds -> V] : g[0] = x /\ \A i \in Positions : g[i + 1] = F[i][g[i]]
  BY <1>1, RecursionOver
<1> QED BY <1>2 DEF V

-----------------------------------------------------------------------------
(* The carry's equation.                                                   *)
CarryInto(a, sign, base, breaks, k, c) ==
  IF (breaks => c # 0) /\ Overflows(a[k] + sign * c, sign, base) THEN 1 ELSE 0

LEMMA CarryObeys ==
  ASSUME NEW a, NEW s \in Positions, NEW c0 \in Bounds,
         NEW sign, NEW base, NEW breaks
  PROVE  /\ \A i \in 0 .. s : Carry(a, s, c0, sign, base, breaks, i) = c0
         /\ \A i \in s .. 15 :
              Carry(a, s, c0, sign, base, breaks, i + 1)
                = CarryInto(a, sign, base, breaks, i, Carry(a, s, c0, sign, base, breaks, i))
         /\ \A i \in Bounds : Carry(a, s, c0, sign, base, breaks, i) \in 0 .. 16
         /\ \A i \in s + 1 .. 16 : Carry(a, s, c0, sign, base, breaks, i) \in {0, 1}
<1> DEFINE Body(g) == [k \in 0 .. 16 |->
                        IF k <= s THEN c0
                        ELSE IF (breaks => g[k - 1] # 0)
                                /\ Overflows(a[k - 1] + sign * g[k - 1], sign, base)
                             THEN 1 ELSE 0]
           F == [k \in Positions |-> [c \in Int |->
                  IF k < s THEN c0 ELSE CarryInto(a, sign, base, breaks, k, c)]]
           carry == CHOOSE g : g = Body(g)
<1>1. PICK g \in [Bounds -> Int] :
        g[0] = c0 /\ \A k \in Positions : g[k + 1] = F[k][g[k]]
  <2>1. F \in [Positions -> [Int -> Int]]
    BY DEF CarryInto, Bounds
  <2>2. c0 \in Int
    BY DEF Bounds
  <2> HIDE DEF F
  <2> QED BY <2>1, <2>2, Recursion
<1>2. g = Body(g)
  <2>1. ASSUME NEW k \in Bounds PROVE g[k] = Body(g)[k]
    <3>1. CASE k = 0
      BY <1>1, <3>1 DEF Bounds, Positions
    <3>2. CASE k # 0
      <4>1. k - 1 \in Positions /\ k - 1 \in Bounds /\ (k - 1) + 1 = k /\ k \in 0 .. 16
        BY <3>2 DEF Bounds, Positions
      <4>2. g[k] = F[k - 1][g[k - 1]] /\ g[k - 1] \in Int
        BY <1>1, <4>1
      <4>3. k - 1 < s <=> k <= s
        BY DEF Bounds, Positions
      <4> QED BY <4>1, <4>2, <4>3 DEF CarryInto
    <3> QED BY <3>1, <3>2
  <2> QED BY <2>1 DEF Bounds
<1>3. carry = Body(carry)
  <2> HIDE DEF Body
  <2> QED BY <1>2
<1>4. \A i : Carry(a, s, c0, sign, base, breaks, i) = carry[i]
  BY DEF Carry
<1>5. \A k \in 0 .. 16 : carry[k] = Body(carry)[k]
  <2> HIDE DEF Body, carry
  <2> QED BY <1>3
<1> HIDE DEF carry
<1>6. \A i \in 0 .. s : carry[i] = c0
  BY <1>5 DEF Positions
<1>7. ASSUME NEW i \in s .. 15
      PROVE  carry[i + 1] = CarryInto(a, sign, base, breaks, i, carry[i])
  <2>1. i + 1 \in 0 .. 16 /\ ~(i + 1 <= s) /\ (i + 1) - 1 = i
    BY DEF Positions
  <2> QED BY <1>5, <2>1 DEF CarryInto
<1>8. ASSUME NEW i \in 0 .. 16
      PROVE  carry[i] \in 0 .. 16 /\ (i > s => carry[i] \in {0, 1})
  <2>1. CASE i <= s
    <3>1. carry[i] = c0 /\ ~(i > s)
      BY <1>5, <2>1 DEF Positions
    <3> QED BY <3>1 DEF Bounds
  <2>2. CASE ~(i <= s)
    <3>1. carry[i] \in {0, 1}
      BY <1>5, <2>2
    <3> QED BY <3>1
  <2> QED BY <2>1, <2>2
<1> QED BY <1>4, <1>6, <1>7, <1>8 DEF Bounds, Positions

-----------------------------------------------------------------------------
(* The powers of a base, and the number a field holds: the equations they  *)
(* are defined by, and what they are for digits of the base.               *)
Bases == {2, 10, 16}

LEMMA PowerObeys ==
  ASSUME NEW b \in Bases
  PROVE  /\ Power(b, 0) = 1
         /\ \A n \in Positions : Power(b, n + 1) = b * Power(b, n)
         /\ \A n \in Bounds : Power(b, n) \in Nat \ {0}
<1> DEFINE Body(g) == [k \in 0 .. 16 |-> IF k = 0 THEN 1 ELSE b * g[k - 1]]
           F == [k \in Positions |-> [c \in Int |-> b * c]]
           p == CHOOSE g : g = Body(g)
<1>0. b \in Int
  BY DEF Bases
<1>1. PICK g \in [Bounds -> Int] :
        g[0] = 1 /\ \A k \in Positions : g[k + 1] = F[k][g[k]]
  <2>1. F \in [Positions -> [Int -> Int]]
    BY <1>0
  <2>2. 1 \in Int
    OBVIOUS
  <2> HIDE DEF F
  <2> QED BY <2>1, <2>2, Recursion
<1>2. g = Body(g)
  <2>1. ASSUME NEW k \in Bounds PROVE g[k] = Body(g)[k]
    <3>1. CASE k = 0
      BY <1>1, <3>1 DEF Bounds
    <3>2. CASE k # 0
      <4>1. k - 1 \in Positions /\ k - 1 \in Bounds /\ (k - 1) + 1 = k /\ k \in 0 .. 16
        BY <3>2 DEF Bounds, Positions
      <4>2. g[k] = F[k - 1][g[k - 1]] /\ g[k - 1] \in Int
        BY <1>1, <4>1
      <4>3. g[k] = b * g[k - 1]
        BY <4>1, <4>2
      <4> QED BY <3>2, <4>1, <4>3
    <3> QED BY <3>1, <3>2
  <2> QED BY <2>1 DEF Bounds
<1>3. p = Body(p)
  <2> HIDE DEF Body
  <2> QED BY <1>2
<1>4. \A n : Power(b, n) = p[n]
  BY DEF Power
<1>5. \A k \in 0 .. 16 : p[k] = Body(p)[k]
  <2> HIDE DEF Body, p
  <2> QED BY <1>3
<1> HIDE DEF p
<1>6. p[0] = 1
  BY <1>5
<1>7. \A n \in Positions : p[n + 1] = b * p[n]
  <2> TAKE n \in Positions
  <2>1. n + 1 \in 0 .. 16 /\ n + 1 # 0 /\ (n + 1) - 1 = n
    BY DEF Positions
  <2> QED BY <1>5, <2>1
<1>8. Bounds \subseteq {n \in Bounds : p[n] \in Nat \ {0}}
  <2> DEFINE Q == {n \in Bounds : p[n] \in Nat \ {0}}
  <2>1. 0 \in Q
    BY <1>6 DEF Bounds
  <2>2. ASSUME NEW n \in Positions, n \in Q PROVE n + 1 \in Q
    <3>1. p[n] \in Nat \ {0} /\ p[n + 1] = b * p[n]
      BY <1>7, <2>2
    <3>2. b * p[n] \in Nat \ {0}
      BY <3>1 DEF Bases
    <3>3. n + 1 \in Bounds
      BY DEF Bounds, Positions
    <3> QED BY <3>1, <3>2, <3>3
  <2> HIDE DEF Q
  <2>3. Bounds \subseteq Q
    BY <2>1, <2>2, Upwards
  <2> QED BY <2>3 DEF Q
<1> QED BY <1>4, <1>6, <1>7, <1>8

(* The powers the upper parts of a field count.                            *)
LEMMA PowersOfField ==
  ASSUME NEW e \in Positions, NEW b \in Bases
  PROVE  /\ Power(b, e + 1 - (e + 1)) = 1
         /\ \A i \in 0 .. e : Power(b, e + 1 - i) = b * Power(b, e + 1 - (i + 1))
         /\ \A i \in 0 .. e + 1 : Power(b, e + 1 - i) \in Nat \ {0}
<1> DEFINE p(i) == Power(b, e + 1 - i)
<1>1. e + 1 - (e + 1) = 0
  BY DEF Positions
<1>2. ASSUME NEW i \in 0 .. e PROVE p(i) = b * p(i + 1)
  <2>1. e - i \in Positions /\ e + 1 - i = (e - i) + 1 /\ e + 1 - (i + 1) = e - i
    BY DEF Positions
  <2> QED BY <2>1, PowerObeys
<1>3. ASSUME NEW i \in 0 .. e + 1 PROVE p(i) \in Nat \ {0}
  <2>1. e + 1 - i \in Bounds
    BY DEF Bounds, Positions
  <2> QED BY <2>1, PowerObeys
<1> QED BY <1>1, <1>2, <1>3, PowerObeys

LEMMA NumberObeys ==
  ASSUME NEW w, NEW e \in Positions, NEW b \in Bases, \A i \in 0 .. e : w[i] \in Int
  PROVE  /\ Number(w, e + 1, e, b) = 0
         /\ \A i \in 0 .. e : Number(w, i, e, b) = w[i] + b * Number(w, i + 1, e, b)
         /\ \A i \in 0 .. e + 1 : Number(w, i, e, b) \in Int
<1> DEFINE Body(g) == [i \in 0 .. e + 1 |-> IF i = e + 1 THEN 0 ELSE w[i] + b * g[i + 1]]
           F == [k \in Positions |-> [c \in Int |-> IF k <= e THEN w[e - k] + b * c ELSE 0]]
           n == CHOOSE g : g = Body(g)
<1>0. b \in Int
  BY DEF Bases
<1>1. PICK g \in [Bounds -> Int] :
        g[0] = 0 /\ \A k \in Positions : g[k + 1] = F[k][g[k]]
  <2>1. ASSUME NEW k \in Positions, NEW c \in Int
        PROVE  (IF k <= e THEN w[e - k] + b * c ELSE 0) \in Int
    <3>1. k <= e => e - k \in 0 .. e
      BY DEF Positions
    <3>2. b * c \in Int
      BY <1>0
    <3> QED BY <3>1, <3>2
  <2>2. F \in [Positions -> [Int -> Int]]
    BY <2>1
  <2>3. 0 \in Int
    OBVIOUS
  <2> HIDE DEF F
  <2> QED BY <2>2, <2>3, Recursion
<1> DEFINE h == [i \in 0 .. e + 1 |-> g[e + 1 - i]]
<1>2. h = Body(h)
  <2>1. ASSUME NEW i \in 0 .. e + 1 PROVE h[i] = Body(h)[i]
    <3>1. CASE i = e + 1
      <4>1. e + 1 - i = 0
        BY <3>1 DEF Positions
      <4> QED BY <1>1, <3>1, <4>1
    <3>2. CASE i # e + 1
      <4>1. /\ e - i \in Positions /\ e - i \in Bounds /\ (e - i) + 1 = e + 1 - i
            /\ e - i <= e /\ e - (e - i) = i
            /\ i + 1 \in 0 .. e + 1 /\ e + 1 - (i + 1) = e - i
        BY <3>2 DEF Bounds, Positions
      <4>2. g[e + 1 - i] = F[e - i][g[e - i]] /\ g[e - i] \in Int
        BY <1>1, <4>1
      <4>3. g[e + 1 - i] = w[i] + b * g[e - i]
        BY <4>1, <4>2
      <4>4. h[i] = g[e + 1 - i] /\ h[i + 1] = g[e - i]
        BY <4>1
      <4> QED BY <3>2, <4>3, <4>4
    <3> QED BY <3>1, <3>2
  <2> QED BY <2>1
<1>3. n = Body(n)
  <2> HIDE DEF Body, h
  <2> QED BY <1>2
<1>4. \A i : Number(w, i, e, b) = n[i]
  BY DEF Number
<1>5. \A i \in 0 .. e + 1 : n[i] = Body(n)[i]
  <2> HIDE DEF Body, n
  <2> QED BY <1>3
<1> HIDE DEF n
<1>6. n[e + 1] = 0
  BY <1>5 DEF Positions
<1>7. \A i \in 0 .. e : n[i] = w[i] + b * n[i + 1]
  <2> TAKE i \in 0 .. e
  <2>1. i \in 0 .. e + 1 /\ i # e + 1
    BY DEF Positions
  <2> QED BY <1>5, <2>1
<1>8. 0 .. e + 1 \subseteq {i \in Bounds : n[i] \in Int}
  <2> DEFINE Q == {i \in Bounds : n[i] \in Int}
  <2>1. e + 1 \in Q
    BY <1>6 DEF Bounds, Positions
  <2>2. ASSUME NEW i \in 0 .. e, i + 1 \in Q PROVE i \in Q
    <3>1. i \in Bounds
      BY DEF Bounds, Positions
    <3>2. w[i] \in Int /\ b * n[i + 1] \in Int
      BY <1>0, <2>2
    <3> QED BY <1>7, <3>1, <3>2
  <2> HIDE DEF Q
  <2>3. 0 .. e + 1 \subseteq Q
    BY <2>1, <2>2, Downwards
  <2> QED BY <2>3 DEF Q
<1> QED BY <1>4, <1>6, <1>7, <1>8

(* A field of digits holds a number below the power of its length.         *)
LEMMA NumberOfDigits ==
  ASSUME NEW w, NEW e \in Positions, NEW s \in 0 .. e, NEW b \in Bases,
         \A i \in 0 .. e : w[i] \in Int, \A i \in s .. e : w[i] \in 0 .. b - 1
  PROVE  /\ Number(w, s, e, b) \in 0 .. Power(b, e + 1 - s) - 1
         /\ Number(w, s, e, b) = 0 <=> \A i \in s .. e : w[i] = 0
<1> DEFINE n(i) == Number(w, i, e, b)
           p(i) == Power(b, e + 1 - i)
           Q == {i \in Bounds : i >= s =>
                   /\ n(i) >= 0 /\ n(i) < p(i)
                   /\ n(i) = 0 <=> \A k \in i .. e : w[k] = 0}
<1>1. /\ n(e + 1) = 0
      /\ \A i \in 0 .. e : n(i) = w[i] + b * n(i + 1)
      /\ \A i \in 0 .. e + 1 : n(i) \in Int
  BY NumberObeys
<1>2. /\ p(e + 1) = 1
      /\ \A i \in 0 .. e : p(i) = b * p(i + 1)
      /\ \A i \in 0 .. e + 1 : p(i) \in Nat \ {0}
  BY PowersOfField
<1> HIDE DEF n, p
<1>3. e + 1 \in Q
  BY <1>1, <1>2 DEF Bounds, Positions
<1>4. ASSUME NEW i \in 0 .. e, i + 1 \in Q PROVE i \in Q
  <2>1. i \in Bounds /\ i + 1 \in 0 .. e + 1 /\ i \in 0 .. e + 1
    BY DEF Bounds, Positions
  <2> SUFFICES ASSUME i >= s
               PROVE  /\ n(i) >= 0 /\ n(i) < p(i)
                      /\ n(i) = 0 <=> \A k \in i .. e : w[k] = 0
    BY <2>1
  <2>2. /\ n(i + 1) >= 0 /\ n(i + 1) < p(i + 1)
        /\ n(i + 1) = 0 <=> \A k \in i + 1 .. e : w[k] = 0
    BY <1>4, <2>1 DEF Positions
  <2>3. w[i] \in 0 .. b - 1
    BY DEF Positions
  <2>4. n(i) = w[i] + b * n(i + 1) /\ p(i) = b * p(i + 1) /\ n(i + 1) \in Int /\ p(i + 1) \in Int
    BY <1>1, <1>2, <2>1
  <2>5. n(i) >= 0 /\ n(i) < p(i) /\ (n(i) = 0 <=> w[i] = 0 /\ n(i + 1) = 0)
    <3>1. CASE b = 2
      BY <2>2, <2>3, <2>4, <3>1
    <3>2. CASE b = 10
      BY <2>2, <2>3, <2>4, <3>2
    <3>3. CASE b = 16
      BY <2>2, <2>3, <2>4, <3>3
    <3> QED BY <3>1, <3>2, <3>3 DEF Bases
  <2>6. (\A k \in i .. e : w[k] = 0) <=> w[i] = 0 /\ \A k \in i + 1 .. e : w[k] = 0
    <3>1. \A k \in i .. e : k = i \/ k \in i + 1 .. e
      BY DEF Positions
    <3>2. i \in i .. e /\ \A k \in i + 1 .. e : k \in i .. e
      BY DEF Positions
    <3> QED BY <3>1, <3>2
  <2> QED BY <2>2, <2>5, <2>6
<1>5. s \in Q
  <2> HIDE DEF Q
  <2>1. 0 .. e + 1 \subseteq Q
    BY <1>3, <1>4, Downwards
  <2> QED BY <2>1 DEF Positions
<1>6. n(s) \in Int /\ p(s) \in Int
  BY <1>1, <1>2 DEF Positions
<1> QED BY <1>5, <1>6 DEF n, p

-----------------------------------------------------------------------------
(* The loop of the arithmetic operations.  Whatever the nibbles are, it    *)
(* leaves nibbles, touches only its field and ends with a carry of 0 or 1. *)
LEMMA LoopType ==
  ASSUME NEW w \in Word, NEW a \in [Positions -> Int], NEW e \in Positions, NEW s \in 0 .. e,
         NEW c0 \in Bounds, NEW sign \in Signs, NEW base \in Radices,
         NEW breaks \in BOOLEAN
  PROVE  LET r == Loop(w, a, s, e, c0, sign, base, breaks) IN
         /\ r.value \in Word
         /\ \A k \in Positions : k \notin s .. e => r.value[k] = w[k]
         /\ r.carry \in {0, 1}
<1> DEFINE C(i) == Carry(a, s, c0, sign, base, breaks, i)
           v == [i \in Positions |->
                   IF i \in s .. e /\ (breaks => C(i) # 0)
                   THEN Brought(a[i] + sign * C(i), sign, base) ELSE w[i]]
<1>1. s \in Positions /\ e + 1 \in s + 1 .. 16
  BY DEF Positions
<1>2. C(e + 1) \in {0, 1} /\ \A i \in Bounds : C(i) \in 0 .. 16
  BY <1>1, CarryObeys
<1>3. Loop(w, a, s, e, c0, sign, base, breaks) = [value |-> v, carry |-> C(e + 1)]
  BY DEF Loop
<1>4. ASSUME NEW i \in Positions PROVE Brought(a[i] + sign * C(i), sign, base) \in Nibble
  <2>1. C(i) \in Int /\ a[i] \in Int
    BY <1>2 DEF Bounds, Positions
  <2>2. a[i] + sign * C(i) \in Int /\ a[i] + sign * C(i) - sign * base \in Int
    BY <2>1 DEF Signs, Radices, Bounds
  <2> HIDE DEF C
  <2> QED BY <2>2 DEF Brought, Nibble, Signs, Radices
<1> HIDE DEF C
<1>5. v \in Word
  BY <1>4 DEF Word
<1>6. \A k \in Positions : k \notin s .. e => v[k] = w[k]
  OBVIOUS
<1> HIDE DEF v
<1> QED BY <1>2, <1>3, <1>5, <1>6

(* What a nibble and a carry make without carrying more than one on.       *)
Reaches(t, sign, base) ==
  IF sign = 1 THEN t \in 0 .. 2 * base - 1 ELSE t \in -base .. base - 1

LEMMA BroughtBack ==
  ASSUME NEW sign \in Signs, NEW base \in Radices,
         NEW t \in Int, Reaches(t, sign, base)
  PROVE  /\ Brought(t, sign, base) \in 0 .. base - 1
         /\ Brought(t, sign, base) = IF Overflows(t, sign, base) THEN t - sign * base ELSE t
<1>1. CASE sign = 1
  BY <1>1 DEF Brought, Overflows, Reaches, Signs, Radices
<1>2. CASE sign = -1
  BY <1>2 DEF Brought, Overflows, Reaches, Signs, Radices
<1> QED BY <1>1, <1>2 DEF Signs, Radices

(* The loop's steps can be undone: with digits of the base, every position *)
(* and the carry out of it hold what went into it.                         *)
LoopTakes(w, a, s, e, c0, sign, base, breaks) ==
  /\ Reaches(a[s] + sign * c0, sign, base)
  /\ \A k \in s .. e :
       /\ Reaches(a[k], sign, base) /\ Reaches(a[k] + sign, sign, base)
       /\ breaks => a[k] = w[k] /\ w[k] \in 0 .. base - 1

Leaves(x, a, sign, base, c, d) ==
  x \in 0 .. base - 1 /\ x = (a + sign * c) - sign * base * d

LEMMA LoopDigits ==
  ASSUME NEW w \in Word, NEW a \in [Positions -> Int], NEW e \in Positions, NEW s \in 0 .. e,
         NEW c0 \in Bounds, NEW sign \in Signs, NEW base \in Radices,
         NEW breaks \in BOOLEAN, LoopTakes(w, a, s, e, c0, sign, base, breaks)
  PROVE  LET v == Loop(w, a, s, e, c0, sign, base, breaks).value
             C(i) == Carry(a, s, c0, sign, base, breaks, i)
         IN \A k \in s .. e : Leaves(v[k], a[k], sign, base, C(k), C(k + 1))
<1> DEFINE C(i) == Carry(a, s, c0, sign, base, breaks, i)
           v == Loop(w, a, s, e, c0, sign, base, breaks).value
<1> SUFFICES ASSUME NEW k \in s .. e
             PROVE  v[k] \in 0 .. base - 1 /\ v[k] = (a[k] + sign * C(k)) - sign * base * C(k + 1)
  BY DEF Leaves
<1>1. /\ s \in Positions /\ k \in Positions /\ k \in Bounds /\ k \in s .. 15
      /\ s \in 0 .. s /\ (k # s => k \in s + 1 .. 16)
  BY DEF Bounds, Positions
<1>2. /\ C(k + 1) = CarryInto(a, sign, base, breaks, k, C(k))
      /\ k # s => C(k) \in {0, 1}
      /\ k = s => C(k) = c0
      /\ C(k) \in 0 .. 16
  <2>1. /\ \A i \in 0 .. s : C(i) = c0
        /\ \A i \in s .. 15 : C(i + 1) = CarryInto(a, sign, base, breaks, i, C(i))
        /\ \A i \in Bounds : C(i) \in 0 .. 16
        /\ \A i \in s + 1 .. 16 : C(i) \in {0, 1}
    BY <1>1, CarryObeys
  <2> HIDE DEF C
  <2> QED BY <1>1, <2>1
<1>3. v[k] = IF breaks => C(k) # 0 THEN Brought(a[k] + sign * C(k), sign, base) ELSE w[k]
  BY <1>1 DEF Loop
<1> HIDE DEF C, v
<1>4. Reaches(a[k] + sign * C(k), sign, base)
  <2>1. CASE k = s
    BY <1>2, <2>1 DEF LoopTakes
  <2>2. CASE k # s /\ C(k) = 0
    <3>1. a[k] + sign * C(k) = a[k]
      BY <1>1, <2>2 DEF Signs, Radices, Bounds
    <3> QED BY <3>1 DEF LoopTakes
  <2>3. CASE k # s /\ C(k) = 1
    <3>1. a[k] + sign * C(k) = a[k] + sign
      BY <1>1, <2>3 DEF Signs, Radices, Bounds
    <3> QED BY <3>1 DEF LoopTakes
  <2> QED BY <1>2, <2>1, <2>2, <2>3
<1>5. CASE breaks /\ C(k) = 0
  <2>1. C(k + 1) = 0 /\ v[k] = w[k]
    BY <1>2, <1>3, <1>5 DEF CarryInto
  <2>2. a[k] = w[k] /\ w[k] \in 0 .. base - 1
    BY <1>5 DEF LoopTakes
  <2> QED BY <1>5, <2>1, <2>2 DEF Signs, Radices
<1>6. CASE breaks => C(k) # 0
  <2>1. PICK t \in Int : t = a[k] + sign * C(k)
    BY <1>1, <1>2 DEF Signs, Bounds
  <2>2. /\ v[k] = Brought(t, sign, base)
        /\ C(k + 1) = IF Overflows(t, sign, base) THEN 1 ELSE 0
        /\ Reaches(t, sign, base)
    BY Zenon, <1>2, <1>3, <1>4, <1>6, <2>1 DEF CarryInto
  <2>3. /\ v[k] \in 0 .. base - 1
        /\ v[k] = IF Overflows(t, sign, base) THEN t - sign * base ELSE t
    BY <2>2, BroughtBack
  <2>4. sign * base * 1 = sign * base /\ sign * base * 0 = 0 /\ t - 0 = t
    BY DEF Signs, Radices
  <2>5. v[k] = t - sign * base * C(k + 1)
    BY Zenon, <2>2, <2>3, <2>4
  <2>6. v[k] = (a[k] + sign * C(k)) - sign * base * C(k + 1)
    BY Zenon, <2>1, <2>5
  <2> QED BY Zenon, <2>3, <2>6
<1> QED BY <1>5, <1>6

LEMMA HornerStep ==
  ASSUME NEW sign \in Signs, NEW base \in Radices, NEW a \in Int, NEW c \in Int, NEW d \in Int,
         NEW n \in Int, NEW x \in Int, NEW q \in Int, n + sign * q = x + sign * d
  PROVE  ((a + sign * c) - sign * base * d) + base * n + sign * (base * q)
           = a + base * x + sign * c
<1>1. CASE sign = 1 /\ base = 10
  BY <1>1
<1>2. CASE sign = 1 /\ base = 16
  BY <1>2
<1>3. CASE sign = -1 /\ base = 10
  BY <1>3
<1>4. CASE sign = -1 /\ base = 16
  BY <1>4
<1> QED BY <1>1, <1>2, <1>3, <1>4 DEF Signs, Radices

(* So the number the loop leaves is the one it was to compute, but for the *)
(* carry, which counts for as much as the field has values.                *)
LEMMA LoopNumber ==
  ASSUME NEW w \in Word, NEW a \in [Positions -> Int], NEW e \in Positions, NEW s \in 0 .. e,
         NEW c0 \in Bounds, NEW sign \in Signs, NEW base \in Radices,
         NEW breaks \in BOOLEAN, LoopTakes(w, a, s, e, c0, sign, base, breaks)
  PROVE  LET r == Loop(w, a, s, e, c0, sign, base, breaks)
             m == Power(base, e + 1 - s)
         IN /\ Number(r.value, s, e, base) + sign * (m * r.carry)
                  = Number(a, s, e, base) + sign * c0
            /\ \A k \in s .. e : r.value[k] \in 0 .. base - 1
<1> DEFINE C(i) == Carry(a, s, c0, sign, base, breaks, i)
           r == Loop(w, a, s, e, c0, sign, base, breaks)
           v == r.value
           n(i) == Number(v, i, e, base)
           x(i) == Number(a, i, e, base)
           p(i) == Power(base, e + 1 - i)
           Q == {i \in Bounds : i >= s =>
                   n(i) + sign * (p(i) * C(e + 1)) = x(i) + sign * C(i)}
<1>0. base \in Bases /\ e + 1 \in s + 1 .. 16 /\ s \in Positions
  BY DEF Bases, Positions, Signs, Radices
<1>1. /\ v \in Word
      /\ r.carry = C(e + 1) /\ C(e + 1) \in {0, 1}
      /\ C(s) = c0
      /\ \A i \in Bounds : C(i) \in 0 .. 16
  <2>1. v \in Word
    BY LoopType
  <2>2. r.carry = C(e + 1)
    BY DEF Loop
  <2>3. /\ \A i \in 0 .. s : C(i) = c0
        /\ \A i \in s .. 15 : C(i + 1) = CarryInto(a, sign, base, breaks, i, C(i))
        /\ \A i \in Bounds : C(i) \in 0 .. 16
        /\ \A i \in s + 1 .. 16 : C(i) \in {0, 1}
    BY <1>0, CarryObeys
  <2> HIDE DEF C, r
  <2> QED BY <1>0, <2>1, <2>2, <2>3 DEF Positions
<1>2. \A i \in s .. e :
        v[i] \in 0 .. base - 1 /\ v[i] = (a[i] + sign * C(i)) - sign * base * C(i + 1)
  <2>1. LET u == Loop(w, a, s, e, c0, sign, base, breaks).value
            D(i) == Carry(a, s, c0, sign, base, breaks, i)
        IN \A k \in s .. e : Leaves(u[k], a[k], sign, base, D(k), D(k + 1))
    BY LoopDigits
  <2> QED BY <2>1 DEF Leaves
<1>3. /\ n(e + 1) = 0 /\ x(e + 1) = 0
      /\ \A i \in 0 .. e : n(i) = v[i] + base * n(i + 1) /\ x(i) = a[i] + base * x(i + 1)
      /\ \A i \in 0 .. e + 1 : n(i) \in Int /\ x(i) \in Int
  <2>1. \A i \in 0 .. e : v[i] \in Int /\ a[i] \in Int
    BY <1>1 DEF Word, Nibble, Positions
  <2> HIDE DEF v
  <2> QED BY <1>0, <2>1, NumberObeys
<1>4. /\ p(e + 1) = 1
      /\ \A i \in 0 .. e : p(i) = base * p(i + 1)
      /\ \A i \in 0 .. e + 1 : p(i) \in Nat \ {0}
  BY <1>0, PowersOfField
<1> HIDE DEF n, x, p, C, v, r
<1>5. e + 1 \in Q
  <2>1. e + 1 \in Bounds
    BY DEF Bounds, Positions
  <2>2. 0 + sign * (1 * C(e + 1)) = 0 + sign * C(e + 1)
    BY <1>1
  <2> QED BY <1>3, <1>4, <2>1, <2>2
<1>6. ASSUME NEW i \in 0 .. e, i + 1 \in Q PROVE i \in Q
  <2>1. i \in Bounds /\ i + 1 \in Bounds /\ i + 1 \in 0 .. e + 1 /\ i \in Int
    BY DEF Bounds, Positions
  <2> SUFFICES ASSUME i >= s
               PROVE  n(i) + sign * (p(i) * C(e + 1)) = x(i) + sign * C(i)
    BY <2>1
  <2>2. n(i + 1) + sign * (p(i + 1) * C(e + 1)) = x(i + 1) + sign * C(i + 1)
    BY <1>6, <2>1
  <2>3. v[i] = (a[i] + sign * C(i)) - sign * base * C(i + 1)
    BY <1>2, <2>1
  <2>4. n(i) = v[i] + base * n(i + 1) /\ x(i) = a[i] + base * x(i + 1) /\ p(i) = base * p(i + 1)
    BY <1>3, <1>4
  <2>5. /\ n(i + 1) \in Int /\ x(i + 1) \in Int /\ p(i + 1) \in Int /\ a[i] \in Int
        /\ C(i) \in Int /\ C(i + 1) \in Int /\ C(e + 1) \in {0, 1}
    <3>1. i \in Positions
      BY DEF Positions
    <3>2. C(i) \in 0 .. 16 /\ C(i + 1) \in 0 .. 16
      BY <1>1, <2>1
    <3>3. /\ n(i + 1) \in Int /\ x(i + 1) \in Int /\ p(i + 1) \in Int
      BY <1>3, <1>4, <2>1
    <3>4. a[i] \in Int /\ C(e + 1) \in {0, 1}
      BY <1>1, <3>1
    <3> QED BY <3>2, <3>3, <3>4
  <2>6. PICK q \in Int : q = p(i + 1) * C(e + 1)
    BY <2>5
  <2>7. p(i) * C(e + 1) = base * q
    BY <2>4, <2>5, <2>6 DEF Radices
  <2>8. n(i + 1) + sign * q = x(i + 1) + sign * C(i + 1)
    BY Zenon, <2>2, <2>6
  <2>9. ((a[i] + sign * C(i)) - sign * base * C(i + 1)) + base * n(i + 1) + sign * (base * q)
          = a[i] + base * x(i + 1) + sign * C(i)
    BY <2>5, <2>8, HornerStep
  <2> QED BY Zenon, <2>3, <2>4, <2>7, <2>9
<1>7. s \in Q
  <2> HIDE DEF Q
  <2>1. 0 .. e + 1 \subseteq Q
    BY <1>5, <1>6, Downwards
  <2> QED BY <2>1 DEF Positions
<1>8. n(s) + sign * (p(s) * r.carry) = x(s) + sign * c0
  BY <1>1, <1>7
<1> QED BY <1>2, <1>8 DEF n, x, p, v, r

-----------------------------------------------------------------------------
(* The numbers of the sums, differences and complements the loop is given. *)
LEMMA NumberOfSum ==
  ASSUME NEW e \in Positions, NEW s \in 0 .. e, NEW b \in Bases, NEW sign \in Signs,
         NEW x \in [Positions -> Int], NEW u \in [Positions -> Int], NEW v \in [Positions -> Int],
         \A k \in s .. e : x[k] = u[k] + sign * v[k]
  PROVE  Number(x, s, e, b) = Number(u, s, e, b) + sign * Number(v, s, e, b)
<1> DEFINE n(w, i) == Number(w, i, e, b)
           Q == {i \in Bounds : i >= s => n(x, i) = n(u, i) + sign * n(v, i)}
<1>1. ASSUME NEW w \in [Positions -> Int]
      PROVE  /\ n(w, e + 1) = 0
             /\ \A i \in 0 .. e : n(w, i) = w[i] + b * n(w, i + 1)
             /\ \A i \in 0 .. e + 1 : n(w, i) \in Int
  <2>1. \A i \in 0 .. e : w[i] \in Int
    BY DEF Positions
  <2> QED BY <2>1, NumberObeys
<1> HIDE DEF n
<1>2. e + 1 \in Q
  BY <1>1 DEF Bounds, Positions, Signs
<1>3. ASSUME NEW i \in 0 .. e, i + 1 \in Q PROVE i \in Q
  <2>1. /\ i \in Bounds /\ i \in Positions /\ i + 1 \in 0 .. e + 1 /\ i + 1 \in Bounds
        /\ (i >= s => i + 1 >= s /\ i \in s .. e)
    BY DEF Bounds, Positions
  <2> SUFFICES ASSUME i >= s PROVE n(x, i) = n(u, i) + sign * n(v, i)
    BY <2>1
  <2>2. n(x, i + 1) = n(u, i + 1) + sign * n(v, i + 1)
    BY <1>3, <2>1
  <2>3. x[i] = u[i] + sign * v[i]
    BY <2>1
  <2>4. /\ n(x, i) = x[i] + b * n(x, i + 1)
        /\ n(u, i) = u[i] + b * n(u, i + 1)
        /\ n(v, i) = v[i] + b * n(v, i + 1)
    BY <1>1
  <2>5. /\ n(x, i + 1) \in Int /\ n(u, i + 1) \in Int /\ n(v, i + 1) \in Int
        /\ x[i] \in Int /\ u[i] \in Int /\ v[i] \in Int
    BY <1>1, <2>1
  <2>6. CASE sign = 1
    <3>1. CASE b = 2
      BY <2>2, <2>3, <2>4, <2>5, <2>6, <3>1
    <3>2. CASE b = 10
      BY <2>2, <2>3, <2>4, <2>5, <2>6, <3>2
    <3>3. CASE b = 16
      BY <2>2, <2>3, <2>4, <2>5, <2>6, <3>3
    <3> QED BY <3>1, <3>2, <3>3 DEF Bases
  <2>7. CASE sign = -1
    <3>1. CASE b = 2
      BY <2>2, <2>3, <2>4, <2>5, <2>7, <3>1
    <3>2. CASE b = 10
      BY <2>2, <2>3, <2>4, <2>5, <2>7, <3>2
    <3>3. CASE b = 16
      BY <2>2, <2>3, <2>4, <2>5, <2>7, <3>3
    <3> QED BY <3>1, <3>2, <3>3 DEF Bases
  <2> QED BY <2>6, <2>7 DEF Signs
<1>4. s \in Q
  <2> HIDE DEF Q
  <2>1. 0 .. e + 1 \subseteq Q
    BY <1>2, <1>3, Downwards
  <2> QED BY <2>1 DEF Positions
<1> QED BY <1>4 DEF n

(* A field full of the highest digit holds the highest number.             *)
LEMMA NumberOfHighest ==
  ASSUME NEW e \in Positions, NEW s \in 0 .. e, NEW b \in Bases
  PROVE  Number([i \in Positions |-> b - 1], s, e, b) = Power(b, e + 1 - s) - 1
<1> DEFINE w == [i \in Positions |-> b - 1]
           n(i) == Number(w, i, e, b)
           p(i) == Power(b, e + 1 - i)
           Q == {i \in Bounds : n(i) = p(i) - 1}
<1>1. /\ n(e + 1) = 0
      /\ \A i \in 0 .. e : n(i) = w[i] + b * n(i + 1)
      /\ \A i \in 0 .. e + 1 : n(i) \in Int
  <2>1. \A i \in 0 .. e : w[i] \in Int
    BY DEF Positions, Bases
  <2> HIDE DEF w
  <2> QED BY <2>1, NumberObeys
<1>2. /\ p(e + 1) = 1
      /\ \A i \in 0 .. e : p(i) = b * p(i + 1)
      /\ \A i \in 0 .. e + 1 : p(i) \in Nat \ {0}
  BY PowersOfField
<1>3. \A i \in 0 .. e : w[i] = b - 1
  BY DEF Positions
<1> HIDE DEF n, p, w
<1>4. e + 1 \in Q
  BY <1>1, <1>2 DEF Bounds, Positions
<1>5. ASSUME NEW i \in 0 .. e, i + 1 \in Q PROVE i \in Q
  <2>1. i \in Bounds /\ i + 1 \in 0 .. e + 1
    BY DEF Bounds, Positions
  <2>2. /\ n(i + 1) = p(i + 1) - 1 /\ p(i + 1) \in Int
        /\ n(i) = b - 1 + b * n(i + 1) /\ p(i) = b * p(i + 1)
    BY <1>1, <1>2, <1>3, <1>5, <2>1
  <2>3. n(i) = p(i) - 1
    <3>1. CASE b = 2
      BY <2>2, <3>1
    <3>2. CASE b = 10
      BY <2>2, <3>2
    <3>3. CASE b = 16
      BY <2>2, <3>3
    <3> QED BY <3>1, <3>2, <3>3 DEF Bases
  <2> QED BY <2>1, <2>3
<1>6. s \in Q
  <2> HIDE DEF Q
  <2>1. 0 .. e + 1 \subseteq Q
    BY <1>4, <1>5, Downwards
  <2> QED BY <2>1 DEF Positions
<1> QED BY <1>6 DEF n, p, w

-----------------------------------------------------------------------------
(* The arithmetic operations on the numbers the fields hold.               *)
DigitsOn(w, s, e, base) == \A k \in s .. e : w[k] < base

LEMMA FieldFacts ==
  ASSUME NEW e \in Positions, NEW s \in 0 .. e, NEW base \in Radices
  PROVE  /\ base \in Bases /\ s \in Positions /\ s \in s .. e
         /\ \A k \in s .. e : k \in Positions
         /\ Power(base, e + 1 - s) \in Nat \ {0}
         /\ \A w \in Word : /\ w \in [Positions -> Int]
                            /\ \A k \in Positions : w[k] \in 0 .. 15
                            /\ Number(w, s, e, base) \in Int
<1>1. base \in Bases /\ s \in Positions /\ s \in s .. e /\ \A k \in s .. e : k \in Positions
  BY DEF Radices, Bases, Positions
<1>2. Power(base, e + 1 - s) \in Nat \ {0}
  <2>1. s \in 0 .. e + 1
    BY DEF Positions
  <2> QED BY <1>1, <2>1, PowersOfField
<1>3. ASSUME NEW w \in Word
      PROVE  /\ w \in [Positions -> Int]
             /\ \A k \in Positions : w[k] \in 0 .. 15
             /\ Number(w, s, e, base) \in Int
  <2>1. w \in [Positions -> Int] /\ \A k \in Positions : w[k] \in 0 .. 15
    BY DEF Word, Nibble
  <2>2. \A i \in 0 .. e : w[i] \in Int
    BY <2>1 DEF Positions
  <2>3. s \in 0 .. e + 1
    BY DEF Positions
  <2> QED BY <1>1, <2>1, <2>2, <2>3, NumberObeys
<1> QED BY <1>1, <1>2, <1>3

LEMMA SumReaches ==
  ASSUME NEW base \in Radices, NEW sign \in Signs, NEW t \in Int,
         NEW x \in 0 .. base - 1, NEW y \in 0 .. base - 1, t = x + sign * y
  PROVE  Reaches(t, sign, base) /\ Reaches(t + sign, sign, base)
<1>1. CASE sign = 1 /\ base = 10
  BY <1>1 DEF Reaches
<1>2. CASE sign = 1 /\ base = 16
  BY <1>2 DEF Reaches
<1>3. CASE sign = -1 /\ base = 10
  BY <1>3 DEF Reaches
<1>4. CASE sign = -1 /\ base = 16
  BY <1>4 DEF Reaches
<1> QED BY <1>1, <1>2, <1>3, <1>4 DEF Signs, Radices

(* What is left of a number, and the carry out of it, hold what went in.   *)
Balances(x, sign, m, c, y, z) == x + sign * (m * c) = y + sign * z

LEMMA LoopResult ==
  ASSUME NEW w \in Word, NEW a \in [Positions -> Int], NEW e \in Positions, NEW s \in 0 .. e,
         NEW c0 \in Bounds, NEW sign \in Signs, NEW base \in Radices,
         NEW breaks \in BOOLEAN, LoopTakes(w, a, s, e, c0, sign, base, breaks)
  PROVE  LET r == Loop(w, a, s, e, c0, sign, base, breaks) IN
         /\ r.value \in Word /\ r.carry \in {0, 1}
         /\ Balances(Number(r.value, s, e, base), sign, Power(base, e + 1 - s), r.carry,
                     Number(a, s, e, base), c0)
         /\ DigitsOn(r.value, s, e, base)
<1> DEFINE r == Loop(w, a, s, e, c0, sign, base, breaks)
<1>1. r.value \in Word /\ r.carry \in {0, 1}
  BY LoopType
<1>2. /\ Number(r.value, s, e, base) + sign * (Power(base, e + 1 - s) * r.carry)
           = Number(a, s, e, base) + sign * c0
      /\ \A k \in s .. e : r.value[k] \in 0 .. base - 1
  BY LoopNumber
<1>3. \A n \in 0 .. base - 1 : n < base
  BY DEF Radices
<1> HIDE DEF r
<1>4. DigitsOn(r.value, s, e, base)
  BY <1>2, <1>3 DEF DigitsOn
<1>5. Balances(Number(r.value, s, e, base), sign, Power(base, e + 1 - s), r.carry,
               Number(a, s, e, base), c0)
  BY Zenon, <1>2 DEF Balances
<1> QED BY <1>1, <1>4, <1>5 DEF r

(* Sums and differences of digits, nibble by nibble and without breaking   *)
(* off.                                                                    *)
Combines(a, u, v, sign, s, e) == \A k \in s .. e : a[k] = u[k] + sign * v[k]

LEMMA SumTakes ==
  ASSUME NEW w \in Word, NEW u \in Word, NEW v \in Word, NEW a \in [Positions -> Int],
         NEW e \in Positions, NEW s \in 0 .. e, NEW base \in Radices, NEW sign \in Signs,
         DigitsOn(u, s, e, base), DigitsOn(v, s, e, base), Combines(a, u, v, sign, s, e)
  PROVE  LoopTakes(w, a, s, e, 0, sign, base, FALSE)
<1>1. ASSUME NEW k \in s .. e
      PROVE  Reaches(a[k], sign, base) /\ Reaches(a[k] + sign, sign, base)
  <2>1. a[k] = u[k] + sign * v[k] /\ u[k] \in 0 .. 15 /\ v[k] \in 0 .. 15
    BY FieldFacts DEF Combines
  <2>2. u[k] < base /\ v[k] < base
    BY DEF DigitsOn
  <2>3. u[k] \in 0 .. base - 1 /\ v[k] \in 0 .. base - 1 /\ a[k] \in Int
    BY <2>1, <2>2, FieldFacts DEF Radices
  <2> QED BY <2>1, <2>3, SumReaches
<1>2. s \in s .. e /\ a[s] \in Int
  BY FieldFacts
<1>3. a[s] + sign * 0 = a[s]
  BY <1>2 DEF Signs
<1>4. Reaches(a[s] + sign * 0, sign, base)
  BY <1>1, <1>2, <1>3
<1> QED BY <1>1, <1>4 DEF LoopTakes

LEMMA SumIsExact ==
  ASSUME NEW w \in Word, NEW u \in Word, NEW v \in Word, NEW a \in [Positions -> Int],
         NEW e \in Positions, NEW s \in 0 .. e, NEW base \in Radices, NEW sign \in Signs,
         DigitsOn(u, s, e, base), DigitsOn(v, s, e, base), Combines(a, u, v, sign, s, e)
  PROVE  LET r == Loop(w, a, s, e, 0, sign, base, FALSE) IN
         /\ r.value \in Word /\ r.carry \in {0, 1}
         /\ Balances(Number(r.value, s, e, base), sign, Power(base, e + 1 - s), r.carry,
                     Number(u, s, e, base), Number(v, s, e, base))
         /\ DigitsOn(r.value, s, e, base)
<1> DEFINE r == Loop(w, a, s, e, 0, sign, base, FALSE)
<1>0. 0 \in Bounds /\ FALSE \in BOOLEAN /\ sign * 0 = 0
  BY DEF Bounds, Signs
<1>2. LoopTakes(w, a, s, e, 0, sign, base, FALSE)
  BY SumTakes
<1>3. /\ r.value \in Word /\ r.carry \in {0, 1}
      /\ Balances(Number(r.value, s, e, base), sign, Power(base, e + 1 - s), r.carry,
                  Number(a, s, e, base), 0)
      /\ DigitsOn(r.value, s, e, base)
  BY <1>0, <1>2, LoopResult
<1> HIDE DEF r
<1>4. base \in Bases /\ u \in [Positions -> Int] /\ v \in [Positions -> Int]
      /\ Number(u, s, e, base) \in Int /\ Number(v, s, e, base) \in Int
  BY FieldFacts
<1>5. Number(a, s, e, base) = Number(u, s, e, base) + sign * Number(v, s, e, base)
  <2>1. \A k \in s .. e : a[k] = u[k] + sign * v[k]
    BY DEF Combines
  <2> QED BY <1>4, <2>1, NumberOfSum
<1>6. Number(a, s, e, base) + sign * 0 = Number(a, s, e, base)
  BY <1>4, <1>5 DEF Signs
<1>7. Balances(Number(r.value, s, e, base), sign, Power(base, e + 1 - s), r.carry,
               Number(u, s, e, base), Number(v, s, e, base))
  BY Zenon, <1>3, <1>5, <1>6 DEF Balances
<1> QED BY <1>3, <1>7 DEF r

LEMMA AddIsExact ==
  ASSUME NEW w \in Word, NEW u \in Word, NEW v \in Word,
         NEW e \in Positions, NEW s \in 0 .. e, NEW base \in Radices,
         DigitsOn(u, s, e, base), DigitsOn(v, s, e, base)
  PROVE  LET r == add_register(w, u, v, s, e, base) IN
         /\ r.value \in Word /\ r.carry \in {0, 1}
         /\ Number(r.value, s, e, base) + Power(base, e + 1 - s) * r.carry
              = Number(u, s, e, base) + Number(v, s, e, base)
         /\ DigitsOn(r.value, s, e, base)
<1>1. PICK sign \in Signs : sign = 1
  BY DEF Signs
<1> DEFINE a == Sums(u, v)
           r == Loop(w, a, s, e, 0, sign, base, FALSE)
<1>2. a \in [Positions -> Int] /\ Combines(a, u, v, sign, s, e)
  <2>1. u \in [Positions -> Int] /\ v \in [Positions -> Int] /\ \A k \in s .. e : k \in Positions
    BY FieldFacts
  <2>2. \A k \in Positions : u[k] + v[k] \in Int
    BY <2>1
  <2>3. a = [i \in Positions |-> u[i] + v[i]]
    BY DEF Sums
  <2> HIDE DEF a
  <2>4. a \in [Positions -> Int] /\ \A k \in Positions : a[k] = u[k] + v[k]
    BY <2>2, <2>3
  <2>5. \A k \in Positions : u[k] + v[k] = u[k] + sign * v[k]
    BY <1>1, <2>1
  <2> QED BY <2>1, <2>4, <2>5 DEF Combines
<1> HIDE DEF a
<1>3. /\ r.value \in Word /\ r.carry \in {0, 1}
      /\ Balances(Number(r.value, s, e, base), sign, Power(base, e + 1 - s), r.carry,
                  Number(u, s, e, base), Number(v, s, e, base))
      /\ DigitsOn(r.value, s, e, base)
  BY <1>2, SumIsExact
<1>4. add_register(w, u, v, s, e, base) = r
  BY <1>1 DEF add_register, a
<1> HIDE DEF r
<1>5. /\ Number(r.value, s, e, base) \in Int /\ Number(u, s, e, base) \in Int
      /\ Number(v, s, e, base) \in Int /\ Power(base, e + 1 - s) * r.carry \in Int
  BY <1>3, FieldFacts
<1>6. Number(r.value, s, e, base) + Power(base, e + 1 - s) * r.carry
        = Number(u, s, e, base) + Number(v, s, e, base)
  BY <1>1, <1>3, <1>5 DEF Balances
<1> QED BY Zenon, <1>3, <1>4, <1>6

LEMMA SubIsExact ==
  ASSUME NEW w \in Word, NEW u \in Word, NEW v \in Word,
         NEW e \in Positions, NEW s \in 0 .. e, NEW base \in Radices,
         DigitsOn(u, s, e, base), DigitsOn(v, s, e, base)
  PROVE  LET r == sub_register(w, u, v, s, e, base) IN
         /\ r.value \in Word /\ r.carry \in {0, 1}
         /\ Number(r.value, s, e, base) - Power(base, e + 1 - s) * r.carry
              = Number(u, s, e, base) - Number(v, s, e, base)
         /\ DigitsOn(r.value, s, e, base)
<1>1. PICK sign \in Signs : sign = -1
  BY DEF Signs
<1> DEFINE a == Differences(u, v)
           r == Loop(w, a, s, e, 0, sign, base, FALSE)
<1>2. a \in [Positions -> Int] /\ Combines(a, u, v, sign, s, e)
  <2>1. u \in [Positions -> Int] /\ v \in [Positions -> Int] /\ \A k \in s .. e : k \in Positions
    BY FieldFacts
  <2>2. \A k \in Positions : u[k] - v[k] \in Int
    BY <2>1
  <2>3. a = [i \in Positions |-> u[i] - v[i]]
    BY DEF Differences
  <2> HIDE DEF a
  <2>4. a \in [Positions -> Int] /\ \A k \in Positions : a[k] = u[k] - v[k]
    BY <2>2, <2>3
  <2>5. \A k \in Positions : u[k] - v[k] = u[k] + sign * v[k]
    BY <1>1, <2>1
  <2> QED BY <2>1, <2>4, <2>5 DEF Combines
<1> HIDE DEF a
<1>3. /\ r.value \in Word /\ r.carry \in {0, 1}
      /\ Balances(Number(r.value, s, e, base), sign, Power(base, e + 1 - s), r.carry,
                  Number(u, s, e, base), Number(v, s, e, base))
      /\ DigitsOn(r.value, s, e, base)
  BY <1>2, SumIsExact
<1>4. sub_register(w, u, v, s, e, base) = r
  BY <1>1 DEF sub_register, a
<1> HIDE DEF r
<1>5. /\ Number(r.value, s, e, base) \in Int /\ Number(u, s, e, base) \in Int
      /\ Number(v, s, e, base) \in Int /\ Power(base, e + 1 - s) * r.carry \in Int
  BY <1>3, FieldFacts
<1>6. Number(r.value, s, e, base) - Power(base, e + 1 - s) * r.carry
        = Number(u, s, e, base) - Number(v, s, e, base)
  BY <1>1, <1>3, <1>5 DEF Balances
<1> QED BY Zenon, <1>3, <1>4, <1>6

(* Adding or taking away a small number, breaking off early or not.        *)
LEMMA StepReaches ==
  ASSUME NEW base \in Radices, NEW sign \in Signs,
         NEW x \in 0 .. base - 1, NEW c \in 0 .. base
  PROVE  Reaches(x + sign * c, sign, base)
<1>1. CASE sign = 1 /\ base = 10
  BY <1>1 DEF Reaches
<1>2. CASE sign = 1 /\ base = 16
  BY <1>2 DEF Reaches
<1>3. CASE sign = -1 /\ base = 10
  BY <1>3 DEF Reaches
<1>4. CASE sign = -1 /\ base = 16
  BY <1>4 DEF Reaches
<1> QED BY <1>1, <1>2, <1>3, <1>4 DEF Signs, Radices

LEMMA StepIsExact ==
  ASSUME NEW w \in Word, NEW e \in Positions, NEW s \in 0 .. e, NEW base \in Radices,
         NEW sign \in Signs, NEW c0 \in 0 .. base, NEW breaks \in BOOLEAN,
         DigitsOn(w, s, e, base)
  PROVE  LET r == Loop(w, w, s, e, c0, sign, base, breaks) IN
         /\ r.value \in Word /\ r.carry \in {0, 1}
         /\ Balances(Number(r.value, s, e, base), sign, Power(base, e + 1 - s), r.carry,
                     Number(w, s, e, base), c0)
         /\ DigitsOn(r.value, s, e, base)
<1>1. c0 \in Bounds /\ w \in [Positions -> Int]
  BY FieldFacts DEF Bounds, Radices
<1>2. ASSUME NEW k \in s .. e
      PROVE  /\ w[k] \in 0 .. base - 1
             /\ Reaches(w[k], sign, base) /\ Reaches(w[k] + sign, sign, base)
             /\ Reaches(w[k] + sign * c0, sign, base)
  <2>1. w[k] \in 0 .. 15 /\ w[k] < base
    BY FieldFacts DEF DigitsOn
  <2>2. w[k] \in 0 .. base - 1
    BY <2>1 DEF Radices
  <2>3. 0 \in 0 .. base /\ 1 \in 0 .. base
    BY DEF Radices
  <2>4. w[k] + sign * 0 = w[k] /\ w[k] + sign * 1 = w[k] + sign
    BY <2>1 DEF Signs
  <2>5. /\ Reaches(w[k] + sign * 0, sign, base) /\ Reaches(w[k] + sign * 1, sign, base)
        /\ Reaches(w[k] + sign * c0, sign, base)
    BY <2>2, <2>3, StepReaches
  <2> QED BY <2>2, <2>4, <2>5
<1>3. LoopTakes(w, w, s, e, c0, sign, base, breaks)
  <2>1. s \in s .. e
    BY FieldFacts
  <2> QED BY <1>2, <2>1 DEF LoopTakes
<1> QED BY <1>1, <1>3, LoopResult

LEMMA IncIsExact ==
  ASSUME NEW w \in Word, NEW e \in Positions, NEW s \in 0 .. e, NEW base \in Radices,
         DigitsOn(w, s, e, base)
  PROVE  LET r == inc_register(w, s, e, base) IN
         /\ r.value \in Word /\ r.carry \in {0, 1}
         /\ Number(r.value, s, e, base) + Power(base, e + 1 - s) * r.carry
              = Number(w, s, e, base) + 1
         /\ DigitsOn(r.value, s, e, base)
<1>1. PICK sign \in Signs : sign = 1
  BY DEF Signs
<1>2. 1 \in 0 .. base /\ TRUE \in BOOLEAN
  BY DEF Radices
<1> DEFINE r == Loop(w, w, s, e, 1, sign, base, TRUE)
<1>3. /\ r.value \in Word /\ r.carry \in {0, 1}
      /\ Balances(Number(r.value, s, e, base), sign, Power(base, e + 1 - s), r.carry,
                  Number(w, s, e, base), 1)
      /\ DigitsOn(r.value, s, e, base)
  BY <1>2, StepIsExact
<1>4. inc_register(w, s, e, base) = r
  BY <1>1 DEF inc_register
<1> HIDE DEF r
<1>5. /\ Number(r.value, s, e, base) \in Int /\ Number(w, s, e, base) \in Int
      /\ Power(base, e + 1 - s) * r.carry \in Int
  BY <1>2, <1>3, FieldFacts
<1>6. Number(r.value, s, e, base) + Power(base, e + 1 - s) * r.carry
        = Number(w, s, e, base) + 1
  BY <1>1, <1>3, <1>5 DEF Balances
<1> QED BY Zenon, <1>3, <1>4, <1>6

LEMMA DecIsExact ==
  ASSUME NEW w \in Word, NEW e \in Positions, NEW s \in 0 .. e, NEW base \in Radices,
         DigitsOn(w, s, e, base)
  PROVE  LET r == dec_register(w, s, e, base) IN
         /\ r.value \in Word /\ r.carry \in {0, 1}
         /\ Number(r.value, s, e, base) - Power(base, e + 1 - s) * r.carry
              = Number(w, s, e, base) - 1
         /\ DigitsOn(r.value, s, e, base)
<1>1. PICK sign \in Signs : sign = -1
  BY DEF Signs
<1>2. 1 \in 0 .. base /\ TRUE \in BOOLEAN
  BY DEF Radices
<1> DEFINE r == Loop(w, w, s, e, 1, sign, base, TRUE)
<1>3. /\ r.value \in Word /\ r.carry \in {0, 1}
      /\ Balances(Number(r.value, s, e, base), sign, Power(base, e + 1 - s), r.carry,
                  Number(w, s, e, base), 1)
      /\ DigitsOn(r.value, s, e, base)
  BY <1>2, StepIsExact
<1>4. dec_register(w, s, e, base) = r
  BY <1>1 DEF dec_register
<1> HIDE DEF r
<1>5. /\ Number(r.value, s, e, base) \in Int /\ Number(w, s, e, base) \in Int
      /\ Power(base, e + 1 - s) * r.carry \in Int
  BY <1>2, <1>3, FieldFacts
<1>6. Number(r.value, s, e, base) - Power(base, e + 1 - s) * r.carry
        = Number(w, s, e, base) - 1
  BY <1>1, <1>3, <1>5 DEF Balances
<1> QED BY Zenon, <1>3, <1>4, <1>6

LEMMA AddConstantIsExact ==
  ASSUME NEW w \in Word, NEW e \in Positions, NEW s \in 0 .. e, NEW n \in 1 .. 16,
         DigitsOn(w, s, e, 16)
  PROVE  LET r == add_register_constant(w, s, e, n) IN
         /\ r.value \in Word /\ r.carry \in {0, 1}
         /\ Number(r.value, s, e, 16) + Power(16, e + 1 - s) * r.carry
              = Number(w, s, e, 16) + n
         /\ DigitsOn(r.value, s, e, 16)
<1>1. PICK sign \in Signs : sign = 1
  BY DEF Signs
<1>2. 16 \in Radices /\ n \in 0 .. 16 /\ TRUE \in BOOLEAN
  BY DEF Radices
<1> DEFINE r == Loop(w, w, s, e, n, sign, 16, TRUE)
<1>3. /\ r.value \in Word /\ r.carry \in {0, 1}
      /\ Balances(Number(r.value, s, e, 16), sign, Power(16, e + 1 - s), r.carry,
                  Number(w, s, e, 16), n)
      /\ DigitsOn(r.value, s, e, 16)
  BY <1>2, StepIsExact
<1>4. add_register_constant(w, s, e, n) = r
  BY <1>1 DEF add_register_constant
<1> HIDE DEF r
<1>5. /\ Number(r.value, s, e, 16) \in Int /\ Number(w, s, e, 16) \in Int
      /\ Power(16, e + 1 - s) * r.carry \in Int
  BY <1>2, <1>3, FieldFacts
<1>6. Number(r.value, s, e, 16) + Power(16, e + 1 - s) * r.carry
        = Number(w, s, e, 16) + n
  BY <1>1, <1>3, <1>5 DEF Balances
<1> QED BY Zenon, <1>3, <1>4, <1>6

LEMMA SubConstantIsExact ==
  ASSUME NEW w \in Word, NEW e \in Positions, NEW s \in 0 .. e, NEW n \in 1 .. 16,
         DigitsOn(w, s, e, 16)
  PROVE  LET r == sub_register_constant(w, s, e, n) IN
         /\ r.value \in Word /\ r.carry \in {0, 1}
         /\ Number(r.value, s, e, 16) - Power(16, e + 1 - s) * r.carry
              = Number(w, s, e, 16) - n
         /\ DigitsOn(r.value, s, e, 16)
<1>1. PICK sign \in Signs : sign = -1
  BY DEF Signs
<1>2. 16 \in Radices /\ n \in 0 .. 16 /\ TRUE \in BOOLEAN
  BY DEF Radices
<1> DEFINE r == Loop(w, w, s, e, n, sign, 16, TRUE)
<1>3. /\ r.value \in Word /\ r.carry \in {0, 1}
      /\ Balances(Number(r.value, s, e, 16), sign, Power(16, e + 1 - s), r.carry,
                  Number(w, s, e, 16), n)
      /\ DigitsOn(r.value, s, e, 16)
  BY <1>2, StepIsExact
<1>4. sub_register_constant(w, s, e, n) = r
  BY <1>1 DEF sub_register_constant
<1> HIDE DEF r
<1>5. /\ Number(r.value, s, e, 16) \in Int /\ Number(w, s, e, 16) \in Int
      /\ Power(16, e + 1 - s) * r.carry \in Int
  BY <1>2, <1>3, FieldFacts
<1>6. Number(r.value, s, e, 16) - Power(16, e + 1 - s) * r.carry
        = Number(w, s, e, 16) - n
  BY <1>1, <1>3, <1>5 DEF Balances
<1> QED BY Zenon, <1>3, <1>4, <1>6

LEMMA AddPIsExact ==
  ASSUME NEW w \in Word, NEW p \in Nibble
  PROVE  LET r == add_p_plus_one(w, p) IN
         /\ r.value \in Word /\ r.carry \in {0, 1}
         /\ Number(r.value, 0, 4, 16) + Power(16, 4 + 1 - 0) * r.carry
              = Number(w, 0, 4, 16) + p + 1
<1>1. PICK sign \in Signs : sign = 1
  BY DEF Signs
<1>2. PICK s \in {0} : s = 0
  OBVIOUS
<1>3. PICK e \in Positions : e = 4
  BY DEF Positions
<1>4. PICK n \in 0 .. 16 : n = p + 1
  BY DEF Nibble
<1>5. 16 \in Radices /\ s \in 0 .. e /\ FALSE \in BOOLEAN
  BY <1>2, <1>3 DEF Radices
<1>6. DigitsOn(w, s, e, 16)
  BY <1>5, FieldFacts DEF DigitsOn
<1> DEFINE r == Loop(w, w, s, e, n, sign, 16, FALSE)
<1>7. /\ r.value \in Word /\ r.carry \in {0, 1}
      /\ Balances(Number(r.value, s, e, 16), sign, Power(16, e + 1 - s), r.carry,
                  Number(w, s, e, 16), n)
  BY <1>5, <1>6, StepIsExact
<1>8. add_p_plus_one(w, p) = r
  BY <1>1, <1>2, <1>3, <1>4 DEF add_p_plus_one
<1> HIDE DEF r
<1>9. /\ Number(r.value, s, e, 16) \in Int /\ Number(w, s, e, 16) \in Int
      /\ Power(16, e + 1 - s) * r.carry \in Int
  BY <1>5, <1>7, FieldFacts
<1>10. Number(r.value, s, e, 16) + Power(16, e + 1 - s) * r.carry
        = Number(w, s, e, 16) + n
  BY <1>1, <1>7, <1>9 DEF Balances
<1>11. Number(w, s, e, 16) + n = Number(w, s, e, 16) + p + 1
  BY <1>4, <1>9 DEF Nibble
<1> QED BY Zenon, <1>2, <1>3, <1>7, <1>8, <1>10, <1>11

(* The complements.                                                        *)
LEMMA NumberOfComplements ==
  ASSUME NEW w \in Word, NEW x \in [Positions -> Int],
         NEW e \in Positions, NEW s \in 0 .. e, NEW base \in Radices,
         \A k \in s .. e : x[k] = base - 1 - w[k]
  PROVE  Number(x, s, e, base) = Power(base, e + 1 - s) - 1 - Number(w, s, e, base)
<1>1. PICK sign \in Signs : sign = -1
  BY DEF Signs
<1> DEFINE u == [i \in Positions |-> base - 1]
<1>2. /\ base \in Bases /\ w \in [Positions -> Int] /\ Number(w, s, e, base) \in Int
      /\ Power(base, e + 1 - s) \in Int /\ \A k \in s .. e : k \in Positions
  BY FieldFacts
<1>3. u \in [Positions -> Int] /\ \A k \in Positions : u[k] = base - 1
  BY DEF Radices
<1>4. Number(u, s, e, base) = Power(base, e + 1 - s) - 1
  BY <1>2, NumberOfHighest
<1> HIDE DEF u
<1>5. ASSUME NEW k \in s .. e PROVE x[k] = u[k] + sign * w[k]
  <2>1. x[k] = base - 1 - w[k] /\ u[k] = base - 1 /\ w[k] \in Int
    BY <1>2, <1>3
  <2>2. sign * w[k] = -w[k]
    BY <1>1, <2>1
  <2> QED BY <2>1, <2>2 DEF Radices
<1>6. Number(x, s, e, base) = Number(u, s, e, base) + sign * Number(w, s, e, base)
  BY <1>2, <1>3, <1>5, NumberOfSum
<1> QED BY <1>1, <1>2, <1>4, <1>6

LEMMA NotIsExact ==
  ASSUME NEW w \in Word, NEW e \in Positions, NEW s \in 0 .. e, NEW base \in Radices,
         DigitsOn(w, s, e, base)
  PROVE  LET r == complement_1_register(w, s, e, base) IN
         /\ r.value \in Word /\ r.carry = 0
         /\ Number(r.value, s, e, base)
              = Power(base, e + 1 - s) - 1 - Number(w, s, e, base)
         /\ DigitsOn(r.value, s, e, base)
<1> DEFINE x == [i \in Positions |-> IF i \in s .. e THEN (base - 1 - w[i]) % 16 ELSE w[i]]
<1>1. complement_1_register(w, s, e, base) = [value |-> x, carry |-> 0]
  BY DEF complement_1_register
<1>2. \A k \in s .. e : k \in Positions
  BY FieldFacts
<1>3. ASSUME NEW k \in s .. e PROVE x[k] = base - 1 - w[k] /\ x[k] < base
  <2>1. w[k] \in 0 .. 15 /\ w[k] < base
    BY FieldFacts DEF DigitsOn
  <2>2. base - 1 - w[k] \in 0 .. 15 /\ base - 1 - w[k] < base
    BY <2>1 DEF Radices
  <2>3. \A n \in 0 .. 15 : n % 16 = n
    OBVIOUS
  <2> QED BY <1>2, <2>2, <2>3
<1>4. x \in Word /\ x \in [Positions -> Int]
  <2>1. ASSUME NEW k \in Positions PROVE (base - 1 - w[k]) % 16 \in 0 .. 15 /\ w[k] \in 0 .. 15
    BY DEF Radices, Word, Nibble
  <2> QED BY <2>1 DEF Word, Nibble
<1> HIDE DEF x
<1>5. Number(x, s, e, base) = Power(base, e + 1 - s) - 1 - Number(w, s, e, base)
  BY <1>3, <1>4, NumberOfComplements
<1>6. DigitsOn(x, s, e, base)
  BY <1>3 DEF DigitsOn
<1> QED BY <1>1, <1>4, <1>5, <1>6

LEMMA ComplementOfNumber ==
  ASSUME NEW m \in Nat \ {0}, NEW d \in 0 .. m - 1, NEW n \in 0 .. m - 1, NEW c \in {0, 1},
         n + m * c = m - 1 - d + 1
  PROVE  n = (-d) % m /\ (n # 0 <=> d # 0)
<1>1. CASE c = 0
  BY <1>1
<1>2. CASE c = 1
  BY <1>2
<1> QED BY <1>1, <1>2

LEMMA NegIsExact ==
  ASSUME NEW w \in Word, NEW e \in Positions, NEW s \in 0 .. e, NEW base \in Radices,
         DigitsOn(w, s, e, base)
  PROVE  LET r == complement_2_register(w, s, e, base)
             d == Number(w, s, e, base)
         IN /\ r.value \in Word
            /\ Number(r.value, s, e, base) = (-d) % Power(base, e + 1 - s)
            /\ r.carry = IF d = 0 THEN 0 ELSE 1
            /\ DigitsOn(r.value, s, e, base)
<1>1. PICK sign \in Signs : sign = 1
  BY DEF Signs
<1> DEFINE a == Complements(w, base)
           r == Loop(w, a, s, e, 1, sign, base, FALSE)
           d == Number(w, s, e, base)
           m == Power(base, e + 1 - s)
<1>2. /\ base \in Bases /\ w \in [Positions -> Int] /\ d \in Int
      /\ m \in Nat \ {0} /\ \A k \in s .. e : k \in Positions
  BY FieldFacts
<1>3. /\ a \in [Positions -> Int]
      /\ \A k \in Positions : a[k] = base - 1 - w[k]
  <2>1. \A k \in Positions : base - 1 - w[k] \in Int
    BY <1>2 DEF Radices
  <2> QED BY <2>1 DEF Complements
<1> HIDE DEF a
<1>4. ASSUME NEW k \in s .. e
      PROVE  Reaches(a[k], sign, base) /\ Reaches(a[k] + sign, sign, base)
  <2>1. w[k] \in 0 .. 15 /\ w[k] < base /\ a[k] = base - 1 - w[k]
    BY <1>2, <1>3, FieldFacts DEF DigitsOn
  <2> QED BY <1>1, <2>1 DEF Reaches, Radices
<1>5. LoopTakes(w, a, s, e, 1, sign, base, FALSE)
  <2>1. s \in s .. e /\ sign * 1 = sign
    BY FieldFacts DEF Signs
  <2> QED BY <1>4, <2>1 DEF LoopTakes
<1>6. /\ r.value \in Word /\ r.carry \in {0, 1}
      /\ Balances(Number(r.value, s, e, base), sign, m, r.carry, Number(a, s, e, base), 1)
      /\ DigitsOn(r.value, s, e, base)
  <2>1. 1 \in Bounds /\ FALSE \in BOOLEAN
    BY DEF Bounds
  <2> QED BY <1>3, <1>5, <2>1, LoopResult
<1>7. complement_2_register(w, s, e, base)
        = [value |-> r.value, carry |-> IF \E i \in s .. e : r.value[i] # 0 THEN 1 ELSE 0]
  BY <1>1 DEF complement_2_register, a
<1> HIDE DEF r
<1>8. Number(a, s, e, base) = m - 1 - d
  BY <1>2, <1>3, NumberOfComplements
<1>9. ASSUME NEW x \in Word, DigitsOn(x, s, e, base)
      PROVE  /\ Number(x, s, e, base) \in 0 .. m - 1
             /\ Number(x, s, e, base) = 0 <=> \A i \in s .. e : x[i] = 0
  <2>1. \A i \in 0 .. e : x[i] \in Int
    BY DEF Word, Nibble, Positions
  <2>2. ASSUME NEW i \in s .. e PROVE x[i] \in 0 .. base - 1
    <3>1. x[i] \in 0 .. 15 /\ x[i] < base
      BY <1>9, FieldFacts DEF DigitsOn
    <3> QED BY <3>1 DEF Radices
  <2> QED BY <1>2, <2>1, <2>2, NumberOfDigits
<1>10. PICK n \in 0 .. m - 1 : n = Number(r.value, s, e, base)
  BY <1>6, <1>9
<1> HIDE DEF d, m
<1>11. d \in 0 .. m - 1
  BY <1>9 DEF d
<1>12. n + m * r.carry = m - 1 - d + 1
  <2>1. n + sign * (m * r.carry) = (m - 1 - d) + sign * 1
    BY Zenon, <1>6, <1>8, <1>10 DEF Balances
  <2>2. m * r.carry \in Int /\ m \in Int /\ d \in Int /\ n \in Int
    BY <1>2, <1>6, <1>10
  <2> QED BY <1>1, <2>1, <2>2
<1>13. n = (-d) % m /\ (n # 0 <=> d # 0)
  BY <1>2, <1>6, <1>11, <1>12, ComplementOfNumber
<1>14. n = 0 <=> \A i \in s .. e : r.value[i] = 0
  BY <1>6, <1>9, <1>10
<1>15. (IF \E i \in s .. e : r.value[i] # 0 THEN 1 ELSE 0) = IF d = 0 THEN 0 ELSE 1
  BY <1>13, <1>14
<1>16. /\ complement_2_register(w, s, e, base).value = r.value
       /\ complement_2_register(w, s, e, base).carry = IF d = 0 THEN 0 ELSE 1
  BY <1>7, <1>15
<1>17. Number(r.value, s, e, base) = (-d) % m
  BY Zenon, <1>10, <1>13
<1> QED BY Zenon, <1>6, <1>16, <1>17 DEF d, m

(* The loop that subtracts undoes the loop that added: it borrows where    *)
(* the other carried.                                                      *)
LEMMA AddStep ==
  ASSUME NEW base \in Radices, NEW u \in 0 .. base - 1, NEW v \in Int, NEW r \in Int,
         NEW x \in 0 .. base - 1, NEW c \in {0, 1}, NEW cc \in {0, 1}, NEW dd \in {0, 1},
         r = ((u + v) + 1 * c) - 1 * base * cc,
         x = ((r - v) + (-1) * c) - (-1) * base * dd
  PROVE  dd = cc /\ x = u
<1>1. CASE base = 10
  BY <1>1
<1>2. CASE base = 16
  BY <1>2
<1> QED BY <1>1, <1>2 DEF Radices

LEMMA SubUndoesAdd ==
  ASSUME NEW u \in Word, NEW v \in Word,
         NEW e \in Positions, NEW s \in 0 .. e, NEW base \in Radices,
         DigitsOn(u, s, e, base), DigitsOn(v, s, e, base)
  PROVE  LET r == add_register(u, u, v, s, e, base) IN
         sub_register(r.value, r.value, v, s, e, base) = [value |-> u, carry |-> r.carry]
<1>1. PICK add \in Signs : add = 1
  BY DEF Signs
<1>2. PICK sub \in Signs : sub = -1
  BY DEF Signs
<1>a. PICK no \in BOOLEAN : no = FALSE
  OBVIOUS
<1>b. PICK c0 \in Bounds : c0 = 0
  BY DEF Bounds
<1>c. s \in Positions
  BY DEF Positions
<1> DEFINE a == Sums(u, v)
           r == Loop(u, a, s, e, c0, add, base, no)
           y == r.value
           b == Differences(y, v)
           q == Loop(y, b, s, e, c0, sub, base, no)
           C(i) == Carry(a, s, c0, add, base, no, i)
           D(i) == Carry(b, s, c0, sub, base, no, i)
<1>3. add_register(u, u, v, s, e, base) = r
  BY <1>a, <1>b, <1>1 DEF add_register
<1>4. sub_register(y, y, v, s, e, base) = q
  BY <1>a, <1>b, <1>2 DEF sub_register
<1>5. /\ base \in Bases /\ s \in Positions
      /\ u \in [Positions -> Int] /\ v \in [Positions -> Int]
      /\ \A k \in s .. e : k \in Positions
  BY FieldFacts DEF Bounds
<1>6. a \in [Positions -> Int] /\ \A k \in Positions : a[k] = u[k] + v[k]
  <2>1. \A k \in Positions : u[k] + v[k] \in Int
    BY <1>5
  <2> QED BY <2>1 DEF Sums
<1>7. Combines(a, u, v, add, s, e)
  <2>1. \A k \in Positions : u[k] + v[k] = u[k] + add * v[k]
    BY <1>1, <1>5
  <2> HIDE DEF a
  <2> QED BY <1>5, <1>6, <2>1 DEF Combines
<1>8. y \in Word /\ \A k \in Positions : k \notin s .. e => y[k] = u[k]
  <2> HIDE DEF a
  <2> QED BY <1>6, LoopType
<1>9. DigitsOn(y, s, e, base)
  <2> HIDE DEF a
  <2> QED BY <1>a, <1>b, <1>6, <1>7, SumIsExact
<1>10. \A k \in s .. e : y[k] = (a[k] + add * C(k)) - add * base * C(k + 1)
  <2> HIDE DEF a
  <2>1. LoopTakes(u, a, s, e, c0, add, base, no)
    BY <1>a, <1>b, <1>6, <1>7, SumTakes
  <2>2. LET x == Loop(u, a, s, e, c0, add, base, no).value
            B(i) == Carry(a, s, c0, add, base, no, i)
        IN \A k \in s .. e : Leaves(x[k], a[k], add, base, B(k), B(k + 1))
    BY <1>6, <2>1, LoopDigits
  <2> QED BY Zenon, <2>2 DEF Leaves
<1>11. C(s) = 0 /\ r.carry = C(e + 1) /\ \A i \in Bounds : i >= s => C(i) \in {0, 1}
  <2>1. r.carry = C(e + 1)
    BY DEF Loop
  <2> HIDE DEF a
  <2>2. /\ \A i \in 0 .. s : C(i) = c0
        /\ \A i \in s .. 15 : C(i + 1) = CarryInto(a, add, base, no, i, C(i))
        /\ \A i \in Bounds : C(i) \in 0 .. 16
        /\ \A i \in s + 1 .. 16 : C(i) \in {0, 1}
    BY <1>c, CarryObeys
  <2> HIDE DEF C, r
  <2> QED BY <1>b, <2>1, <2>2 DEF Bounds, Positions
<1> HIDE DEF a, r, C
<1>12. y \in [Positions -> Int]
  BY <1>8, FieldFacts
<1> HIDE DEF y
<1>13. b \in [Positions -> Int] /\ \A k \in Positions : b[k] = y[k] - v[k]
  <2>1. \A k \in Positions : y[k] - v[k] \in Int
    BY <1>5, <1>12
  <2> QED BY <2>1 DEF Differences
<1>14. Combines(b, y, v, sub, s, e)
  <2>1. \A k \in Positions : y[k] - v[k] = y[k] + sub * v[k]
    BY <1>2, <1>5, <1>12
  <2> HIDE DEF b
  <2> QED BY <1>5, <1>13, <2>1 DEF Combines
<1>15. q.value \in Word /\ \A k \in Positions : k \notin s .. e => q.value[k] = y[k]
  <2> HIDE DEF b
  <2> QED BY <1>8, <1>13, LoopType
<1>16. \A k \in s .. e : /\ q.value[k] \in 0 .. base - 1
                         /\ q.value[k] = (b[k] + sub * D(k)) - sub * base * D(k + 1)
  <2> HIDE DEF b
  <2>1. LoopTakes(y, b, s, e, c0, sub, base, no)
    BY <1>a, <1>b, <1>8, <1>9, <1>13, <1>14, SumTakes
  <2>2. LET x == Loop(y, b, s, e, c0, sub, base, no).value
            B(i) == Carry(b, s, c0, sub, base, no, i)
        IN \A k \in s .. e : Leaves(x[k], b[k], sub, base, B(k), B(k + 1))
    BY <1>8, <1>13, <2>1, LoopDigits
  <2> QED BY Zenon, <2>2 DEF Leaves
<1>17. D(s) = 0 /\ q.carry = D(e + 1) /\ \A i \in Bounds : i >= s => D(i) \in {0, 1}
  <2>1. q.carry = D(e + 1)
    BY DEF Loop
  <2> HIDE DEF b
  <2>2. /\ \A i \in 0 .. s : D(i) = c0
        /\ \A i \in s .. 15 : D(i + 1) = CarryInto(b, sub, base, no, i, D(i))
        /\ \A i \in Bounds : D(i) \in 0 .. 16
        /\ \A i \in s + 1 .. 16 : D(i) \in {0, 1}
    BY <1>c, CarryObeys
  <2> HIDE DEF D, q
  <2> QED BY <1>b, <2>1, <2>2 DEF Bounds, Positions
<1>18. q = [value |-> q.value, carry |-> q.carry] /\ DOMAIN q.value = Positions
  BY DEF Loop
<1> HIDE DEF b, q, D
<1>19. ASSUME NEW k \in s .. e, D(k) = C(k)
       PROVE  D(k + 1) = C(k + 1) /\ q.value[k] = u[k]
  <2>1. k \in Positions /\ k \in Bounds /\ k + 1 \in Bounds /\ k >= s /\ k + 1 >= s
    BY <1>5 DEF Bounds, Positions
  <2>2. /\ a[k] = u[k] + v[k] /\ b[k] = y[k] - v[k] /\ u[k] \in Int /\ v[k] \in Int /\ y[k] \in Int
        /\ C(k) \in {0, 1} /\ C(k + 1) \in {0, 1} /\ D(k + 1) \in {0, 1}
        /\ q.value[k] \in 0 .. base - 1
    BY <1>5, <1>6, <1>11, <1>12, <1>13, <1>16, <1>17, <2>1
  <2>3. u[k] \in 0 .. base - 1
    <3>1. u[k] \in 0 .. 15 /\ u[k] < base
      BY <2>1, FieldFacts DEF DigitsOn
    <3> QED BY <3>1 DEF Radices
  <2>4. y[k] = ((u[k] + v[k]) + 1 * C(k)) - 1 * base * C(k + 1)
    BY Zenon, <1>1, <1>10, <2>2
  <2>5. q.value[k] = ((y[k] - v[k]) + (-1) * C(k)) - (-1) * base * D(k + 1)
    BY Zenon, <1>2, <1>16, <1>19, <2>2
  <2> QED BY <2>2, <2>3, <2>4, <2>5, AddStep
<1> DEFINE Q == {i \in Bounds : s <= i /\ i <= e + 1 => D(i) = C(i)}
<1>20. 0 \in Q
  BY <1>5, <1>11, <1>17 DEF Bounds, Positions
<1>21. ASSUME NEW i \in Positions, i \in Q PROVE i + 1 \in Q
  <2>1. i + 1 \in Bounds
    BY DEF Bounds, Positions
  <2> SUFFICES ASSUME s <= i + 1, i + 1 <= e + 1 PROVE D(i + 1) = C(i + 1)
    BY <2>1
  <2>2. CASE s = i + 1
    BY <1>11, <1>17, <2>2
  <2>3. CASE s # i + 1
    <3>1. i \in s .. e /\ s <= i /\ i <= e + 1
      BY <1>5, <2>3 DEF Positions
    <3> QED BY <1>19, <1>21, <3>1
  <2> QED BY <2>2, <2>3
<1>22. Bounds \subseteq Q
  <2> HIDE DEF Q
  <2> QED BY <1>20, <1>21, Upwards
<1>23. \A i \in s .. e + 1 : D(i) = C(i)
  BY <1>5, <1>22 DEF Bounds, Positions
<1>24. q.carry = r.carry
  <2>1. e + 1 \in s .. e + 1
    BY <1>5 DEF Positions
  <2> QED BY <1>11, <1>17, <1>23, <2>1
<1>25. q.value = u
  <2>1. ASSUME NEW k \in Positions PROVE q.value[k] = u[k]
    <3>1. CASE k \in s .. e
      <4>1. k \in s .. e + 1
        BY <1>5, <3>1 DEF Positions
      <4> QED BY <1>19, <1>23, <3>1, <4>1
    <3>2. CASE k \notin s .. e
      BY <1>8, <1>15, <3>2
    <3> QED BY <3>1, <3>2
  <2>2. DOMAIN u = Positions
    BY <1>5
  <2> QED BY <1>15, <1>18, <2>1, <2>2 DEF Word
<1>26. sub_register(y, y, v, s, e, base) = [value |-> u, carry |-> r.carry]
  BY Zenon, <1>4, <1>18, <1>24, <1>25
<1> QED BY Zenon, <1>3, <1>26 DEF y

-----------------------------------------------------------------------------
(* The tests.                                                              *)
LEMMA NumberOfWord ==
  ASSUME NEW w \in Word, NEW e \in Positions, NEW b \in Bases
  PROVE  /\ Number(w, e + 1, e, b) = 0
         /\ \A i \in 0 .. e : Number(w, i, e, b) = w[i] + b * Number(w, i + 1, e, b)
         /\ \A i \in 0 .. e + 1 : Number(w, i, e, b) \in Int
         /\ \A i \in 0 .. e : w[i] \in 0 .. 15
<1>1. \A i \in 0 .. e : w[i] \in 0 .. 15
  BY DEF Word, Nibble, Positions
<1>2. \A i \in 0 .. e : w[i] \in Int
  BY <1>1
<1> QED BY <1>1, <1>2, NumberObeys

LEMMA OrderOfNumbers ==
  ASSUME NEW u \in Word, NEW v \in Word, NEW e \in Positions, NEW s \in 0 .. e
  PROVE  /\ is_less_register(u, v, s, e) <=> Number(u, s, e, 16) < Number(v, s, e, 16)
         /\ is_equal_register(u, v, s, e) <=> Number(u, s, e, 16) = Number(v, s, e, 16)
<1> DEFINE n(w, i) == Number(w, i, e, 16)
           Less(i) == \E k \in i .. e : u[k] < v[k] /\ \A j \in k + 1 .. e : u[j] = v[j]
           Equal(i) == \A k \in i .. e : u[k] = v[k]
           Q == {i \in Bounds : i >= s => /\ Less(i) <=> n(u, i) < n(v, i)
                                          /\ Equal(i) <=> n(u, i) = n(v, i)}
<1>1. ASSUME NEW w \in Word
      PROVE  /\ n(w, e + 1) = 0
             /\ \A i \in 0 .. e : n(w, i) = w[i] + 16 * n(w, i + 1)
             /\ \A i \in 0 .. e + 1 : n(w, i) \in Int
             /\ \A i \in 0 .. e : w[i] \in 0 .. 15
  <2>1. 16 \in Bases
    BY DEF Bases
  <2> QED BY <2>1, NumberOfWord
<1> HIDE DEF n
<1>2. e + 1 \in Q
  <2>1. e + 1 \in Bounds /\ \A k : k \notin e + 1 .. e
    BY DEF Bounds, Positions
  <2>2. ~Less(e + 1) /\ Equal(e + 1)
    BY <2>1
  <2> QED BY <1>1, <2>1, <2>2
<1>3. ASSUME NEW i \in 0 .. e, i + 1 \in Q PROVE i \in Q
  <2>1. i \in Bounds /\ i + 1 \in 0 .. e + 1 /\ i \in Int
    BY DEF Bounds, Positions
  <2> SUFFICES ASSUME i >= s
               PROVE  /\ Less(i) <=> n(u, i) < n(v, i)
                      /\ Equal(i) <=> n(u, i) = n(v, i)
    BY <2>1
  <2>2. /\ Less(i + 1) <=> n(u, i + 1) < n(v, i + 1)
        /\ Equal(i + 1) <=> n(u, i + 1) = n(v, i + 1)
    BY <1>3, <2>1 DEF Positions
  <2>3. (\A k \in i .. e : k = i \/ k \in i + 1 .. e) /\ i \in i .. e
        /\ \A k \in i + 1 .. e : k \in i .. e
    BY DEF Positions
  <2>4. Equal(i) <=> u[i] = v[i] /\ Equal(i + 1)
    BY <2>3
  <2>5. Less(i) <=> Less(i + 1) \/ (u[i] < v[i] /\ Equal(i + 1))
    BY <2>3
  <2> HIDE DEF Less, Equal
  <2>6. /\ n(u, i) = u[i] + 16 * n(u, i + 1) /\ n(v, i) = v[i] + 16 * n(v, i + 1)
        /\ n(u, i + 1) \in Int /\ n(v, i + 1) \in Int
        /\ u[i] \in 0 .. 15 /\ v[i] \in 0 .. 15
    BY <1>1, <2>1
  <2>7. /\ n(u, i) < n(v, i) <=> \/ n(u, i + 1) < n(v, i + 1)
                                 \/ u[i] < v[i] /\ n(u, i + 1) = n(v, i + 1)
        /\ n(u, i) = n(v, i) <=> u[i] = v[i] /\ n(u, i + 1) = n(v, i + 1)
    BY <2>6
  <2> QED BY <2>2, <2>4, <2>5, <2>7
<1>4. s \in Q
  <2> HIDE DEF Q
  <2>1. 0 .. e + 1 \subseteq Q
    BY <1>2, <1>3, Downwards
  <2> QED BY <2>1 DEF Positions
<1>5. s \in Bounds /\ s >= s
  BY DEF Bounds, Positions
<1> QED BY <1>4, <1>5 DEF n, is_less_register, is_equal_register

LEMMA TestsAreExact ==
  ASSUME NEW u \in Word, NEW v \in Word, NEW e \in Positions, NEW s \in 0 .. e
  PROVE  LET d == Number(u, s, e, 16)
             t == Number(v, s, e, 16)
         IN /\ is_zero_register(u, s, e) <=> d = 0
            /\ is_equal_register(u, v, s, e) <=> d = t
            /\ is_less_register(u, v, s, e) <=> d < t
            /\ is_less_or_equal_register(u, v, s, e) <=> d <= t
            /\ is_greater_register(u, v, s, e) <=> d > t
            /\ is_greater_or_equal_register(u, v, s, e) <=> d >= t
<1> DEFINE d == Number(u, s, e, 16)
           t == Number(v, s, e, 16)
<1>1. /\ is_less_register(u, v, s, e) <=> d < t
      /\ is_equal_register(u, v, s, e) <=> d = t
      /\ is_less_register(v, u, s, e) <=> t < d
  BY OrderOfNumbers
<1>2. d \in Int /\ t \in Int /\ \A k \in s .. e : u[k] \in 0 .. 15 /\ v[k] \in 0 .. 15
  <2>1. 16 \in Bases /\ s \in 0 .. e + 1
    BY DEF Bases, Positions
  <2>2. \A k \in s .. e : k \in 0 .. e
    BY DEF Positions
  <2> QED BY <2>1, <2>2, NumberOfWord
<1>3. is_zero_register(u, s, e) <=> d = 0
  <2>1. 16 \in Bases /\ \A k \in s .. e : u[k] \in 0 .. 16 - 1
    BY <1>2 DEF Bases
  <2>2. \A k \in 0 .. e : u[k] \in Int
    BY DEF Word, Nibble, Positions
  <2>3. Number(u, s, e, 16) = 0 <=> \A k \in s .. e : u[k] = 0
    BY <2>1, <2>2, NumberOfDigits
  <2> QED BY <2>3 DEF is_zero_register
<1>4. is_greater_register(u, v, s, e) <=> is_less_register(v, u, s, e)
  <2>1. \A k \in s .. e : u[k] > v[k] <=> v[k] < u[k]
    BY <1>2
  <2>2. \A k \in s .. e : (\A j \in k + 1 .. e : u[j] = v[j]) <=> \A j \in k + 1 .. e : v[j] = u[j]
    OBVIOUS
  <2> QED BY <2>1, <2>2 DEF is_greater_register, is_less_register
<1> HIDE DEF d, t
<1>5. /\ is_less_or_equal_register(u, v, s, e) <=> d <= t
      /\ is_greater_or_equal_register(u, v, s, e) <=> d >= t
      /\ is_greater_register(u, v, s, e) <=> d > t
  BY <1>1, <1>2, <1>4 DEF is_less_or_equal_register, is_greater_or_equal_register
<1> QED BY <1>1, <1>3, <1>5 DEF d, t

-----------------------------------------------------------------------------
(* The shifts.                                                             *)
LEMMA ShiftedWords ==
  ASSUME NEW w \in Word, NEW e \in Positions, NEW s \in 0 .. e
  PROVE  /\ shift_left_register(w, s, e) \in Word
         /\ shift_right_register(w, s, e) \in Word
         /\ shift_right_bit_register(w, s, e) \in Word
         /\ shift_left_circ_register(w, s, e) \in Word
         /\ shift_right_circ_register(w, s, e) \in Word
<1>1. \A k \in Positions : w[k] \in 0 .. 15
  BY DEF Word, Nibble
<1>2. /\ \A k \in s + 1 .. e : k - 1 \in Positions
      /\ \A k \in s .. e - 1 : k + 1 \in Positions
      /\ s \in Positions
  BY DEF Positions
<1>3. shift_left_register(w, s, e) \in Word /\ shift_right_register(w, s, e) \in Word
  BY <1>1, <1>2 DEF shift_left_register, shift_right_register, Word, Nibble
<1>4. shift_left_circ_register(w, s, e) \in Word /\ shift_right_circ_register(w, s, e) \in Word
  BY <1>1, <1>2 DEF shift_left_circ_register, shift_right_circ_register, Word, Nibble
<1>5. shift_right_bit_register(w, s, e) \in Word
  <2>1. ASSUME NEW k \in Positions
        PROVE  (IF k \in s .. e THEN w[k] \div 2 + 8 * (IF k = e THEN 0 ELSE w[k + 1] % 2) ELSE w[k])
                 \in 0 .. 15
    <3>1. w[k] \in 0 .. 15 /\ w[k] \div 2 \in 0 .. 7
      BY <1>1
    <3>2. CASE k \in s .. e /\ k # e
      <4>1. w[k + 1] \in 0 .. 15
        BY <1>1, <1>2, <3>2 DEF Positions
      <4>2. w[k + 1] % 2 \in 0 .. 1
        BY <4>1
      <4> QED BY <3>1, <3>2, <4>2
    <3> QED BY <3>1, <3>2
  <2> QED BY <2>1 DEF shift_right_bit_register, Word, Nibble
<1> QED BY <1>3, <1>4, <1>5

LEMMA Remainder ==
  ASSUME NEW m \in Nat \ {0}, NEW n \in Int, NEW q \in Int, NEW r \in 0 .. m - 1,
         n = r + m * q
  PROVE  n % m = r
OBVIOUS

LEMMA ShiftLeftMultiplies ==
  ASSUME NEW w \in Word, NEW e \in Positions, NEW s \in 0 .. e
  PROVE  Number(shift_left_register(w, s, e), s, e, 16)
           = (16 * Number(w, s, e, 16)) % Power(16, e + 1 - s)
<1> DEFINE x == shift_left_register(w, s, e)
           n(i) == Number(w, i, e, 16)
           y(i) == Number(x, i, e, 16)
           p(i) == Power(16, e + 1 - i)
           In(i) == IF i = s THEN 0 ELSE w[i - 1]
           Q == {i \in Bounds : i >= s => y(i) + p(i) * w[e] = In(i) + 16 * n(i)}
<1>1. 16 \in Bases /\ s \in 0 .. e + 1 /\ x \in Word
  BY ShiftedWords DEF Bases, Positions
<1>2. /\ n(e + 1) = 0
      /\ \A i \in 0 .. e : n(i) = w[i] + 16 * n(i + 1)
      /\ \A i \in 0 .. e + 1 : n(i) \in Int
      /\ \A i \in 0 .. e : w[i] \in 0 .. 15
  BY <1>1, NumberOfWord
<1>3. \A i \in s .. e : x[i] = In(i)
  BY DEF shift_left_register, Positions
<1> HIDE DEF x
<1>4. /\ y(e + 1) = 0
      /\ \A i \in 0 .. e : y(i) = x[i] + 16 * y(i + 1)
      /\ \A i \in 0 .. e + 1 : y(i) \in Int
      /\ \A i \in 0 .. e : x[i] \in 0 .. 15
  BY <1>1, NumberOfWord
<1>5. /\ p(e + 1) = 1
      /\ \A i \in 0 .. e : p(i) = 16 * p(i + 1)
      /\ \A i \in 0 .. e + 1 : p(i) \in Nat \ {0}
  BY <1>1, PowersOfField
<1>6. y(s) \in 0 .. p(s) - 1
  <2>1. \A i \in 0 .. e : x[i] \in Int /\ x[i] \in 0 .. 16 - 1
    BY <1>4
  <2>2. \A i \in s .. e : i \in 0 .. e
    BY DEF Positions
  <2> QED BY <1>1, <2>1, <2>2, NumberOfDigits
<1> HIDE DEF n, y, p
<1>7. e + 1 \in Q
  <2>1. e + 1 \in Bounds /\ e + 1 # s /\ (e + 1) - 1 = e /\ e \in 0 .. e
    BY DEF Bounds, Positions
  <2>2. w[e] \in 0 .. 15
    BY <1>2, <2>1
  <2> QED BY <1>2, <1>4, <1>5, <2>1, <2>2
<1>8. ASSUME NEW i \in 0 .. e, i + 1 \in Q PROVE i \in Q
  <2>1. /\ i \in Bounds /\ i + 1 \in 0 .. e + 1 /\ i \in Int /\ e \in 0 .. e
    BY DEF Bounds, Positions
  <2> SUFFICES ASSUME i >= s PROVE y(i) + p(i) * w[e] = In(i) + 16 * n(i)
    BY <2>1
  <2>2. i \in s .. e /\ In(i + 1) = w[i]
    BY <2>1 DEF Positions
  <2>3. y(i + 1) + p(i + 1) * w[e] = w[i] + 16 * n(i + 1)
    BY <1>8, <2>1, <2>2 DEF Positions
  <2>4. /\ y(i) = In(i) + 16 * y(i + 1) /\ n(i) = w[i] + 16 * n(i + 1) /\ p(i) = 16 * p(i + 1)
        /\ y(i + 1) \in Int /\ n(i + 1) \in Int /\ p(i + 1) \in Int
        /\ w[i] \in Int /\ w[e] \in Int /\ In(i) \in Int
    <3>1. In(i) \in Int
      BY <1>3, <1>4, <2>2
    <3>2. w[i] \in 0 .. 15 /\ w[e] \in 0 .. 15
      BY <1>2, <2>1
    <3> HIDE DEF In
    <3> QED BY <1>2, <1>3, <1>4, <1>5, <2>1, <2>2, <3>1, <3>2
  <2> HIDE DEF In
  <2>5. PICK q \in Int : q = p(i + 1) * w[e]
    BY <2>4
  <2>6. p(i) * w[e] = 16 * q
    BY <2>4, <2>5
  <2> QED BY <2>3, <2>4, <2>5, <2>6
<1>9. s \in Q
  <2> HIDE DEF Q
  <2>1. 0 .. e + 1 \subseteq Q
    BY <1>7, <1>8, Downwards
  <2> QED BY <2>1 DEF Positions
<1>10. s \in Int /\ e \in 0 .. e
  BY DEF Positions
<1>11. y(s) + p(s) * w[e] = 16 * n(s)
  <2>1. n(s) \in Int
    BY <1>1, <1>2
  <2> QED BY <1>9, <1>10, <2>1
<1>12. p(s) \in Nat \ {0} /\ n(s) \in Int /\ w[e] \in Int
  <2>1. w[e] \in 0 .. 15
    BY <1>2, <1>10
  <2>2. p(s) \in Nat \ {0} /\ n(s) \in Int
    BY <1>1, <1>2, <1>5
  <2> QED BY <2>1, <2>2
<1>13. (16 * n(s)) % p(s) = y(s)
  <2>1. PICK k \in Int : k = 16 * n(s)
    BY <1>12
  <2>2. k = y(s) + p(s) * w[e]
    BY Zenon, <1>11, <2>1
  <2>3. k % p(s) = y(s)
    BY <1>6, <1>12, <2>2, Remainder
  <2> QED BY Zenon, <2>1, <2>3
<1> QED BY <1>13 DEF n, y, p, x

LEMMA ShiftRightDivides ==
  ASSUME NEW w \in Word, NEW e \in Positions, NEW s \in 0 .. e
  PROVE  /\ Number(shift_right_register(w, s, e), s, e, 16) = Number(w, s, e, 16) \div 16
         /\ w[s] = Number(w, s, e, 16) % 16
<1> DEFINE x == shift_right_register(w, s, e)
           n(i) == Number(w, i, e, 16)
           y(i) == Number(x, i, e, 16)
           Q == {i \in Bounds : i >= s /\ i <= e => y(i) = n(i + 1)}
<1>1. 16 \in Bases /\ s \in 0 .. e + 1 /\ x \in Word
  BY ShiftedWords DEF Bases, Positions
<1>2. /\ n(e + 1) = 0
      /\ \A i \in 0 .. e : n(i) = w[i] + 16 * n(i + 1)
      /\ \A i \in 0 .. e + 1 : n(i) \in Int
      /\ \A i \in 0 .. e : w[i] \in 0 .. 15
  BY <1>1, NumberOfWord
<1>3. x[e] = 0 /\ \A i \in s .. e - 1 : x[i] = w[i + 1]
  BY DEF shift_right_register, Positions
<1> HIDE DEF x
<1>4. /\ y(e + 1) = 0
      /\ \A i \in 0 .. e : y(i) = x[i] + 16 * y(i + 1)
      /\ \A i \in 0 .. e + 1 : y(i) \in Int
  BY <1>1, NumberOfWord
<1> HIDE DEF n, y
<1>5. e + 1 \in Q
  BY DEF Bounds, Positions
<1>6. ASSUME NEW i \in 0 .. e, i + 1 \in Q PROVE i \in Q
  <2>1. i \in Bounds /\ i + 1 \in 0 .. e + 1 /\ i \in Int /\ e \in 0 .. e
    BY DEF Bounds, Positions
  <2> SUFFICES ASSUME i >= s PROVE y(i) = n(i + 1)
    BY <2>1
  <2>2. CASE i = e
    BY <1>2, <1>3, <1>4, <2>1, <2>2
  <2>3. CASE i # e
    <3>1. i \in s .. e - 1 /\ i + 1 \in 0 .. e /\ i + 1 >= s /\ i + 1 <= e
      BY <2>1, <2>3 DEF Positions
    <3>2. y(i + 1) = n((i + 1) + 1)
      BY <1>6, <3>1
    <3>3. y(i) = w[i + 1] + 16 * y(i + 1)
      BY <1>3, <1>4, <3>1
    <3>4. n(i + 1) = w[i + 1] + 16 * n((i + 1) + 1)
      BY <1>2, <3>1
    <3> QED BY Zenon, <3>2, <3>3, <3>4
  <2> QED BY <2>2, <2>3
<1>7. s \in Q
  <2> HIDE DEF Q
  <2>1. 0 .. e + 1 \subseteq Q
    BY <1>5, <1>6, Downwards
  <2> QED BY <2>1 DEF Positions
<1>8. n(s) = w[s] + 16 * y(s) /\ w[s] \in 0 .. 15 /\ y(s) \in Int /\ n(s) \in Int
  <2>1. y(s) = n(s + 1)
    BY <1>7 DEF Positions
  <2> QED BY <1>1, <1>2, <1>4, <2>1
<1>9. y(s) = n(s) \div 16 /\ w[s] = n(s) % 16
  BY <1>8
<1> QED BY <1>9 DEF n, y, x

(* A number's last bit and the others.                                     *)
Half(n)    == n \div 2
LastBit(n) == n % 2

LEMMA Halves ==
  ASSUME NEW y \in Int, NEW b \in 0 .. 1, NEW n \in Int, n = 2 * y + b
  PROVE  Half(n) = y /\ LastBit(n) = b
BY DEF Half, LastBit

LEMMA HalvesOfNibble ==
  ASSUME NEW n \in 0 .. 15
  PROVE  Half(n) \in 0 .. 7 /\ LastBit(n) \in 0 .. 1 /\ 2 * Half(n) + LastBit(n) = n
<1>1. PICK y \in 0 .. 7, b \in 0 .. 1 : n = 2 * y + b
  <2>1. CASE n \in {0, 2, 4, 6, 8, 10, 12, 14}
    BY <2>1
  <2>2. CASE n \in {1, 3, 5, 7, 9, 11, 13, 15}
    BY <2>2
  <2> QED BY <2>1, <2>2
<1>2. Half(n) = y /\ LastBit(n) = b
  BY <1>1, Halves
<1> QED BY <1>1, <1>2

LEMMA ShiftRightBitHalves ==
  ASSUME NEW w \in Word, NEW e \in Positions, NEW s \in 0 .. e
  PROVE  /\ Number(shift_right_bit_register(w, s, e), s, e, 16) = Number(w, s, e, 16) \div 2
         /\ w[s] % 2 = Number(w, s, e, 16) % 2
<1> DEFINE x == shift_right_bit_register(w, s, e)
           n(i) == Number(w, i, e, 16)
           y(i) == Number(x, i, e, 16)
           Q == {i \in Bounds : i >= s /\ i <= e => 2 * y(i) + LastBit(w[i]) = n(i)}
<1>1. 16 \in Bases /\ s \in 0 .. e + 1 /\ x \in Word
  BY ShiftedWords DEF Bases, Positions
<1>2. /\ n(e + 1) = 0
      /\ \A i \in 0 .. e : n(i) = w[i] + 16 * n(i + 1)
      /\ \A i \in 0 .. e + 1 : n(i) \in Int
      /\ \A i \in 0 .. e : w[i] \in 0 .. 15
  BY <1>1, NumberOfWord
<1>3. \A i \in s .. e : x[i] = Half(w[i]) + 8 * (IF i = e THEN 0 ELSE LastBit(w[i + 1]))
  BY DEF shift_right_bit_register, Positions, Half, LastBit
<1> HIDE DEF x
<1>4. /\ y(e + 1) = 0
      /\ \A i \in 0 .. e : y(i) = x[i] + 16 * y(i + 1)
      /\ \A i \in 0 .. e + 1 : y(i) \in Int
  BY <1>1, NumberOfWord
<1> HIDE DEF n, y
<1>5. e + 1 \in Q
  BY DEF Bounds, Positions
<1>6. ASSUME NEW i \in 0 .. e, i + 1 \in Q PROVE i \in Q
  <2>1. i \in Bounds /\ i + 1 \in 0 .. e + 1 /\ i \in Int
    BY DEF Bounds, Positions
  <2> SUFFICES ASSUME i >= s PROVE 2 * y(i) + LastBit(w[i]) = n(i)
    BY <2>1
  <2>2. i \in s .. e
    BY <2>1 DEF Positions
  <2>3. /\ n(i) = w[i] + 16 * n(i + 1) /\ y(i) = x[i] + 16 * y(i + 1)
        /\ n(i + 1) \in Int /\ y(i + 1) \in Int /\ w[i] \in 0 .. 15
    BY <1>2, <1>4, <2>1
  <2>4. CASE i = e
    <3>1. n(i + 1) = 0 /\ y(i + 1) = 0 /\ x[i] = Half(w[i]) + 8 * 0
      BY <1>2, <1>3, <1>4, <2>2, <2>3, <2>4
    <3>2. Half(w[i]) \in 0 .. 7 /\ LastBit(w[i]) \in 0 .. 1 /\ 2 * Half(w[i]) + LastBit(w[i]) = w[i]
      BY <2>3, HalvesOfNibble
    <3> QED BY <2>3, <3>1, <3>2
  <2>5. CASE i # e
    <3>1. i + 1 \in 0 .. e /\ i + 1 >= s /\ i + 1 <= e
      BY <2>1, <2>5 DEF Positions
    <3>2. 2 * y(i + 1) + LastBit(w[i + 1]) = n(i + 1)
      BY <1>6, <3>1
    <3>3. w[i + 1] \in 0 .. 15
      BY <1>2, <3>1
    <3>4. x[i] = Half(w[i]) + 8 * LastBit(w[i + 1])
      BY <1>3, <2>2, <2>5
    <3>5. /\ Half(w[i]) \in 0 .. 7 /\ LastBit(w[i]) \in 0 .. 1 /\ LastBit(w[i + 1]) \in 0 .. 1
          /\ 2 * Half(w[i]) + LastBit(w[i]) = w[i]
      BY <2>3, <3>3, HalvesOfNibble
    <3> QED BY <2>3, <3>2, <3>4, <3>5
  <2> QED BY <2>4, <2>5
<1>7. s \in Q
  <2> HIDE DEF Q
  <2>1. 0 .. e + 1 \subseteq Q
    BY <1>5, <1>6, Downwards
  <2> QED BY <2>1 DEF Positions
<1>8. 2 * y(s) + LastBit(w[s]) = n(s)
  <2>1. s >= s /\ s <= e
    BY DEF Positions
  <2> QED BY <1>7, <2>1
<1>9. /\ w[s] \in 0 .. 15 /\ y(s) \in Int /\ n(s) \in Int
      /\ n(s) = w[s] + 16 * n(s + 1) /\ n(s + 1) \in Int
  <2>1. s \in 0 .. e /\ s + 1 \in 0 .. e + 1
    BY DEF Positions
  <2> QED BY <1>1, <1>2, <1>4, <2>1
<1>10. LastBit(w[s]) \in 0 .. 1
  BY <1>9, HalvesOfNibble
<1>11. Half(n(s)) = y(s) /\ LastBit(n(s)) = LastBit(w[s])
  BY <1>8, <1>9, <1>10, Halves
<1> QED BY <1>11 DEF n, y, x, Half, LastBit

LEMMA CircularShifts ==
  ASSUME NEW w \in Word
  PROVE  /\ shift_right_circ_register(shift_left_circ_register(w, 0, 15), 0, 15) = w
         /\ shift_left_circ_register(shift_right_circ_register(w, 0, 15), 0, 15) = w
<1> DEFINE l == shift_left_circ_register(w, 0, 15)
           r == shift_right_circ_register(w, 0, 15)
<1>1. \A i \in Positions : l[i] = IF i = 0 THEN w[15] ELSE w[i - 1]
  BY DEF shift_left_circ_register, Positions
<1>2. \A i \in Positions : r[i] = IF i = 15 THEN w[0] ELSE w[i + 1]
  BY DEF shift_right_circ_register, Positions
<1> HIDE DEF l, r
<1>3. shift_right_circ_register(l, 0, 15) = w
  <2>1. ASSUME NEW i \in Positions PROVE shift_right_circ_register(l, 0, 15)[i] = w[i]
    <3>1. CASE i = 15
      BY <1>1, <3>1 DEF shift_right_circ_register, Positions
    <3>2. CASE i # 15
      <4>1. i + 1 \in Positions /\ i + 1 # 0 /\ (i + 1) - 1 = i /\ i \in 0 .. 15 - 1
        BY <3>2 DEF Positions
      <4> QED BY <1>1, <3>2, <4>1 DEF shift_right_circ_register
    <3> QED BY <3>1, <3>2
  <2> QED BY <2>1 DEF shift_right_circ_register, Word
<1>4. shift_left_circ_register(r, 0, 15) = w
  <2>1. ASSUME NEW i \in Positions PROVE shift_left_circ_register(r, 0, 15)[i] = w[i]
    <3>1. CASE i = 0
      BY <1>2, <3>1 DEF shift_left_circ_register, Positions
    <3>2. CASE i # 0
      <4>1. i - 1 \in Positions /\ i - 1 # 15 /\ (i - 1) + 1 = i /\ i \in 0 + 1 .. 15
        BY <3>2 DEF Positions
      <4> QED BY <1>2, <3>2, <4>1 DEF shift_left_circ_register
    <3> QED BY <3>1, <3>2
  <2> QED BY <2>1 DEF shift_left_circ_register, Word
<1> QED BY <1>3, <1>4 DEF l, r

-----------------------------------------------------------------------------
(* What every operation on a field keeps: a register of nibbles, and those *)
(* outside the field as they were.                                         *)
Keeps(x, w, s, e) == x \in Word /\ \A k \in Positions : k \notin s .. e => x[k] = w[k]

Yields(r, w, s, e) == Keeps(r.value, w, s, e) /\ r.carry \in {0, 1}

LEMMA LoopKeeps ==
  ASSUME NEW w \in Word, NEW a \in [Positions -> Int], NEW e \in Positions, NEW s \in 0 .. e,
         NEW c0 \in Bounds, NEW sign \in Signs, NEW base \in Radices, NEW breaks \in BOOLEAN
  PROVE  Yields(Loop(w, a, s, e, c0, sign, base, breaks), w, s, e)
BY LoopType DEF Yields, Keeps

LEMMA ArithmeticKeeps ==
  ASSUME NEW w \in Word, NEW u \in Word, NEW v \in Word,
         NEW e \in Positions, NEW s \in 0 .. e, NEW base \in Radices
  PROVE  /\ Yields(add_register(w, u, v, s, e, base), w, s, e)
         /\ Yields(sub_register(w, u, v, s, e, base), w, s, e)
         /\ Yields(inc_register(w, s, e, base), w, s, e)
         /\ Yields(dec_register(w, s, e, base), w, s, e)
         /\ Yields(complement_2_register(w, s, e, base), w, s, e)
         /\ Yields(complement_1_register(w, s, e, base), w, s, e)
<1>1. PICK add \in Signs : add = 1
  BY DEF Signs
<1>2. PICK sub \in Signs : sub = -1
  BY DEF Signs
<1>3. PICK no \in BOOLEAN : no = FALSE
  OBVIOUS
<1>4. PICK yes \in BOOLEAN : yes = TRUE
  OBVIOUS
<1>5. PICK zero \in Bounds : zero = 0
  BY DEF Bounds
<1>6. PICK one \in Bounds : one = 1
  BY DEF Bounds
<1>7. w \in [Positions -> Int] /\ u \in [Positions -> Int] /\ v \in [Positions -> Int]
  BY FieldFacts
<1>8. /\ Sums(u, v) \in [Positions -> Int]
      /\ Differences(u, v) \in [Positions -> Int]
      /\ Complements(w, base) \in [Positions -> Int]
  <2>1. \A k \in Positions : u[k] + v[k] \in Int /\ u[k] - v[k] \in Int /\ base - 1 - w[k] \in Int
    BY <1>7 DEF Radices
  <2> QED BY <2>1 DEF Sums, Differences, Complements
<1>9. Yields(add_register(w, u, v, s, e, base), w, s, e)
  <2>1. add_register(w, u, v, s, e, base) = Loop(w, Sums(u, v), s, e, zero, add, base, no)
    BY <1>1, <1>3, <1>5 DEF add_register
  <2>2. Yields(Loop(w, Sums(u, v), s, e, zero, add, base, no), w, s, e)
    BY <1>8, LoopKeeps
  <2> QED BY Zenon, <2>1, <2>2
<1>10. Yields(sub_register(w, u, v, s, e, base), w, s, e)
  <2>1. sub_register(w, u, v, s, e, base) = Loop(w, Differences(u, v), s, e, zero, sub, base, no)
    BY <1>2, <1>3, <1>5 DEF sub_register
  <2>2. Yields(Loop(w, Differences(u, v), s, e, zero, sub, base, no), w, s, e)
    BY <1>8, LoopKeeps
  <2> QED BY Zenon, <2>1, <2>2
<1>11. Yields(inc_register(w, s, e, base), w, s, e)
  <2>1. inc_register(w, s, e, base) = Loop(w, w, s, e, one, add, base, yes)
    BY <1>1, <1>4, <1>6 DEF inc_register
  <2>2. Yields(Loop(w, w, s, e, one, add, base, yes), w, s, e)
    BY <1>7, LoopKeeps
  <2> QED BY Zenon, <2>1, <2>2
<1>12. Yields(dec_register(w, s, e, base), w, s, e)
  <2>1. dec_register(w, s, e, base) = Loop(w, w, s, e, one, sub, base, yes)
    BY <1>2, <1>4, <1>6 DEF dec_register
  <2>2. Yields(Loop(w, w, s, e, one, sub, base, yes), w, s, e)
    BY <1>7, LoopKeeps
  <2> QED BY Zenon, <2>1, <2>2
<1>13. Yields(complement_2_register(w, s, e, base), w, s, e)
  <2>1. complement_2_register(w, s, e, base).value
          = Loop(w, Complements(w, base), s, e, one, add, base, no).value
    BY <1>1, <1>3, <1>6 DEF complement_2_register
  <2>2. Yields(Loop(w, Complements(w, base), s, e, one, add, base, no), w, s, e)
    BY <1>8, LoopKeeps
  <2>3. complement_2_register(w, s, e, base).carry \in {0, 1}
    BY DEF complement_2_register
  <2> QED BY Zenon, <2>1, <2>2, <2>3 DEF Yields
<1>14. Yields(complement_1_register(w, s, e, base), w, s, e)
  <2>1. ASSUME NEW k \in Positions
        PROVE  (base - 1 - w[k]) % 16 \in 0 .. 15 /\ w[k] \in 0 .. 15
    BY DEF Radices, Word, Nibble
  <2> QED BY <2>1 DEF complement_1_register, Yields, Keeps, Word, Nibble
<1> QED BY <1>9, <1>10, <1>11, <1>12, <1>13, <1>14

LEMMA ConstantsKeep ==
  ASSUME NEW w \in Word, NEW e \in Positions, NEW s \in 0 .. e, NEW n \in 1 .. 16, NEW p \in Nibble
  PROVE  /\ Yields(add_register_constant(w, s, e, n), w, s, e)
         /\ Yields(sub_register_constant(w, s, e, n), w, s, e)
         /\ Yields(add_p_plus_one(w, p), w, 0, 4)
<1>1. PICK add \in Signs : add = 1
  BY DEF Signs
<1>2. PICK sub \in Signs : sub = -1
  BY DEF Signs
<1>3. PICK no \in BOOLEAN : no = FALSE
  OBVIOUS
<1>4. PICK yes \in BOOLEAN : yes = TRUE
  OBVIOUS
<1>5. PICK h \in Radices : h = 16
  BY DEF Radices
<1>6. n \in Bounds /\ w \in [Positions -> Int]
  BY FieldFacts, <1>5 DEF Bounds
<1>7. Yields(add_register_constant(w, s, e, n), w, s, e)
  <2>1. add_register_constant(w, s, e, n) = Loop(w, w, s, e, n, add, h, yes)
    BY <1>1, <1>4, <1>5 DEF add_register_constant
  <2>2. Yields(Loop(w, w, s, e, n, add, h, yes), w, s, e)
    BY <1>6, LoopKeeps
  <2> QED BY Zenon, <2>1, <2>2
<1>8. Yields(sub_register_constant(w, s, e, n), w, s, e)
  <2>1. sub_register_constant(w, s, e, n) = Loop(w, w, s, e, n, sub, h, yes)
    BY <1>2, <1>4, <1>5 DEF sub_register_constant
  <2>2. Yields(Loop(w, w, s, e, n, sub, h, yes), w, s, e)
    BY <1>6, LoopKeeps
  <2> QED BY Zenon, <2>1, <2>2
<1>9. Yields(add_p_plus_one(w, p), w, 0, 4)
  <2>1. PICK f \in Positions : f = 4
    BY DEF Positions
  <2>2. PICK b \in 0 .. f : b = 0
    BY <2>1
  <2>3. PICK c \in Bounds : c = p + 1
    BY DEF Bounds, Nibble
  <2>4. add_p_plus_one(w, p) = Loop(w, w, b, f, c, add, h, no)
    BY <1>1, <1>3, <1>5, <2>1, <2>2, <2>3 DEF add_p_plus_one
  <2>5. Yields(Loop(w, w, b, f, c, add, h, no), w, b, f)
    BY <1>6, LoopKeeps
  <2> QED BY Zenon, <2>1, <2>2, <2>4, <2>5
<1> QED BY <1>7, <1>8, <1>9

LEMMA NibblesOfBits ==
  ASSUME NEW m, NEW n
  PROVE  /\ NibbleOf(LAMBDA x, y : x \/ y, m, n) \in Nibble
         /\ NibbleOf(LAMBDA x, y : x /\ y, m, n) \in Nibble
         /\ NibbleOf(LAMBDA x, y : x /\ ~y, m, n) \in Nibble
BY DEF NibbleOf, Nibble

LEMMA MovesKeep ==
  ASSUME NEW w \in Word, NEW v \in Word, NEW e \in Positions, NEW s \in 0 .. e
  PROVE  /\ Keeps(zero_register(w, s, e), w, s, e)
         /\ Keeps(copy_register(w, v, s, e), w, s, e)
         /\ Keeps(or_register(w, w, v, s, e), w, s, e)
         /\ Keeps(and_register(w, w, v, s, e), w, s, e)
         /\ Keeps(shift_left_register(w, s, e), w, s, e)
         /\ Keeps(shift_right_register(w, s, e), w, s, e)
         /\ Keeps(shift_right_bit_register(w, s, e), w, s, e)
<1>1. \A k \in Positions : w[k] \in Nibble /\ v[k] \in Nibble /\ 0 \in Nibble
  BY DEF Word, Nibble
<1>2. Keeps(zero_register(w, s, e), w, s, e) /\ Keeps(copy_register(w, v, s, e), w, s, e)
  BY <1>1 DEF zero_register, copy_register, Keeps, Word
<1>3. Keeps(or_register(w, w, v, s, e), w, s, e)
  <2> DEFINE b(i) == NibbleOf(LAMBDA x, y : x \/ y, w[i], v[i])
  <2>1. \A k \in Positions : b(k) \in Nibble
    BY NibblesOfBits
  <2>2. or_register(w, w, v, s, e) = [i \in Positions |-> IF i \in s .. e THEN b(i) ELSE w[i]]
    BY DEF or_register
  <2> HIDE DEF b
  <2> QED BY <1>1, <2>1, <2>2 DEF Keeps, Word
<1>4. Keeps(and_register(w, w, v, s, e), w, s, e)
  <2> DEFINE b(i) == NibbleOf(LAMBDA x, y : x /\ y, w[i], v[i])
  <2>1. \A k \in Positions : b(k) \in Nibble
    BY NibblesOfBits
  <2>2. and_register(w, w, v, s, e) = [i \in Positions |-> IF i \in s .. e THEN b(i) ELSE w[i]]
    BY DEF and_register
  <2> HIDE DEF b
  <2> QED BY <1>1, <2>1, <2>2 DEF Keeps, Word
<1>5. s \in s .. e /\ e \in s .. e /\ \A k : k \in s + 1 .. e \/ k \in s .. e - 1 => k \in s .. e
  BY DEF Positions
<1>6. /\ \A k \in Positions : k \notin s .. e => shift_left_register(w, s, e)[k] = w[k]
      /\ \A k \in Positions : k \notin s .. e => shift_right_register(w, s, e)[k] = w[k]
      /\ \A k \in Positions : k \notin s .. e => shift_right_bit_register(w, s, e)[k] = w[k]
  BY <1>5 DEF shift_left_register, shift_right_register, shift_right_bit_register
<1>7. /\ Keeps(shift_left_register(w, s, e), w, s, e)
      /\ Keeps(shift_right_register(w, s, e), w, s, e)
      /\ Keeps(shift_right_bit_register(w, s, e), w, s, e)
  BY <1>6, ShiftedWords DEF Keeps
<1> QED BY <1>2, <1>3, <1>4, <1>7

-----------------------------------------------------------------------------
(* The fields of register.c's tables are those of FieldOf.                 *)
LEMMA FieldBounds ==
  ASSUME P \in Nibble, NEW f \in Fields
  PROVE  /\ E(f) \in Positions /\ S(f) \in 0 .. E(f)
         /\ FieldOf(f, P) = S(f) .. E(f)
         /\ FieldOf(f, P) \subseteq Positions
         /\ E(f) + 1 - S(f) = E(f) - S(f) + 1
<1>1. f \in {0, 1, 2, 3, 4, 5, 6, 7, 15}
  BY DEF Fields, A_FIELD
<1>2. CASE f = 0
  BY <1>2 DEF S, E, get_start, get_end, start_fields, end_fields, FieldOf, Positions, Nibble
<1>3. CASE f = 1
  BY <1>3 DEF S, E, get_start, get_end, start_fields, end_fields, FieldOf, Positions, Nibble
<1>4. CASE f = 2
  BY <1>4 DEF S, E, get_start, get_end, start_fields, end_fields, FieldOf, Positions, Nibble
<1>5. CASE f = 3
  BY <1>5 DEF S, E, get_start, get_end, start_fields, end_fields, FieldOf, Positions, Nibble
<1>6. CASE f = 4
  BY <1>6 DEF S, E, get_start, get_end, start_fields, end_fields, FieldOf, Positions, Nibble
<1>7. CASE f = 5
  BY <1>7 DEF S, E, get_start, get_end, start_fields, end_fields, FieldOf, Positions, Nibble
<1>8. CASE f = 6
  BY <1>8 DEF S, E, get_start, get_end, start_fields, end_fields, FieldOf, Positions, Nibble
<1>9. CASE f = 7
  BY <1>9 DEF S, E, get_start, get_end, start_fields, end_fields, FieldOf, Positions, Nibble
<1>10. CASE f = 15
  BY <1>10 DEF S, E, get_start, get_end, start_fields, end_fields, FieldOf, Positions, Nibble
<1> QED BY <1>1, <1>2, <1>3, <1>4, <1>5, <1>6, <1>7, <1>8, <1>9, <1>10

LEMMA WholeFields ==
  /\ W_FIELD \in Fields /\ S(W_FIELD) = 0 /\ E(W_FIELD) = 15 /\ FieldOf(W_FIELD, P) = Positions
  /\ A_FIELD \in Fields /\ S(A_FIELD) = 0 /\ E(A_FIELD) = 4 /\ FieldOf(A_FIELD, P) = 0 .. 4
BY DEF Fields, A_FIELD, W_FIELD, S, E, get_start, get_end, start_fields, end_fields,
       FieldOf, Positions

-----------------------------------------------------------------------------
(* What each instruction on a field does to its registers.                 *)
Computed(d, r) == reg' = [reg EXCEPT ![d] = r.value] /\ CARRY' = r.carry
Moved(d, x)    == reg' = [reg EXCEPT ![d] = x] /\ CARRY' = CARRY
Tested(holds)  == reg' = reg /\ CARRY' = IF holds THEN 1 ELSE 0
Lost(n)        == hst' = IF n # 0 THEN hst \cup {"SB"} ELSE hst

Computing(op, d, s, f) ==
  LET w == reg[d]  v == reg[s]  a == S(f)  e == E(f) IN
  \/ op = "add"     /\ Computed(d, add_register(w, w, v, a, e, hexmode))
  \/ op = "sub"     /\ Computed(d, sub_register(w, w, v, a, e, hexmode))
  \/ op = "subfrom" /\ Computed(d, sub_register(w, v, w, a, e, hexmode))
  \/ op = "inc"     /\ Computed(d, inc_register(w, a, e, hexmode))
  \/ op = "dec"     /\ Computed(d, dec_register(w, a, e, hexmode))
  \/ op = "neg"     /\ Computed(d, complement_2_register(w, a, e, hexmode))
  \/ op = "not"     /\ Computed(d, complement_1_register(w, a, e, hexmode))
  \/ op = "addcon"  /\ \E n \in Immediates : Computed(d, add_register_constant(w, a, e, n))
  \/ op = "subcon"  /\ \E n \in Immediates : Computed(d, sub_register_constant(w, a, e, n))
  \/ op = "c+p+1"   /\ f = A_FIELD /\ Computed(d, add_p_plus_one(w, P))

Moving(op, d, s, f) ==
  LET w == reg[d]  v == reg[s]  a == S(f)  e == E(f) IN
  \/ op = "zero" /\ Moved(d, zero_register(w, a, e))
  \/ op = "copy" /\ Moved(d, copy_register(w, v, a, e))
  \/ op = "and"  /\ Moved(d, and_register(w, w, v, a, e))
  \/ op = "or"   /\ Moved(d, or_register(w, w, v, a, e))
  \/ op = "sl"   /\ Moved(d, shift_left_register(w, a, e))
  \/ op = "sr"   /\ Moved(d, shift_right_register(w, a, e)) /\ Lost(w[a])
  \/ op = "srb"  /\ Moved(d, shift_right_bit_register(w, a, e)) /\ Lost(w[a] % 2)
  \/ op = "slc"  /\ f = W_FIELD /\ Moved(d, shift_left_circ_register(w, 0, 15))
  \/ op = "src"  /\ f = W_FIELD /\ Moved(d, shift_right_circ_register(w, 0, 15))
  \/ op = "load" /\ f = W_FIELD /\ \E l \in Literals : Moved(d, load_constant(w, l, P))
  \/ op = "setbit" /\ f = A_FIELD /\ \E n \in Indices : Moved(d, set_register_bit(w, n))
  \/ op = "clrbit" /\ f = A_FIELD /\ \E n \in Indices : Moved(d, clear_register_bit(w, n))

Exchanging(op, d, s, f) ==
  /\ op = "ex"
  /\ CARRY' = CARRY
  /\ reg' = [reg EXCEPT ![d] = copy_register(reg[d], reg[s], S(f), E(f)),
                        ![s] = copy_register(reg[s], reg[d], S(f), E(f))]

Testing(op, d, s, f) ==
  LET w == reg[d]  v == reg[s]  a == S(f)  e == E(f) IN
  \/ op = "=0" /\ Tested(is_zero_register(w, a, e))
  \/ op = "#0" /\ Tested(~is_zero_register(w, a, e))
  \/ op = "="  /\ Tested(is_equal_register(w, v, a, e))
  \/ op = "#"  /\ Tested(~is_equal_register(w, v, a, e))
  \/ op = ">"  /\ Tested(is_greater_register(w, v, a, e))
  \/ op = "<"  /\ Tested(is_less_register(w, v, a, e))
  \/ op = ">=" /\ Tested(is_greater_or_equal_register(w, v, a, e))
  \/ op = "<=" /\ Tested(is_less_or_equal_register(w, v, a, e))

Does(op, d, s, f) ==
  /\ d \in Regs /\ s \in Regs /\ f \in Fields
  /\ last' = Instr(op, d, s, f)
  /\ \/ Computing(op, d, s, f)
     \/ Moving(op, d, s, f)
     \/ Exchanging(op, d, s, f)
     \/ Testing(op, d, s, f)
  /\ UNCHANGED <<D0, P, hexmode, PSTAT>>

OnAField ==
  \/ Add \/ Sub \/ SubFrom \/ Inc \/ Dec \/ Negate \/ Complement \/ AddConstant \/ SubConstant
  \/ Zero \/ Copy \/ Exchange \/ And \/ Or \/ SaveOrRecall
  \/ ShiftLeft \/ ShiftRight \/ ShiftRightBit \/ ShiftRightCirc \/ ShiftLeftCirc
  \/ TestZero \/ TestEqual \/ TestOrder \/ AddPPlusOne \/ LoadConstant \/ SetBit

LEMMA PairsOfRegisters ==
  \A p \in Pairs \cup Reversed \cup Doubles : p[1] \in Regs /\ p[2] \in Regs
BY DEF Pairs, Reversed, Doubles, Working, Regs

LEMMA Effects ==
  ASSUME OnAField
  PROVE  \E op, d, s, f : Does(op, d, s, f)
<1>0. /\ Working \subseteq Regs /\ Scratch \subseteq Regs /\ {"A", "C"} \subseteq Working
      /\ W_FIELD \in Fields /\ A_FIELD \in Fields
  BY WholeFields DEF Regs, Working
<1>1. ASSUME Add PROVE \E op, d, s, f : Does(op, d, s, f)
  <2>1. PICK p \in Pairs \cup Reversed \cup Doubles, f \in Fields :
          Computes(Instr("add", p[1], p[2], f), add_register(reg[p[1]], reg[p[1]], reg[p[2]], S(f), E(f), hexmode))
    BY <1>1 DEF Add
  <2>2. Does("add", p[1], p[2], f)
    BY <1>0, <2>1, PairsOfRegisters DEF Does, Computing, Computed, Computes, Executed, Instr
  <2> QED BY <2>2
<1>2. ASSUME Sub PROVE \E op, d, s, f : Does(op, d, s, f)
  <2>1. PICK p \in Pairs \cup Reversed, f \in Fields :
          Computes(Instr("sub", p[1], p[2], f), sub_register(reg[p[1]], reg[p[1]], reg[p[2]], S(f), E(f), hexmode))
    BY <1>2 DEF Sub
  <2>2. Does("sub", p[1], p[2], f)
    BY <1>0, <2>1, PairsOfRegisters DEF Does, Computing, Computed, Computes, Executed, Instr
  <2> QED BY <2>2
<1>3. ASSUME SubFrom PROVE \E op, d, s, f : Does(op, d, s, f)
  <2>1. PICK p \in Pairs, f \in Fields :
          Computes(Instr("subfrom", p[1], p[2], f), sub_register(reg[p[1]], reg[p[2]], reg[p[1]], S(f), E(f), hexmode))
    BY <1>3 DEF SubFrom
  <2>2. Does("subfrom", p[1], p[2], f)
    BY <1>0, <2>1, PairsOfRegisters DEF Does, Computing, Computed, Computes, Executed, Instr
  <2> QED BY <2>2
<1>4. ASSUME Inc PROVE \E op, d, s, f : Does(op, d, s, f)
  <2>1. PICK r \in Working, f \in Fields :
          Computes(Instr("inc", r, r, f), inc_register(reg[r], S(f), E(f), hexmode))
    BY <1>4 DEF Inc
  <2>2. Does("inc", r, r, f)
    BY <1>0, <2>1 DEF Does, Computing, Computed, Computes, Executed, Instr
  <2> QED BY <2>2
<1>5. ASSUME Dec PROVE \E op, d, s, f : Does(op, d, s, f)
  <2>1. PICK r \in Working, f \in Fields :
          Computes(Instr("dec", r, r, f), dec_register(reg[r], S(f), E(f), hexmode))
    BY <1>5 DEF Dec
  <2>2. Does("dec", r, r, f)
    BY <1>0, <2>1 DEF Does, Computing, Computed, Computes, Executed, Instr
  <2> QED BY <2>2
<1>6. ASSUME Negate PROVE \E op, d, s, f : Does(op, d, s, f)
  <2>1. PICK r \in Working, f \in Fields :
          Computes(Instr("neg", r, r, f), complement_2_register(reg[r], S(f), E(f), hexmode))
    BY <1>6 DEF Negate
  <2>2. Does("neg", r, r, f)
    BY <1>0, <2>1 DEF Does, Computing, Computed, Computes, Executed, Instr
  <2> QED BY <2>2
<1>7. ASSUME Complement PROVE \E op, d, s, f : Does(op, d, s, f)
  <2>1. PICK r \in Working, f \in Fields :
          Computes(Instr("not", r, r, f), complement_1_register(reg[r], S(f), E(f), hexmode))
    BY <1>7 DEF Complement
  <2>2. Does("not", r, r, f)
    BY <1>0, <2>1 DEF Does, Computing, Computed, Computes, Executed, Instr
  <2> QED BY <2>2
<1>8. ASSUME AddConstant PROVE \E op, d, s, f : Does(op, d, s, f)
  <2>1. PICK r \in Working, f \in Fields, n \in Immediates :
          Computes(Instr("addcon", r, r, f), add_register_constant(reg[r], S(f), E(f), n))
    BY <1>8 DEF AddConstant
  <2>2. Does("addcon", r, r, f)
    BY <1>0, <2>1 DEF Does, Computing, Computed, Computes, Executed, Instr
  <2> QED BY <2>2
<1>9. ASSUME SubConstant PROVE \E op, d, s, f : Does(op, d, s, f)
  <2>1. PICK r \in Working, f \in Fields, n \in Immediates :
          Computes(Instr("subcon", r, r, f), sub_register_constant(reg[r], S(f), E(f), n))
    BY <1>9 DEF SubConstant
  <2>2. Does("subcon", r, r, f)
    BY <1>0, <2>1 DEF Does, Computing, Computed, Computes, Executed, Instr
  <2> QED BY <2>2
<1>10. ASSUME Zero PROVE \E op, d, s, f : Does(op, d, s, f)
  <2>1. PICK r \in Working, f \in Fields :
          Moves(Instr("zero", r, r, f), zero_register(reg[r], S(f), E(f)))
    BY <1>10 DEF Zero
  <2>2. Does("zero", r, r, f)
    BY <1>0, <2>1 DEF Does, Moving, Moved, Moves, Executed, Instr
  <2> QED BY <2>2
<1>11. ASSUME Copy PROVE \E op, d, s, f : Does(op, d, s, f)
  <2>1. PICK p \in Pairs \cup Reversed, f \in Fields :
          Moves(Instr("copy", p[1], p[2], f), copy_register(reg[p[1]], reg[p[2]], S(f), E(f)))
    BY <1>11 DEF Copy
  <2>2. Does("copy", p[1], p[2], f)
    BY <1>0, <2>1, PairsOfRegisters DEF Does, Moving, Moved, Moves, Executed, Instr
  <2> QED BY <2>2
<1>12. ASSUME And PROVE \E op, d, s, f : Does(op, d, s, f)
  <2>1. PICK p \in Pairs \cup Reversed, f \in Fields :
          Moves(Instr("and", p[1], p[2], f), and_register(reg[p[1]], reg[p[1]], reg[p[2]], S(f), E(f)))
    BY <1>12 DEF And
  <2>2. Does("and", p[1], p[2], f)
    BY <1>0, <2>1, PairsOfRegisters DEF Does, Moving, Moved, Moves, Executed, Instr
  <2> QED BY <2>2
<1>13. ASSUME Or PROVE \E op, d, s, f : Does(op, d, s, f)
  <2>1. PICK p \in Pairs \cup Reversed, f \in Fields :
          Moves(Instr("or", p[1], p[2], f), or_register(reg[p[1]], reg[p[1]], reg[p[2]], S(f), E(f)))
    BY <1>13 DEF Or
  <2>2. Does("or", p[1], p[2], f)
    BY <1>0, <2>1, PairsOfRegisters DEF Does, Moving, Moved, Moves, Executed, Instr
  <2> QED BY <2>2
<1>14. ASSUME ShiftLeft PROVE \E op, d, s, f : Does(op, d, s, f)
  <2>1. PICK r \in Working, f \in Fields :
          Moves(Instr("sl", r, r, f), shift_left_register(reg[r], S(f), E(f)))
    BY <1>14 DEF ShiftLeft
  <2>2. Does("sl", r, r, f)
    BY <1>0, <2>1 DEF Does, Moving, Moved, Moves, Executed, Instr
  <2> QED BY <2>2
<1>15. ASSUME ShiftRight PROVE \E op, d, s, f : Does(op, d, s, f)
  <2>1. PICK r \in Working, f \in Fields :
          ShiftsRight(Instr("sr", r, r, f), shift_right_register(reg[r], S(f), E(f)), reg[r][S(f)])
    BY <1>15 DEF ShiftRight
  <2>2. Does("sr", r, r, f)
    BY <1>0, <2>1 DEF Does, Moving, Moved, Lost, ShiftsRight, Executed, Instr
  <2> QED BY <2>2
<1>16. ASSUME ShiftRightBit PROVE \E op, d, s, f : Does(op, d, s, f)
  <2>1. PICK r \in Working, f \in Fields :
          ShiftsRight(Instr("srb", r, r, f), shift_right_bit_register(reg[r], S(f), E(f)),
                      reg[r][S(f)] % 2)
    BY <1>16 DEF ShiftRightBit
  <2>2. Does("srb", r, r, f)
    BY <1>0, <2>1 DEF Does, Moving, Moved, Lost, ShiftsRight, Executed, Instr
  <2> QED BY <2>2
<1>17. ASSUME ShiftRightCirc PROVE \E op, d, s, f : Does(op, d, s, f)
  <2>1. PICK r \in Working :
          ShiftsRight(Instr("src", r, r, W_FIELD), shift_right_circ_register(reg[r], 0, 15),
                      reg[r][0])
    BY <1>17 DEF ShiftRightCirc
  <2>2. Does("src", r, r, W_FIELD)
    BY <1>0, <2>1 DEF Does, Moving, Moved, Lost, ShiftsRight, Executed, Instr
  <2> QED BY <2>2
<1>18. ASSUME ShiftLeftCirc PROVE \E op, d, s, f : Does(op, d, s, f)
  <2>1. PICK r \in Working :
          Moves(Instr("slc", r, r, W_FIELD), shift_left_circ_register(reg[r], 0, 15))
    BY <1>18 DEF ShiftLeftCirc
  <2>2. Does("slc", r, r, W_FIELD)
    BY <1>0, <2>1 DEF Does, Moving, Moved, Moves, Executed, Instr
  <2> QED BY <2>2
<1>19. ASSUME LoadConstant PROVE \E op, d, s, f : Does(op, d, s, f)
  <2>1. PICK r \in {"A", "C"}, l \in Literals :
          Moves(Instr("load", r, r, W_FIELD), load_constant(reg[r], l, P))
    BY <1>19 DEF LoadConstant
  <2>2. Does("load", r, r, W_FIELD)
    BY <1>0, <2>1 DEF Does, Moving, Moved, Moves, Executed, Instr
  <2> QED BY <2>2
<1>20. ASSUME AddPPlusOne PROVE \E op, d, s, f : Does(op, d, s, f)
  <2>1. Does("c+p+1", "C", "C", A_FIELD)
    BY <1>0, <1>20 DEF AddPPlusOne, Does, Computing, Computed, Computes, Executed, Instr
  <2> QED BY <2>1
<1>21. ASSUME SetBit PROVE \E op, d, s, f : Does(op, d, s, f)
  <2>1. PICK r \in {"A", "C"}, n \in Indices :
          \/ Moves(Instr("setbit", r, r, A_FIELD), set_register_bit(reg[r], n))
          \/ Moves(Instr("clrbit", r, r, A_FIELD), clear_register_bit(reg[r], n))
    BY <1>21 DEF SetBit
  <2>2. Does("setbit", r, r, A_FIELD) \/ Does("clrbit", r, r, A_FIELD)
    BY <1>0, <2>1 DEF Does, Moving, Moved, Moves, Executed, Instr
  <2> QED BY <2>2
<1>22. ASSUME Exchange PROVE \E op, d, s, f : Does(op, d, s, f)
  <2>1. PICK p \in Pairs, f \in Fields :
          /\ Executed(Instr("ex", p[1], p[2], f))
          /\ reg' = [reg EXCEPT ![p[1]] = copy_register(reg[p[1]], reg[p[2]], S(f), E(f)),
                                ![p[2]] = copy_register(reg[p[2]], reg[p[1]], S(f), E(f))]
          /\ UNCHANGED <<D0, P, hexmode, CARRY, hst, PSTAT>>
    BY <1>22 DEF Exchange
  <2>2. Does("ex", p[1], p[2], f)
    BY <2>1, PairsOfRegisters DEF Does, Exchanging, Executed, Instr
  <2> QED BY <2>2
<1>23. ASSUME SaveOrRecall PROVE \E op, d, s, f : Does(op, d, s, f)
  <2>1. PICK r \in Scratch, w \in {"A", "C"}, f \in Fields :
          \/ Moves(Instr("copy", r, w, f), copy_register(reg[r], reg[w], S(f), E(f)))
          \/ Moves(Instr("copy", w, r, f), copy_register(reg[w], reg[r], S(f), E(f)))
          \/ /\ Executed(Instr("ex", w, r, f))
             /\ reg' = [reg EXCEPT ![w] = copy_register(reg[w], reg[r], S(f), E(f)),
                                   ![r] = copy_register(reg[r], reg[w], S(f), E(f))]
             /\ UNCHANGED <<D0, P, hexmode, CARRY, hst, PSTAT>>
    BY <1>23 DEF SaveOrRecall
  <2>2. r \in Regs /\ w \in Regs
    BY <1>0
  <2>3. Does("copy", r, w, f) \/ Does("copy", w, r, f) \/ Does("ex", w, r, f)
    BY <2>1, <2>2 DEF Does, Moving, Exchanging, Moved, Moves, Executed, Instr
  <2> QED BY <2>3
<1>24. ASSUME TestZero PROVE \E op, d, s, f : Does(op, d, s, f)
  <2>1. PICK r \in Working, f \in Fields :
          \/ Tests(Instr("=0", r, r, f), is_zero_register(reg[r], S(f), E(f)))
          \/ Tests(Instr("#0", r, r, f), ~is_zero_register(reg[r], S(f), E(f)))
    BY <1>24 DEF TestZero
  <2>2. Does("=0", r, r, f) \/ Does("#0", r, r, f)
    BY <1>0, <2>1 DEF Does, Testing, Tested, Tests, Executed, Instr
  <2> QED BY <2>2
<1>25. ASSUME TestEqual PROVE \E op, d, s, f : Does(op, d, s, f)
  <2>1. PICK p \in Pairs, f \in Fields :
          \/ Tests(Instr("=", p[1], p[2], f), is_equal_register(reg[p[1]], reg[p[2]], S(f), E(f)))
          \/ Tests(Instr("#", p[1], p[2], f), ~is_equal_register(reg[p[1]], reg[p[2]], S(f), E(f)))
    BY <1>25 DEF TestEqual
  <2>2. Does("=", p[1], p[2], f) \/ Does("#", p[1], p[2], f)
    BY <2>1, PairsOfRegisters DEF Does, Testing, Tested, Tests, Executed, Instr
  <2> QED BY <2>2
<1>26. ASSUME TestOrder PROVE \E op, d, s, f : Does(op, d, s, f)
  <2>1. PICK p \in Pairs, f \in Fields :
          \/ Tests(Instr(">", p[1], p[2], f),
                   is_greater_register(reg[p[1]], reg[p[2]], S(f), E(f)))
          \/ Tests(Instr("<", p[1], p[2], f),
                   is_less_register(reg[p[1]], reg[p[2]], S(f), E(f)))
          \/ Tests(Instr(">=", p[1], p[2], f),
                   is_greater_or_equal_register(reg[p[1]], reg[p[2]], S(f), E(f)))
          \/ Tests(Instr("<=", p[1], p[2], f),
                   is_less_or_equal_register(reg[p[1]], reg[p[2]], S(f), E(f)))
    BY <1>26 DEF TestOrder
  <2>2. \/ Does(">", p[1], p[2], f) \/ Does("<", p[1], p[2], f)
        \/ Does(">=", p[1], p[2], f) \/ Does("<=", p[1], p[2], f)
    BY <2>1, PairsOfRegisters DEF Does, Testing, Tested, Tests, Executed, Instr
  <2> QED BY <2>2
<1> QED
  BY <1>1, <1>2, <1>3, <1>4, <1>5, <1>6, <1>7, <1>8, <1>9, <1>10, <1>11, <1>12, <1>13, <1>14, <1>15, <1>16, <1>17, <1>18, <1>19, <1>20, <1>21, <1>22, <1>23, <1>24, <1>25, <1>26 DEF OnAField

-----------------------------------------------------------------------------
(* Every instruction on a field leaves nibbles, and touches nothing else   *)
(* than its registers on its field.                                        *)
Touches(op, d, s, f) ==
  /\ reg' \in [Regs -> Word] /\ CARRY' \in {0, 1}
  /\ \A r \in Regs : \A k \in Positions :
       reg'[r][k] # reg[r][k] => (r = d \/ (op = "ex" /\ r = s)) /\ k \in S(f) .. E(f)

LEMMA Replacing ==
  ASSUME RegisterTypes, NEW op, NEW d \in Regs, NEW s, NEW f, NEW x,
         Keeps(x, reg[d], S(f), E(f)), reg' = [reg EXCEPT ![d] = x], CARRY' \in {0, 1}
  PROVE  Touches(op, d, s, f)
BY DEF Touches, Keeps, RegisterTypes

LEMMA LoadKeeps ==
  ASSUME NEW w \in Word, NEW l \in Seq(Nibble), NEW p \in Nibble
  PROVE  load_constant(w, l, p) \in Word
<1>1. ASSUME NEW i \in Positions
      PROVE  LET k == (i - p) % 16 IN (IF k < Len(l) THEN l[k + 1] ELSE w[i]) \in Nibble
  <2>1. (i - p) % 16 \in 0 .. 15
    BY DEF Positions, Nibble
  <2>2. w[i] \in Nibble
    BY DEF Word
  <2>3. (i - p) % 16 < Len(l) => ((i - p) % 16) + 1 \in 1 .. Len(l)
    BY <2>1
  <2> QED BY <2>2, <2>3
<1> QED BY <1>1 DEF load_constant, Word

LEMMA BitsKeep ==
  ASSUME NEW w \in Word, NEW n \in Nibble
  PROVE  Keeps(set_register_bit(w, n), w, 0, 4) /\ Keeps(clear_register_bit(w, n), w, 0, 4)
<1>1. PICK q \in 0 .. 3 : q = n \div 4
  BY DEF Nibble
<1>2. q \in Positions /\ q \in 0 .. 4
  BY DEF Positions
<1> DEFINE x == NibbleOf(LAMBDA a, b : a \/ b, w[q], 2^(n % 4))
           y == NibbleOf(LAMBDA a, b : a /\ ~b, w[q], 2^(n % 4))
<1>3. x \in Nibble /\ y \in Nibble
  BY NibblesOfBits
<1>4. set_register_bit(w, n) = [w EXCEPT ![q] = x]
  BY <1>1 DEF set_register_bit
<1>5. clear_register_bit(w, n) = [w EXCEPT ![q] = y]
  BY <1>1 DEF clear_register_bit
<1> HIDE DEF x, y
<1> QED BY <1>2, <1>3, <1>4, <1>5 DEF Keeps, Word

LEMMA DoesTouch ==
  ASSUME RegisterTypes, NEW op, NEW d, NEW s, NEW f, Does(op, d, s, f)
  PROVE  Touches(op, d, s, f)
<1>1. d \in Regs /\ s \in Regs /\ f \in Fields
  BY DEF Does
<1>2. /\ reg[d] \in Word /\ reg[s] \in Word /\ P \in Nibble /\ hexmode \in Radices
      /\ E(f) \in Positions /\ S(f) \in 0 .. E(f)
  BY <1>1, FieldBounds DEF RegisterTypes, Radices, DEC, HEX
<1>3. CASE Computing(op, d, s, f)
  <2>1. /\ Yields(add_register(reg[d], reg[d], reg[s], S(f), E(f), hexmode), reg[d], S(f), E(f))
        /\ Yields(sub_register(reg[d], reg[d], reg[s], S(f), E(f), hexmode), reg[d], S(f), E(f))
        /\ Yields(sub_register(reg[d], reg[s], reg[d], S(f), E(f), hexmode), reg[d], S(f), E(f))
        /\ Yields(inc_register(reg[d], S(f), E(f), hexmode), reg[d], S(f), E(f))
        /\ Yields(dec_register(reg[d], S(f), E(f), hexmode), reg[d], S(f), E(f))
        /\ Yields(complement_2_register(reg[d], S(f), E(f), hexmode), reg[d], S(f), E(f))
        /\ Yields(complement_1_register(reg[d], S(f), E(f), hexmode), reg[d], S(f), E(f))
    BY <1>2, ArithmeticKeeps
  <2>2. ASSUME NEW n \in Immediates
        PROVE  /\ Yields(add_register_constant(reg[d], S(f), E(f), n), reg[d], S(f), E(f))
               /\ Yields(sub_register_constant(reg[d], S(f), E(f), n), reg[d], S(f), E(f))
    <3>1. n \in 1 .. 16
      BY RegistersAssumption
    <3> QED BY <1>2, <3>1, ConstantsKeep
  <2>3. f = A_FIELD => Yields(add_p_plus_one(reg[d], P), reg[d], S(f), E(f))
    <3>1. 1 \in 1 .. 16
      OBVIOUS
    <3>2. Yields(add_p_plus_one(reg[d], P), reg[d], 0, 4)
      BY <1>2, <3>1, ConstantsKeep
    <3> QED BY <3>2, WholeFields
  <2>4. /\ \E x : Keeps(x, reg[d], S(f), E(f)) /\ reg' = [reg EXCEPT ![d] = x]
        /\ CARRY' \in {0, 1}
    <3>1. ASSUME NEW r, Yields(r, reg[d], S(f), E(f)), Computed(d, r)
          PROVE  /\ \E x : Keeps(x, reg[d], S(f), E(f)) /\ reg' = [reg EXCEPT ![d] = x]
                 /\ CARRY' \in {0, 1}
      BY <3>1 DEF Computed, Yields
    <3> QED BY <1>3, <2>1, <2>2, <2>3, <3>1 DEF Computing
  <2> QED BY <1>1, <2>4, Replacing
<1>4. CASE Moving(op, d, s, f)
  <2>1. /\ Keeps(zero_register(reg[d], S(f), E(f)), reg[d], S(f), E(f))
        /\ Keeps(copy_register(reg[d], reg[s], S(f), E(f)), reg[d], S(f), E(f))
        /\ Keeps(or_register(reg[d], reg[d], reg[s], S(f), E(f)), reg[d], S(f), E(f))
        /\ Keeps(and_register(reg[d], reg[d], reg[s], S(f), E(f)), reg[d], S(f), E(f))
        /\ Keeps(shift_left_register(reg[d], S(f), E(f)), reg[d], S(f), E(f))
        /\ Keeps(shift_right_register(reg[d], S(f), E(f)), reg[d], S(f), E(f))
        /\ Keeps(shift_right_bit_register(reg[d], S(f), E(f)), reg[d], S(f), E(f))
    BY <1>2, MovesKeep
  <2>2. ASSUME f = W_FIELD, NEW x \in Word PROVE Keeps(x, reg[d], S(f), E(f))
    BY <2>2, WholeFields DEF Keeps, Positions
  <2>3. /\ shift_left_circ_register(reg[d], 0, 15) \in Word
        /\ shift_right_circ_register(reg[d], 0, 15) \in Word
    <3>1. 15 \in Positions /\ 0 \in 0 .. 15
      BY DEF Positions
    <3> QED BY <1>2, <3>1, ShiftedWords
  <2>4. \A l \in Literals : load_constant(reg[d], l, P) \in Word
    BY <1>2, LoadKeeps, RegistersAssumption
  <2>5. ASSUME f = A_FIELD, NEW n \in Indices
        PROVE  /\ Keeps(set_register_bit(reg[d], n), reg[d], S(f), E(f))
               /\ Keeps(clear_register_bit(reg[d], n), reg[d], S(f), E(f))
    <3>1. n \in Nibble
      BY RegistersAssumption
    <3> QED BY <1>2, <2>5, <3>1, BitsKeep, WholeFields
  <2>6. /\ \E x : Keeps(x, reg[d], S(f), E(f)) /\ reg' = [reg EXCEPT ![d] = x]
        /\ CARRY' = CARRY
    BY <1>4, <2>1, <2>2, <2>3, <2>4, <2>5 DEF Moving, Moved
  <2>7. CARRY' \in {0, 1}
    BY <2>6 DEF RegisterTypes
  <2> QED BY <1>1, <2>6, <2>7, Replacing
<1>5. CASE Exchanging(op, d, s, f)
  <2>1. /\ Keeps(copy_register(reg[d], reg[s], S(f), E(f)), reg[d], S(f), E(f))
        /\ Keeps(copy_register(reg[s], reg[d], S(f), E(f)), reg[s], S(f), E(f))
    BY <1>2, MovesKeep
  <2> QED BY <1>1, <1>5, <2>1 DEF Exchanging, Touches, Keeps, RegisterTypes
<1>6. CASE Testing(op, d, s, f)
  <2>1. reg' = reg /\ CARRY' \in {0, 1}
    BY <1>6 DEF Testing, Tested
  <2> QED BY <2>1 DEF Touches, RegisterTypes
<1> QED BY <1>3, <1>4, <1>5, <1>6 DEF Does

-----------------------------------------------------------------------------
(* The instructions that are not on a field, and the types of everything.  *)
Elsewhere ==
  \/ TestBit \/ TestP \/ TestStatus \/ TestHardwareStatus \/ SetMode \/ StepP \/ MoveP
  \/ SetStatus \/ SetHardwareStatus \/ LoadPointer \/ ExchangePointer \/ AdvancePointer

LEMMA NothingElse == Next => OnAField \/ Elsewhere \/ UNCHANGED vars
BY DEF Next, Instruction, Done, OnAField, Elsewhere

LEMMA NotOnAField == Elsewhere => last' = NoInstr
BY DEF Elsewhere, TestBit, TestP, TestStatus, TestHardwareStatus, SetMode, StepP, MoveP,
       SetStatus, SetHardwareStatus, LoadPointer, ExchangePointer, AdvancePointer,
       Tests, Executed

LEMMA AddressOfRegister ==
  ASSUME NEW w, NEW n \in {2, 4, 5}, \A i \in 0 .. n - 1 : w[i] \in Int, NEW dat \in Int
  PROVE  register_to_address(dat, w, n) \in Int
<1>1. n - 1 \in Positions /\ 0 \in 0 .. (n - 1) + 1 /\ 16 \in Bases
  BY DEF Positions, Bases
<1>2. Number(w, 0, n - 1, 16) \in Int
  BY <1>1, NumberObeys
<1>3. CASE n = 2
  BY <1>2, <1>3 DEF register_to_address
<1>4. CASE n = 4
  BY <1>2, <1>4 DEF register_to_address
<1>5. CASE n = 5
  BY <1>2, <1>5 DEF register_to_address
<1> QED BY <1>3, <1>4, <1>5

LEMMA RegisterOfAddress ==
  ASSUME NEW w \in Word, NEW n \in {4, 5}, NEW dat \in Int
  PROVE  address_to_register(w, dat, n) \in Word
<1>1. ASSUME NEW i \in Positions
      PROVE  (IF i < n THEN (dat \div 16^i) % 16 ELSE w[i]) \in Nibble
  <2>1. w[i] \in Nibble
    BY DEF Word
  <2>2. CASE i < n
    <3>1. i \in {0, 1, 2, 3, 4}
      BY <2>2 DEF Positions
    <3>2. PICK q \in Int : q = dat \div 16^i
      <4>1. CASE i = 0
        BY <4>1
      <4>2. CASE i = 1
        BY <4>2
      <4>3. CASE i = 2
        BY <4>3
      <4>4. CASE i = 3
        BY <4>4
      <4>5. CASE i = 4
        BY <4>5
      <4> QED BY <3>1, <4>1, <4>2, <4>3, <4>4, <4>5
    <3> QED BY <2>2, <3>2 DEF Nibble
  <2> QED BY <2>1, <2>2
<1> QED BY <1>1 DEF address_to_register, Word

LEMMA StatusKeeps ==
  ASSUME NEW w \in Word, NEW st \in [Positions -> {0, 1}]
  PROVE  /\ status_to_register(w, st) \in Word
         /\ register_to_status(st, w) \in [Positions -> {0, 1}]
<1>1. ASSUME NEW i \in 0 .. 2 PROVE Number([k \in 0 .. 3 |-> st[4 * i + k]], 0, 3, 2) \in Nibble
  <2> DEFINE x == [k \in 0 .. 3 |-> st[4 * i + k]]
  <2>1. /\ 3 \in Positions /\ 2 \in Bases
        /\ 0 \in 0 .. 3 /\ 1 \in 0 .. 3 /\ 2 \in 0 .. 3 /\ 3 \in 0 .. 3
    BY DEF Positions, Bases
  <2>2. \A k \in 0 .. 3 : x[k] \in {0, 1}
    BY DEF Positions
  <2> HIDE DEF x
  <2>3. \A k \in 0 .. 3 : x[k] \in Int
    BY <2>2
  <2>4. /\ Number(x, 3 + 1, 3, 2) = 0
        /\ \A k \in 0 .. 3 : Number(x, k, 3, 2) = x[k] + 2 * Number(x, k + 1, 3, 2)
        /\ \A k \in 0 .. 3 + 1 : Number(x, k, 3, 2) \in Int
    BY <2>1, <2>3, NumberObeys
  <2>5. Number(x, 0, 3, 2) = x[0] + 2 * (x[1] + 2 * (x[2] + 2 * (x[3] + 2 * 0)))
    BY <2>1, <2>4
  <2>6. x[0] \in {0, 1} /\ x[1] \in {0, 1} /\ x[2] \in {0, 1} /\ x[3] \in {0, 1}
    BY <2>1, <2>2
  <2> QED BY <2>5, <2>6 DEF Nibble, x
<1>2. status_to_register(w, st) \in Word
  <2>1. \A i \in Positions : i < 3 => i \in 0 .. 2
    BY DEF Positions
  <2>2. \A i \in Positions : w[i] \in Nibble
    BY DEF Word
  <2> QED BY <1>1, <2>1, <2>2 DEF status_to_register, Word
<1>3. ASSUME NEW i \in Positions
      PROVE  (IF i < 12 THEN Bit(w[i \div 4], i % 4) ELSE st[i]) \in {0, 1}
  <2>1. CASE i < 12
    <3>1. PICK q \in 0 .. 15 : q = w[i \div 4]
      <4>1. i \div 4 \in Positions
        BY DEF Positions
      <4> QED BY <4>1 DEF Word, Nibble
    <3>2. PICK k \in 0 .. 3 : k = i % 4
      BY DEF Positions
    <3>3. Bit(q, k) \in {0, 1}
      <4>1. CASE k = 0
        BY <4>1 DEF Bit
      <4>2. CASE k = 1
        BY <4>2 DEF Bit
      <4>3. CASE k = 2
        BY <4>3 DEF Bit
      <4>4. CASE k = 3
        BY <4>4 DEF Bit
      <4> QED BY <4>1, <4>2, <4>3, <4>4
    <3> QED BY <2>1, <3>1, <3>2, <3>3
  <2> QED BY <2>1
<1>4. register_to_status(st, w) \in [Positions -> {0, 1}]
  BY <1>3 DEF register_to_status
<1> QED BY <1>2, <1>4

LEMMA WithNibble ==
  ASSUME RegisterTypes, NEW r \in Regs, NEW n \in Positions, NEW x \in Nibble
  PROVE  [reg EXCEPT ![r][n] = x] \in [Regs -> Word]
BY DEF RegisterTypes, Word

LEMMA TypesKept ==
  ASSUME RegisterTypes, [Next]_vars
  PROVE  RegisterTypes'
<1>0. "A" \in Regs /\ "C" \in Regs /\ Indices \subseteq Positions /\ Indices \subseteq Nibble
  BY RegistersAssumption DEF Regs, Working, Positions, Nibble
<1>a. reg \in [Regs -> Word] /\ D0 \in Int /\ P \in Nibble /\ hexmode \in {DEC, HEX}
      /\ PSTAT \in [Positions -> {0, 1}] /\ reg["A"] \in Word /\ reg["C"] \in Word
  BY <1>0 DEF RegisterTypes
<1>b. Elsewhere => CARRY' \in {0, 1}
  <2>1. CARRY \in {0, 1}
    BY DEF RegisterTypes
  <2>2. ASSUME NEW i, NEW holds, Tests(i, holds) PROVE CARRY' \in {0, 1}
    BY <2>2 DEF Tests
  <2>3. CASE TestBit \/ TestP \/ TestStatus \/ TestHardwareStatus
    BY <2>2, <2>3 DEF TestBit, TestP, TestStatus, TestHardwareStatus
  <2>4. CASE StepP \/ AdvancePointer
    BY <2>4 DEF StepP, AdvancePointer, add_address
  <2> QED
    BY <2>1, <2>3, <2>4
       DEF Elsewhere, SetMode, MoveP, SetStatus, SetHardwareStatus, LoadPointer, ExchangePointer
<1>1. CASE UNCHANGED vars
  BY <1>1 DEF vars, RegisterTypes
<1>2. CASE OnAField
  <2>1. PICK op, d, s, f : Does(op, d, s, f)
    BY <1>2, Effects
  <2>2. Touches(op, d, s, f)
    BY <2>1, DoesTouch
  <2>3. UNCHANGED <<D0, P, hexmode, PSTAT>>
    BY <2>1 DEF Does
  <2> QED BY <2>2, <2>3 DEF Touches, RegisterTypes
<1>3. ASSUME Elsewhere, UNCHANGED <<reg, D0, P, PSTAT>>, hexmode' \in {DEC, HEX}
      PROVE  RegisterTypes'
  BY <1>3, <1>b DEF RegisterTypes
<1>4. CASE TestBit \/ TestP \/ TestStatus \/ TestHardwareStatus
  BY <1>4, <1>a DEF RegisterTypes, TestBit, TestP, TestStatus, TestHardwareStatus, Tests
<1>5. CASE SetMode
  BY <1>5, <1>a DEF RegisterTypes, SetMode
<1>6. CASE StepP
  <2>1. UNCHANGED <<reg, D0, hexmode, PSTAT>> /\ P' \in Nibble
    BY <1>6, <1>a DEF StepP, Nibble
  <2> QED BY <1>a, <1>b, <1>6, <2>1 DEF RegisterTypes, Elsewhere
<1>7. CASE MoveP
  <2>1. PICK n \in Indices :
          \/ P' = n /\ UNCHANGED reg
          \/ P' = P /\ reg' = [reg EXCEPT !["C"][n] = P]
          \/ P' = reg["C"][n] /\ UNCHANGED reg
          \/ P' = reg["C"][n] /\ reg' = [reg EXCEPT !["C"][n] = P]
    BY <1>7 DEF MoveP
  <2>2. n \in Positions /\ n \in Nibble /\ reg["C"][n] \in Nibble
    BY <1>0, <1>a DEF Word
  <2>3. [reg EXCEPT !["C"][n] = P] \in [Regs -> Word]
    BY <1>0, <1>a, <2>2, WithNibble
  <2>4. UNCHANGED <<D0, hexmode, PSTAT>>
    BY <1>7 DEF MoveP
  <2> QED BY <1>a, <1>b, <1>7, <2>1, <2>2, <2>3, <2>4 DEF RegisterTypes, Elsewhere
<1>8. CASE SetStatus
  <2>1. /\ status_to_register(reg["C"], PSTAT) \in Word
        /\ register_to_status(PSTAT, reg["C"]) \in [Positions -> {0, 1}]
    BY <1>a, StatusKeeps
  <2>2. \/ PSTAT' = [i \in Positions |-> IF i < 12 THEN 0 ELSE PSTAT[i]]
        \/ \E n \in Indices, b \in {0, 1} : PSTAT' = [PSTAT EXCEPT ![n] = b]
        \/ PSTAT' = register_to_status(PSTAT, reg["C"])
        \/ PSTAT' = PSTAT
    BY <1>8 DEF SetStatus
  <2>3. reg' = reg \/ reg' = [reg EXCEPT !["C"] = status_to_register(reg["C"], PSTAT)]
    BY <1>8, <1>0, <1>a DEF SetStatus
  <2>4. UNCHANGED <<D0, P, hexmode>>
    BY <1>8 DEF SetStatus
  <2>5. PSTAT' \in [Positions -> {0, 1}]
    BY <1>a, <2>1, <2>2
  <2>6. reg' \in [Regs -> Word]
    BY <1>a, <2>1, <2>3
  <2> QED BY <1>a, <1>b, <1>8, <2>4, <2>5, <2>6 DEF RegisterTypes, Elsewhere
<1>9. CASE SetHardwareStatus
  <2>1. 0 \in Positions /\ 0 \in Nibble
    BY DEF Positions, Nibble
  <2>2. [reg EXCEPT !["C"][0] = 0] \in [Regs -> Word]
    BY <1>0, <2>1, WithNibble
  <2>3. reg' = reg \/ reg' = [reg EXCEPT !["C"][0] = 0]
    BY <1>9 DEF SetHardwareStatus
  <2>4. UNCHANGED <<D0, P, hexmode, PSTAT>>
    BY <1>9 DEF SetHardwareStatus
  <2> QED BY <1>a, <1>b, <1>9, <2>2, <2>3, <2>4 DEF RegisterTypes, Elsewhere
<1>10. CASE LoadPointer
  <2>1. ASSUME NEW r \in {"A", "C"}, NEW n \in {4, 5}
        PROVE  register_to_address(D0, reg[r], n) \in Int
    <3>1. \A i \in 0 .. n - 1 : reg[r][i] \in Int
      BY <1>a DEF Word, Nibble, Positions
    <3> QED BY <1>a, <3>1, AddressOfRegister
  <2>2. ASSUME NEW l \in Literals, Len(l) \in {2, 4, 5}
        PROVE  register_to_address(D0, [i \in 0 .. Len(l) - 1 |-> l[i + 1]], Len(l)) \in Int
    <3>1. l \in Seq(Nibble)
      BY RegistersAssumption
    <3> DEFINE w == [i \in 0 .. Len(l) - 1 |-> l[i + 1]]
    <3>2. \A i \in 0 .. Len(l) - 1 : w[i] \in Int
      BY <2>2, <3>1 DEF Nibble
    <3> HIDE DEF w
    <3>3. register_to_address(D0, w, Len(l)) \in Int
      BY <1>a, <2>2, <3>2, AddressOfRegister
    <3> QED BY <3>3 DEF w
  <2>3. D0' \in Int
    BY <1>10, <2>1, <2>2 DEF LoadPointer
  <2>4. UNCHANGED <<reg, P, hexmode, PSTAT>>
    BY <1>10 DEF LoadPointer
  <2> QED BY <1>a, <1>b, <1>10, <2>3, <2>4 DEF RegisterTypes, Elsewhere
<1>11. CASE ExchangePointer
  <2>1. PICK r \in {"A", "C"}, n \in {4, 5} :
          /\ D0' = register_to_address(D0, reg[r], n)
          /\ reg' = [reg EXCEPT ![r] = address_to_register(reg[r], D0, n)]
    BY <1>11, <1>0, <1>a DEF ExchangePointer
  <2>2. r \in Regs /\ reg[r] \in Word /\ n \in {2, 4, 5}
    BY <1>0, <1>a
  <2>3. \A i \in 0 .. n - 1 : reg[r][i] \in Int
    BY <2>2 DEF Word, Nibble, Positions
  <2>4. D0' \in Int
    BY <1>a, <2>1, <2>2, <2>3, AddressOfRegister
  <2>5. address_to_register(reg[r], D0, n) \in Word
    BY <1>a, <2>2, RegisterOfAddress
  <2>6. reg' \in [Regs -> Word]
    BY <1>a, <2>1, <2>5
  <2>7. UNCHANGED <<P, hexmode, PSTAT>>
    BY <1>11 DEF ExchangePointer
  <2> QED BY <1>a, <1>b, <1>11, <2>4, <2>6, <2>7 DEF RegisterTypes, Elsewhere
<1>12. CASE AdvancePointer
  <2>1. PICK n \in Immediates, sign \in {1, -1} : D0' = (D0 + sign * n) % 2^20
    BY <1>12 DEF AdvancePointer, add_address
  <2>2. PICK q \in Int : q = D0 + sign * n
    <3>1. n \in 1 .. 16
      BY RegistersAssumption
    <3> QED BY <1>a, <3>1
  <2>3. D0' \in Int
    BY <2>1, <2>2
  <2>4. UNCHANGED <<reg, P, hexmode, PSTAT>>
    BY <1>12 DEF AdvancePointer
  <2> QED BY <1>a, <1>b, <1>12, <2>3, <2>4 DEF RegisterTypes, Elsewhere
<1> QED
  BY <1>1, <1>2, <1>4, <1>5, <1>6, <1>7, <1>8, <1>9, <1>10, <1>11, <1>12, NothingElse
     DEF Elsewhere

(* Every operation of register.c, and every move of P, the status and the  *)
(* pointers, leaves nibbles in the registers and a bit in CARRY.           *)
THEOREM TypesHold == Spec => []RegisterTypes
<1>1. Init => RegisterTypes
  <2> SUFFICES ASSUME Init PROVE RegisterTypes
    OBVIOUS
  <2>1. PICK a \in Words, b \in Words :
          /\ reg = [r \in Working \cup Scratch |-> IF r \in {"A", "D"} THEN a ELSE b]
          /\ D0 = dat_to_addr(a)
    BY DEF Init
  <2>2. a \in Word /\ b \in Word /\ Pointers \subseteq Nibble
    BY RegistersAssumption
  <2>3. D0 \in Int
    <3>1. 4 \in Positions /\ 0 \in 0 .. 4 + 1 /\ 16 \in Bases
      BY DEF Positions, Bases
    <3> QED BY <2>1, <2>2, <3>1, NumberOfWord DEF dat_to_addr
  <2>4. PSTAT \in [Positions -> {0, 1}]
    BY DEF Init, Positions
  <2> QED BY <2>1, <2>2, <2>3, <2>4 DEF Init, RegisterTypes, Regs
<1>2. RegisterTypes /\ [Next]_vars => RegisterTypes'
  BY TypesKept
<1> QED BY <1>1, <1>2, PTL DEF Spec

-----------------------------------------------------------------------------
(* The step properties.                                                    *)
LEMMA FieldSteps ==
  ASSUME RegisterTypes, Next, ~UNCHANGED vars
  PROVE  FieldStep
<1>1. CASE Elsewhere
  BY <1>1, NotOnAField DEF FieldStep
<1>2. CASE OnAField
  <2>1. PICK op, d, s, f : Does(op, d, s, f)
    BY <1>2, Effects
  <2>2. /\ last'.op = op /\ last'.d = d /\ last'.s = s /\ last'.f = f
        /\ f \in Fields /\ P \in Nibble /\ DOMAIN reg = Regs
    BY <2>1 DEF Does, Instr, RegisterTypes
  <2>3. \A r \in Regs : \A k \in Positions :
          reg'[r][k] # reg[r][k] => (r = d \/ (op = "ex" /\ r = s)) /\ k \in S(f) .. E(f)
    BY <2>1, DoesTouch DEF Touches
  <2>4. FieldOf(f, P) = S(f) .. E(f)
    BY <2>2, FieldBounds
  <2> QED BY <2>2, <2>3, <2>4 DEF FieldStep
<1> QED BY <1>1, <1>2, NothingElse

(* What a step on a field works on.                                        *)
LEMMA Operands ==
  ASSUME RegisterTypes, NEW op, NEW d, NEW s, NEW f, Does(op, d, s, f)
  PROVE  /\ last'.op = op /\ last'.d = d /\ last'.s = s /\ last'.f = f
         /\ d \in Regs /\ s \in Regs /\ f \in Fields
         /\ reg \in [Regs -> Word] /\ reg[d] \in Word /\ reg[s] \in Word
         /\ P \in Nibble /\ hexmode \in Radices
         /\ E(f) \in Positions /\ S(f) \in 0 .. E(f)
         /\ FieldOf(f, P) = S(f) .. E(f)
         /\ E(f) + 1 - S(f) = E(f) - S(f) + 1
<1>1. /\ last'.op = op /\ last'.d = d /\ last'.s = s /\ last'.f = f
      /\ d \in Regs /\ s \in Regs /\ f \in Fields
  BY DEF Does, Instr
<1>2. /\ reg \in [Regs -> Word] /\ reg[d] \in Word /\ reg[s] \in Word
      /\ P \in Nibble /\ hexmode \in Radices
  BY <1>1 DEF RegisterTypes, DEC, HEX, Radices
<1>3. /\ E(f) \in Positions /\ S(f) \in 0 .. E(f)
      /\ FieldOf(f, P) = S(f) .. E(f)
      /\ E(f) + 1 - S(f) = E(f) - S(f) + 1
  BY <1>1, <1>2, FieldBounds
<1> QED BY <1>1, <1>2, <1>3

LEMMA ValueIsNumber ==
  ASSUME NEW f, FieldOf(f, P) = S(f) .. E(f), E(f) + 1 - S(f) = E(f) - S(f) + 1, NEW b
  PROVE  /\ \A w : Value(w, f, b) = Number(w, S(f), E(f), b)
         /\ Modulus(f, b) = Power(b, E(f) + 1 - S(f))
         /\ \A w : Digits(w, f, b) => DigitsOn(w, S(f), E(f), b)
BY DEF Value, Modulus, Digits, DigitsOn

LEMMA AddOnField ==
  ASSUME RegisterTypes, NEW d, NEW s, NEW f, Does("add", d, s, f),
         Digits(reg[d], f, hexmode), Digits(reg[s], f, hexmode)
  PROVE  LET m == Modulus(f, hexmode)
             x == Value(reg[d], f, hexmode)
             y == Value(reg[s], f, hexmode)
             r == Value(reg'[d], f, hexmode)
         IN r + m * CARRY' = x + y
<1>1. Computed(d, add_register(reg[d], reg[d], reg[s], S(f), E(f), hexmode))
  BY DEF Does, Computing, Moving, Exchanging, Testing
<1>2. /\ d \in Regs /\ reg \in [Regs -> Word] /\ reg[d] \in Word /\ reg[s] \in Word
      /\ P \in Nibble /\ hexmode \in Radices
      /\ E(f) \in Positions /\ S(f) \in 0 .. E(f)
      /\ FieldOf(f, P) = S(f) .. E(f) /\ E(f) + 1 - S(f) = E(f) - S(f) + 1
  BY Operands
<1>3. /\ \A w : Value(w, f, hexmode) = Number(w, S(f), E(f), hexmode)
      /\ Modulus(f, hexmode) = Power(hexmode, E(f) + 1 - S(f))
      /\ DigitsOn(reg[d], S(f), E(f), hexmode) /\ DigitsOn(reg[s], S(f), E(f), hexmode)
  BY <1>2, ValueIsNumber
<1> DEFINE q == add_register(reg[d], reg[d], reg[s], S(f), E(f), hexmode)
<1>4. Number(q.value, S(f), E(f), hexmode) + Power(hexmode, E(f) + 1 - S(f)) * q.carry
        = Number(reg[d], S(f), E(f), hexmode) + Number(reg[s], S(f), E(f), hexmode)
  BY <1>2, <1>3, AddIsExact
<1> HIDE DEF q
<1>5. reg'[d] = q.value /\ CARRY' = q.carry
  BY <1>1, <1>2 DEF Computed, q
<1>6. /\ Value(reg'[d], f, hexmode) = Number(q.value, S(f), E(f), hexmode)
      /\ Value(reg[d], f, hexmode) = Number(reg[d], S(f), E(f), hexmode)
      /\ Value(reg[s], f, hexmode) = Number(reg[s], S(f), E(f), hexmode)
  BY Zenon, <1>3, <1>5
<1>7. Value(reg'[d], f, hexmode) + Modulus(f, hexmode) * CARRY'
        = Number(q.value, S(f), E(f), hexmode) + Power(hexmode, E(f) + 1 - S(f)) * q.carry
  BY Zenon, <1>3, <1>5, <1>6
<1>8. Value(reg[d], f, hexmode) + Value(reg[s], f, hexmode)
        = Number(reg[d], S(f), E(f), hexmode) + Number(reg[s], S(f), E(f), hexmode)
  BY Zenon, <1>6
<1> QED BY Zenon, <1>4, <1>7, <1>8

LEMMA SubOnField ==
  ASSUME RegisterTypes, NEW d, NEW s, NEW f, Does("sub", d, s, f),
         Digits(reg[d], f, hexmode), Digits(reg[s], f, hexmode)
  PROVE  LET m == Modulus(f, hexmode)
             x == Value(reg[d], f, hexmode)
             y == Value(reg[s], f, hexmode)
             r == Value(reg'[d], f, hexmode)
         IN r - m * CARRY' = x - y
<1>1. Computed(d, sub_register(reg[d], reg[d], reg[s], S(f), E(f), hexmode))
  BY DEF Does, Computing, Moving, Exchanging, Testing
<1>2. /\ d \in Regs /\ reg \in [Regs -> Word] /\ reg[d] \in Word /\ reg[s] \in Word
      /\ P \in Nibble /\ hexmode \in Radices
      /\ E(f) \in Positions /\ S(f) \in 0 .. E(f)
      /\ FieldOf(f, P) = S(f) .. E(f) /\ E(f) + 1 - S(f) = E(f) - S(f) + 1
  BY Operands
<1>3. /\ \A w : Value(w, f, hexmode) = Number(w, S(f), E(f), hexmode)
      /\ Modulus(f, hexmode) = Power(hexmode, E(f) + 1 - S(f))
      /\ DigitsOn(reg[d], S(f), E(f), hexmode) /\ DigitsOn(reg[s], S(f), E(f), hexmode)
  BY <1>2, ValueIsNumber
<1> DEFINE q == sub_register(reg[d], reg[d], reg[s], S(f), E(f), hexmode)
<1>4. Number(q.value, S(f), E(f), hexmode) - Power(hexmode, E(f) + 1 - S(f)) * q.carry
        = Number(reg[d], S(f), E(f), hexmode) - Number(reg[s], S(f), E(f), hexmode)
  BY <1>2, <1>3, SubIsExact
<1> HIDE DEF q
<1>5. reg'[d] = q.value /\ CARRY' = q.carry
  BY <1>1, <1>2 DEF Computed, q
<1>6. /\ Value(reg'[d], f, hexmode) = Number(q.value, S(f), E(f), hexmode)
      /\ Value(reg[d], f, hexmode) = Number(reg[d], S(f), E(f), hexmode)
      /\ Value(reg[s], f, hexmode) = Number(reg[s], S(f), E(f), hexmode)
  BY Zenon, <1>3, <1>5
<1> QED BY Zenon, <1>3, <1>4, <1>5, <1>6

LEMMA SubFromOnField ==
  ASSUME RegisterTypes, NEW d, NEW s, NEW f, Does("subfrom", d, s, f),
         Digits(reg[d], f, hexmode), Digits(reg[s], f, hexmode)
  PROVE  LET m == Modulus(f, hexmode)
             x == Value(reg[d], f, hexmode)
             y == Value(reg[s], f, hexmode)
             r == Value(reg'[d], f, hexmode)
         IN r - m * CARRY' = y - x
<1>1. Computed(d, sub_register(reg[d], reg[s], reg[d], S(f), E(f), hexmode))
  BY DEF Does, Computing, Moving, Exchanging, Testing
<1>2. /\ d \in Regs /\ reg \in [Regs -> Word] /\ reg[d] \in Word /\ reg[s] \in Word
      /\ P \in Nibble /\ hexmode \in Radices
      /\ E(f) \in Positions /\ S(f) \in 0 .. E(f)
      /\ FieldOf(f, P) = S(f) .. E(f) /\ E(f) + 1 - S(f) = E(f) - S(f) + 1
  BY Operands
<1>3. /\ \A w : Value(w, f, hexmode) = Number(w, S(f), E(f), hexmode)
      /\ Modulus(f, hexmode) = Power(hexmode, E(f) + 1 - S(f))
      /\ DigitsOn(reg[d], S(f), E(f), hexmode) /\ DigitsOn(reg[s], S(f), E(f), hexmode)
  BY <1>2, ValueIsNumber
<1> DEFINE q == sub_register(reg[d], reg[s], reg[d], S(f), E(f), hexmode)
<1>4. Number(q.value, S(f), E(f), hexmode) - Power(hexmode, E(f) + 1 - S(f)) * q.carry
        = Number(reg[s], S(f), E(f), hexmode) - Number(reg[d], S(f), E(f), hexmode)
  BY <1>2, <1>3, SubIsExact
<1> HIDE DEF q
<1>5. reg'[d] = q.value /\ CARRY' = q.carry
  BY <1>1, <1>2 DEF Computed, q
<1>6. /\ Value(reg'[d], f, hexmode) = Number(q.value, S(f), E(f), hexmode)
      /\ Value(reg[d], f, hexmode) = Number(reg[d], S(f), E(f), hexmode)
      /\ Value(reg[s], f, hexmode) = Number(reg[s], S(f), E(f), hexmode)
  BY Zenon, <1>3, <1>5
<1> QED BY Zenon, <1>3, <1>4, <1>5, <1>6

LEMMA IncOnField ==
  ASSUME RegisterTypes, NEW d, NEW s, NEW f, Does("inc", d, s, f),
         Digits(reg[d], f, hexmode), Digits(reg[s], f, hexmode)
  PROVE  LET m == Modulus(f, hexmode)
             x == Value(reg[d], f, hexmode)
             y == Value(reg[s], f, hexmode)
             r == Value(reg'[d], f, hexmode)
         IN r + m * CARRY' = x + 1
<1>1. Computed(d, inc_register(reg[d], S(f), E(f), hexmode))
  BY DEF Does, Computing, Moving, Exchanging, Testing
<1>2. /\ d \in Regs /\ reg \in [Regs -> Word] /\ reg[d] \in Word /\ reg[s] \in Word
      /\ P \in Nibble /\ hexmode \in Radices
      /\ E(f) \in Positions /\ S(f) \in 0 .. E(f)
      /\ FieldOf(f, P) = S(f) .. E(f) /\ E(f) + 1 - S(f) = E(f) - S(f) + 1
  BY Operands
<1>3. /\ \A w : Value(w, f, hexmode) = Number(w, S(f), E(f), hexmode)
      /\ Modulus(f, hexmode) = Power(hexmode, E(f) + 1 - S(f))
      /\ DigitsOn(reg[d], S(f), E(f), hexmode) /\ DigitsOn(reg[s], S(f), E(f), hexmode)
  BY <1>2, ValueIsNumber
<1> DEFINE q == inc_register(reg[d], S(f), E(f), hexmode)
<1>4. Number(q.value, S(f), E(f), hexmode) + Power(hexmode, E(f) + 1 - S(f)) * q.carry = Number(reg[d], S(f), E(f), hexmode) + 1
  BY <1>2, <1>3, IncIsExact
<1> HIDE DEF q
<1>5. reg'[d] = q.value /\ CARRY' = q.carry
  BY <1>1, <1>2 DEF Computed, q
<1>6. /\ Value(reg'[d], f, hexmode) = Number(q.value, S(f), E(f), hexmode)
      /\ Value(reg[d], f, hexmode) = Number(reg[d], S(f), E(f), hexmode)
      /\ Value(reg[s], f, hexmode) = Number(reg[s], S(f), E(f), hexmode)
  BY Zenon, <1>3, <1>5
<1> QED BY Zenon, <1>3, <1>4, <1>5, <1>6

LEMMA DecOnField ==
  ASSUME RegisterTypes, NEW d, NEW s, NEW f, Does("dec", d, s, f),
         Digits(reg[d], f, hexmode), Digits(reg[s], f, hexmode)
  PROVE  LET m == Modulus(f, hexmode)
             x == Value(reg[d], f, hexmode)
             y == Value(reg[s], f, hexmode)
             r == Value(reg'[d], f, hexmode)
         IN r - m * CARRY' = x - 1
<1>1. Computed(d, dec_register(reg[d], S(f), E(f), hexmode))
  BY DEF Does, Computing, Moving, Exchanging, Testing
<1>2. /\ d \in Regs /\ reg \in [Regs -> Word] /\ reg[d] \in Word /\ reg[s] \in Word
      /\ P \in Nibble /\ hexmode \in Radices
      /\ E(f) \in Positions /\ S(f) \in 0 .. E(f)
      /\ FieldOf(f, P) = S(f) .. E(f) /\ E(f) + 1 - S(f) = E(f) - S(f) + 1
  BY Operands
<1>3. /\ \A w : Value(w, f, hexmode) = Number(w, S(f), E(f), hexmode)
      /\ Modulus(f, hexmode) = Power(hexmode, E(f) + 1 - S(f))
      /\ DigitsOn(reg[d], S(f), E(f), hexmode) /\ DigitsOn(reg[s], S(f), E(f), hexmode)
  BY <1>2, ValueIsNumber
<1> DEFINE q == dec_register(reg[d], S(f), E(f), hexmode)
<1>4. Number(q.value, S(f), E(f), hexmode) - Power(hexmode, E(f) + 1 - S(f)) * q.carry = Number(reg[d], S(f), E(f), hexmode) - 1
  BY <1>2, <1>3, DecIsExact
<1> HIDE DEF q
<1>5. reg'[d] = q.value /\ CARRY' = q.carry
  BY <1>1, <1>2 DEF Computed, q
<1>6. /\ Value(reg'[d], f, hexmode) = Number(q.value, S(f), E(f), hexmode)
      /\ Value(reg[d], f, hexmode) = Number(reg[d], S(f), E(f), hexmode)
      /\ Value(reg[s], f, hexmode) = Number(reg[s], S(f), E(f), hexmode)
  BY Zenon, <1>3, <1>5
<1> QED BY Zenon, <1>3, <1>4, <1>5, <1>6

LEMMA NegOnField ==
  ASSUME RegisterTypes, NEW d, NEW s, NEW f, Does("neg", d, s, f),
         Digits(reg[d], f, hexmode), Digits(reg[s], f, hexmode)
  PROVE  LET m == Modulus(f, hexmode)
             x == Value(reg[d], f, hexmode)
             y == Value(reg[s], f, hexmode)
             r == Value(reg'[d], f, hexmode)
         IN r = (-x) % m /\ CARRY' = (IF x = 0 THEN 0 ELSE 1)
<1>1. Computed(d, complement_2_register(reg[d], S(f), E(f), hexmode))
  BY DEF Does, Computing, Moving, Exchanging, Testing
<1>2. /\ d \in Regs /\ reg \in [Regs -> Word] /\ reg[d] \in Word /\ reg[s] \in Word
      /\ P \in Nibble /\ hexmode \in Radices
      /\ E(f) \in Positions /\ S(f) \in 0 .. E(f)
      /\ FieldOf(f, P) = S(f) .. E(f) /\ E(f) + 1 - S(f) = E(f) - S(f) + 1
  BY Operands
<1>3. /\ \A w : Value(w, f, hexmode) = Number(w, S(f), E(f), hexmode)
      /\ Modulus(f, hexmode) = Power(hexmode, E(f) + 1 - S(f))
      /\ DigitsOn(reg[d], S(f), E(f), hexmode) /\ DigitsOn(reg[s], S(f), E(f), hexmode)
  BY <1>2, ValueIsNumber
<1> DEFINE q == complement_2_register(reg[d], S(f), E(f), hexmode)
<1>4. /\ Number(q.value, S(f), E(f), hexmode) = (-Number(reg[d], S(f), E(f), hexmode)) % Power(hexmode, E(f) + 1 - S(f))
      /\ q.carry = IF Number(reg[d], S(f), E(f), hexmode) = 0 THEN 0 ELSE 1
  BY <1>2, <1>3, NegIsExact
<1> HIDE DEF q
<1>5. reg'[d] = q.value /\ CARRY' = q.carry
  BY <1>1, <1>2 DEF Computed, q
<1>6. /\ Value(reg'[d], f, hexmode) = Number(q.value, S(f), E(f), hexmode)
      /\ Value(reg[d], f, hexmode) = Number(reg[d], S(f), E(f), hexmode)
      /\ Value(reg[s], f, hexmode) = Number(reg[s], S(f), E(f), hexmode)
  BY Zenon, <1>3, <1>5
<1> QED BY Zenon, <1>3, <1>4, <1>5, <1>6

LEMMA NotOnField ==
  ASSUME RegisterTypes, NEW d, NEW s, NEW f, Does("not", d, s, f),
         Digits(reg[d], f, hexmode), Digits(reg[s], f, hexmode)
  PROVE  LET m == Modulus(f, hexmode)
             x == Value(reg[d], f, hexmode)
             y == Value(reg[s], f, hexmode)
             r == Value(reg'[d], f, hexmode)
         IN r = m - 1 - x /\ CARRY' = 0
<1>1. Computed(d, complement_1_register(reg[d], S(f), E(f), hexmode))
  BY DEF Does, Computing, Moving, Exchanging, Testing
<1>2. /\ d \in Regs /\ reg \in [Regs -> Word] /\ reg[d] \in Word /\ reg[s] \in Word
      /\ P \in Nibble /\ hexmode \in Radices
      /\ E(f) \in Positions /\ S(f) \in 0 .. E(f)
      /\ FieldOf(f, P) = S(f) .. E(f) /\ E(f) + 1 - S(f) = E(f) - S(f) + 1
  BY Operands
<1>3. /\ \A w : Value(w, f, hexmode) = Number(w, S(f), E(f), hexmode)
      /\ Modulus(f, hexmode) = Power(hexmode, E(f) + 1 - S(f))
      /\ DigitsOn(reg[d], S(f), E(f), hexmode) /\ DigitsOn(reg[s], S(f), E(f), hexmode)
  BY <1>2, ValueIsNumber
<1> DEFINE q == complement_1_register(reg[d], S(f), E(f), hexmode)
<1>4. /\ Number(q.value, S(f), E(f), hexmode) = Power(hexmode, E(f) + 1 - S(f)) - 1 - Number(reg[d], S(f), E(f), hexmode)
      /\ q.carry = 0
  BY <1>2, <1>3, NotIsExact
<1> HIDE DEF q
<1>5. reg'[d] = q.value /\ CARRY' = q.carry
  BY <1>1, <1>2 DEF Computed, q
<1>6. /\ Value(reg'[d], f, hexmode) = Number(q.value, S(f), E(f), hexmode)
      /\ Value(reg[d], f, hexmode) = Number(reg[d], S(f), E(f), hexmode)
      /\ Value(reg[s], f, hexmode) = Number(reg[s], S(f), E(f), hexmode)
  BY Zenon, <1>3, <1>5
<1> QED BY Zenon, <1>3, <1>4, <1>5, <1>6

LEMMA AddConstantOnField ==
  ASSUME RegisterTypes, NEW d, NEW s, NEW f, Does("addcon", d, s, f),
         Digits(reg[d], f, 16), Digits(reg[s], f, 16)
  PROVE  LET m == Modulus(f, 16)
             x == Value(reg[d], f, 16)
             y == Value(reg[s], f, 16)
             r == Value(reg'[d], f, 16)
         IN \E n \in Immediates : r + m * CARRY' = x + n
<1>1. PICK n \in Immediates : Computed(d, add_register_constant(reg[d], S(f), E(f), n))
  BY DEF Does, Computing, Moving, Exchanging, Testing
<1>2. /\ d \in Regs /\ reg \in [Regs -> Word] /\ reg[d] \in Word /\ reg[s] \in Word
      /\ P \in Nibble /\ hexmode \in Radices
      /\ E(f) \in Positions /\ S(f) \in 0 .. E(f)
      /\ FieldOf(f, P) = S(f) .. E(f) /\ E(f) + 1 - S(f) = E(f) - S(f) + 1
  BY Operands
<1>3. /\ \A w : Value(w, f, 16) = Number(w, S(f), E(f), 16)
      /\ Modulus(f, 16) = Power(16, E(f) + 1 - S(f))
      /\ DigitsOn(reg[d], S(f), E(f), 16) /\ DigitsOn(reg[s], S(f), E(f), 16)
  BY <1>2, ValueIsNumber
<1> DEFINE q == add_register_constant(reg[d], S(f), E(f), n)
<1>4. Number(q.value, S(f), E(f), 16) + Power(16, E(f) + 1 - S(f)) * q.carry = Number(reg[d], S(f), E(f), 16) + n
  BY <1>2, <1>3, RegistersAssumption, AddConstantIsExact
<1> HIDE DEF q
<1>5. reg'[d] = q.value /\ CARRY' = q.carry
  BY <1>1, <1>2 DEF Computed, q
<1>6. /\ Value(reg'[d], f, 16) = Number(q.value, S(f), E(f), 16)
      /\ Value(reg[d], f, 16) = Number(reg[d], S(f), E(f), 16)
      /\ Value(reg[s], f, 16) = Number(reg[s], S(f), E(f), 16)
  BY Zenon, <1>3, <1>5
<1> QED BY Zenon, <1>1, <1>3, <1>4, <1>5, <1>6

LEMMA SubConstantOnField ==
  ASSUME RegisterTypes, NEW d, NEW s, NEW f, Does("subcon", d, s, f),
         Digits(reg[d], f, 16), Digits(reg[s], f, 16)
  PROVE  LET m == Modulus(f, 16)
             x == Value(reg[d], f, 16)
             y == Value(reg[s], f, 16)
             r == Value(reg'[d], f, 16)
         IN \E n \in Immediates : r - m * CARRY' = x - n
<1>1. PICK n \in Immediates : Computed(d, sub_register_constant(reg[d], S(f), E(f), n))
  BY DEF Does, Computing, Moving, Exchanging, Testing
<1>2. /\ d \in Regs /\ reg \in [Regs -> Word] /\ reg[d] \in Word /\ reg[s] \in Word
      /\ P \in Nibble /\ hexmode \in Radices
      /\ E(f) \in Positions /\ S(f) \in 0 .. E(f)
      /\ FieldOf(f, P) = S(f) .. E(f) /\ E(f) + 1 - S(f) = E(f) - S(f) + 1
  BY Operands
<1>3. /\ \A w : Value(w, f, 16) = Number(w, S(f), E(f), 16)
      /\ Modulus(f, 16) = Power(16, E(f) + 1 - S(f))
      /\ DigitsOn(reg[d], S(f), E(f), 16) /\ DigitsOn(reg[s], S(f), E(f), 16)
  BY <1>2, ValueIsNumber
<1> DEFINE q == sub_register_constant(reg[d], S(f), E(f), n)
<1>4. Number(q.value, S(f), E(f), 16) - Power(16, E(f) + 1 - S(f)) * q.carry = Number(reg[d], S(f), E(f), 16) - n
  BY <1>2, <1>3, RegistersAssumption, SubConstantIsExact
<1> HIDE DEF q
<1>5. reg'[d] = q.value /\ CARRY' = q.carry
  BY <1>1, <1>2 DEF Computed, q
<1>6. /\ Value(reg'[d], f, 16) = Number(q.value, S(f), E(f), 16)
      /\ Value(reg[d], f, 16) = Number(reg[d], S(f), E(f), 16)
      /\ Value(reg[s], f, 16) = Number(reg[s], S(f), E(f), 16)
  BY Zenon, <1>3, <1>5
<1> QED BY Zenon, <1>1, <1>3, <1>4, <1>5, <1>6

LEMMA AddPOnField ==
  ASSUME RegisterTypes, NEW d, NEW s, NEW f, Does("c+p+1", d, s, f)
  PROVE  LET m == Modulus(f, 16)
             x == Value(reg[d], f, 16)
             r == Value(reg'[d], f, 16)
         IN r + m * CARRY' = x + P + 1
<1>1. Computed(d, add_p_plus_one(reg[d], P)) /\ f = A_FIELD
  BY DEF Does, Computing, Moving, Exchanging, Testing
<1>2. d \in Regs /\ reg \in [Regs -> Word] /\ reg[d] \in Word /\ P \in Nibble
  BY Operands
<1>3. S(f) = 0 /\ E(f) = 4
  BY <1>1, WholeFields
<1>4. /\ \A w : Value(w, f, 16) = Number(w, 0, 4, 16)
      /\ Modulus(f, 16) = Power(16, 4 + 1 - 0)
  BY <1>3 DEF Value, Modulus
<1> DEFINE q == add_p_plus_one(reg[d], P)
<1>5. Number(q.value, 0, 4, 16) + Power(16, 4 + 1 - 0) * q.carry = Number(reg[d], 0, 4, 16) + P + 1
  BY <1>2, AddPIsExact
<1> HIDE DEF q
<1>6. reg'[d] = q.value /\ CARRY' = q.carry
  BY <1>1, <1>2 DEF Computed, q
<1>7. /\ Value(reg'[d], f, 16) = Number(q.value, 0, 4, 16)
      /\ Value(reg[d], f, 16) = Number(reg[d], 0, 4, 16)
  BY Zenon, <1>4, <1>6
<1> QED BY Zenon, <1>4, <1>5, <1>6, <1>7

(* What ArithmeticStep says of one instruction.                            *)
Exact(op, d, s, f, b) ==
  LET m == Modulus(f, b)
      x == Value(reg[d], f, b)
      y == Value(reg[s], f, b)
      r == Value(reg'[d], f, b)
  IN /\ op = "add"     => r + m * CARRY' = x + y
     /\ op = "sub"     => r - m * CARRY' = x - y
     /\ op = "subfrom" => r - m * CARRY' = y - x
     /\ op = "inc"     => r + m * CARRY' = x + 1
     /\ op = "dec"     => r - m * CARRY' = x - 1
     /\ op = "neg"     => r = (-x) % m /\ CARRY' = (IF x = 0 THEN 0 ELSE 1)
     /\ op = "not"     => r = m - 1 - x /\ CARRY' = 0
     /\ op = "addcon"  => \E n \in Immediates : r + m * CARRY' = x + n
     /\ op = "subcon"  => \E n \in Immediates : r - m * CARRY' = x - n
     /\ op = "c+p+1"   => r + m * CARRY' = x + P + 1

BaseOf(op) == IF op \in {"addcon", "subcon", "c+p+1"} THEN 16 ELSE hexmode

LEMMA ExactOnField ==
  ASSUME RegisterTypes, NEW op, NEW d, NEW s, NEW f, Does(op, d, s, f),
         Digits(reg[d], f, BaseOf(op)), Digits(reg[s], f, BaseOf(op))
  PROVE  Exact(op, d, s, f, BaseOf(op))
<1>1. CASE op = "add"
  <2>1. BaseOf(op) = hexmode
    BY <1>1 DEF BaseOf
  <2>2. Does("add", d, s, f) /\ Digits(reg[d], f, hexmode) /\ Digits(reg[s], f, hexmode)
    BY Zenon, <1>1, <2>1
  <2>3. Exact("add", d, s, f, hexmode)
    BY <2>2, AddOnField DEF Exact
  <2> QED BY Zenon, <1>1, <2>1, <2>3
<1>2. CASE op = "sub"
  <2>1. BaseOf(op) = hexmode
    BY <1>2 DEF BaseOf
  <2>2. Does("sub", d, s, f) /\ Digits(reg[d], f, hexmode) /\ Digits(reg[s], f, hexmode)
    BY Zenon, <1>2, <2>1
  <2>3. Exact("sub", d, s, f, hexmode)
    BY <2>2, SubOnField DEF Exact
  <2> QED BY Zenon, <1>2, <2>1, <2>3
<1>3. CASE op = "subfrom"
  <2>1. BaseOf(op) = hexmode
    BY <1>3 DEF BaseOf
  <2>2. Does("subfrom", d, s, f) /\ Digits(reg[d], f, hexmode) /\ Digits(reg[s], f, hexmode)
    BY Zenon, <1>3, <2>1
  <2>3. Exact("subfrom", d, s, f, hexmode)
    BY <2>2, SubFromOnField DEF Exact
  <2> QED BY Zenon, <1>3, <2>1, <2>3
<1>4. CASE op = "inc"
  <2>1. BaseOf(op) = hexmode
    BY <1>4 DEF BaseOf
  <2>2. Does("inc", d, s, f) /\ Digits(reg[d], f, hexmode) /\ Digits(reg[s], f, hexmode)
    BY Zenon, <1>4, <2>1
  <2>3. Exact("inc", d, s, f, hexmode)
    BY <2>2, IncOnField DEF Exact
  <2> QED BY Zenon, <1>4, <2>1, <2>3
<1>5. CASE op = "dec"
  <2>1. BaseOf(op) = hexmode
    BY <1>5 DEF BaseOf
  <2>2. Does("dec", d, s, f) /\ Digits(reg[d], f, hexmode) /\ Digits(reg[s], f, hexmode)
    BY Zenon, <1>5, <2>1
  <2>3. Exact("dec", d, s, f, hexmode)
    BY <2>2, DecOnField DEF Exact
  <2> QED BY Zenon, <1>5, <2>1, <2>3
<1>6. CASE op = "neg"
  <2>1. BaseOf(op) = hexmode
    BY <1>6 DEF BaseOf
  <2>2. Does("neg", d, s, f) /\ Digits(reg[d], f, hexmode) /\ Digits(reg[s], f, hexmode)
    BY Zenon, <1>6, <2>1
  <2>3. Exact("neg", d, s, f, hexmode)
    BY <2>2, NegOnField DEF Exact
  <2> QED BY Zenon, <1>6, <2>1, <2>3
<1>7. CASE op = "not"
  <2>1. BaseOf(op) = hexmode
    BY <1>7 DEF BaseOf
  <2>2. Does("not", d, s, f) /\ Digits(reg[d], f, hexmode) /\ Digits(reg[s], f, hexmode)
    BY Zenon, <1>7, <2>1
  <2>3. Exact("not", d, s, f, hexmode)
    BY <2>2, NotOnField DEF Exact
  <2> QED BY Zenon, <1>7, <2>1, <2>3
<1>8. CASE op = "addcon"
  <2>1. BaseOf(op) = 16
    BY <1>8 DEF BaseOf
  <2>2. Does("addcon", d, s, f) /\ Digits(reg[d], f, 16) /\ Digits(reg[s], f, 16)
    BY Zenon, <1>8, <2>1
  <2>3. Exact("addcon", d, s, f, 16)
    BY <2>2, AddConstantOnField DEF Exact
  <2> QED BY Zenon, <1>8, <2>1, <2>3
<1>9. CASE op = "subcon"
  <2>1. BaseOf(op) = 16
    BY <1>9 DEF BaseOf
  <2>2. Does("subcon", d, s, f) /\ Digits(reg[d], f, 16) /\ Digits(reg[s], f, 16)
    BY Zenon, <1>9, <2>1
  <2>3. Exact("subcon", d, s, f, 16)
    BY <2>2, SubConstantOnField DEF Exact
  <2> QED BY Zenon, <1>9, <2>1, <2>3
<1>10. CASE op = "c+p+1"
  <2>1. BaseOf(op) = 16
    BY <1>10 DEF BaseOf
  <2>2. Does("c+p+1", d, s, f) /\ Digits(reg[d], f, 16) /\ Digits(reg[s], f, 16)
    BY Zenon, <1>10, <2>1
  <2>3. Exact("c+p+1", d, s, f, 16)
    BY <2>2, AddPOnField DEF Exact
  <2> QED BY Zenon, <1>10, <2>1, <2>3
<1>11. CASE op \notin {"add", "sub", "subfrom", "inc", "dec", "neg", "not", "addcon", "subcon", "c+p+1"}
  BY <1>11 DEF Exact
<1> QED BY <1>1, <1>2, <1>3, <1>4, <1>5, <1>6, <1>7, <1>8, <1>9, <1>10, <1>11

LEMMA ArithmeticSteps ==
  ASSUME RegisterTypes, Next, ~UNCHANGED vars
  PROVE  ArithmeticStep
<1>1. CASE Elsewhere
  BY <1>1, NotOnAField DEF ArithmeticStep
<1>2. CASE OnAField
  <2>1. PICK op, d, s, f : Does(op, d, s, f)
    BY <1>2, Effects
  <2>2. last'.op = op /\ last'.d = d /\ last'.s = s /\ last'.f = f
    BY <2>1 DEF Does, Instr
  <2>3. Digits(reg[d], f, BaseOf(op)) /\ Digits(reg[s], f, BaseOf(op))
          => Exact(op, d, s, f, BaseOf(op))
    BY <2>1, ExactOnField
  <2> QED BY Zenon, <2>2, <2>3 DEF ArithmeticStep, Exact, BaseOf
<1> QED BY <1>1, <1>2, NothingElse

LEMMA AdditionSteps ==
  ASSUME RegisterTypes, Next, ~UNCHANGED vars
  PROVE  AdditionStep
<1>1. CASE Elsewhere
  BY <1>1, NotOnAField DEF AdditionStep, NoInstr, Instr
<1>2. CASE OnAField
  <2>1. PICK op, d, s, f : Does(op, d, s, f)
    BY <1>2, Effects
  <2>2. last'.op = op /\ last'.d = d /\ last'.s = s /\ last'.f = f
    BY <2>1 DEF Does, Instr
  <2>3. ASSUME op = "add", Digits(reg[d], f, hexmode), Digits(reg[s], f, hexmode)
        PROVE  sub_register(reg'[d], reg'[d], reg[s], S(f), E(f), hexmode)
                 = [value |-> reg[d], carry |-> CARRY']
    <3>1. Computed(d, add_register(reg[d], reg[d], reg[s], S(f), E(f), hexmode))
      BY <2>1, <2>3 DEF Does, Computing, Moving, Exchanging, Testing
    <3>2. /\ d \in Regs /\ reg \in [Regs -> Word] /\ reg[d] \in Word /\ reg[s] \in Word
          /\ hexmode \in Radices /\ E(f) \in Positions /\ S(f) \in 0 .. E(f)
          /\ FieldOf(f, P) = S(f) .. E(f) /\ E(f) + 1 - S(f) = E(f) - S(f) + 1
      BY <2>1, Operands
    <3>3. DigitsOn(reg[d], S(f), E(f), hexmode) /\ DigitsOn(reg[s], S(f), E(f), hexmode)
      BY <2>3, <3>2, ValueIsNumber
    <3> DEFINE q == add_register(reg[d], reg[d], reg[s], S(f), E(f), hexmode)
    <3>4. sub_register(q.value, q.value, reg[s], S(f), E(f), hexmode)
            = [value |-> reg[d], carry |-> q.carry]
      BY <3>2, <3>3, SubUndoesAdd
    <3>5. Computed(d, q)
      BY <3>1
    <3> HIDE DEF q
    <3>6. reg'[d] = q.value /\ CARRY' = q.carry
      BY <3>2, <3>5 DEF Computed
    <3> QED BY Zenon, <3>4, <3>6
  <2> QED BY Zenon, <2>2, <2>3 DEF AdditionStep
<1> QED BY <1>1, <1>2, NothingElse

(* Decimal digits.                                                         *)
Tens(w) == \A k \in Positions : w[k] < 10

Hexadecimal == {"and", "or", "srb", "addcon", "subcon", "c+p+1", "load", "setbit", "clrbit"}

LEMMA DigitsLeft ==
  ASSUME RegisterTypes, NEW op, NEW d, NEW s, NEW f, Does(op, d, s, f),
         hexmode = 10, op \notin Hexadecimal, Tens(reg[d]), Tens(reg[s])
  PROVE  /\ \A k \in S(f) .. E(f) : reg'[d][k] < 10
         /\ op = "ex" => \A k \in S(f) .. E(f) : reg'[s][k] < 10
<1>1. /\ d \in Regs /\ s \in Regs /\ reg \in [Regs -> Word] /\ reg[d] \in Word /\ reg[s] \in Word
      /\ hexmode \in Radices /\ E(f) \in Positions /\ S(f) \in 0 .. E(f)
  BY Operands
<1>2. \A k \in S(f) .. E(f) : k \in Positions
  BY <1>1 DEF Positions
<1>3. DigitsOn(reg[d], S(f), E(f), hexmode) /\ DigitsOn(reg[s], S(f), E(f), hexmode)
  BY <1>2 DEF DigitsOn, Tens
<1>4. ASSUME Computing(op, d, s, f) PROVE \A k \in S(f) .. E(f) : reg'[d][k] < 10
  <2>1. ASSUME NEW r, Computed(d, r), DigitsOn(r.value, S(f), E(f), hexmode)
        PROVE  \A k \in S(f) .. E(f) : reg'[d][k] < 10
    <3>1. reg'[d] = r.value
      BY <1>1, <2>1 DEF Computed
    <3> QED BY <2>1, <3>1 DEF DigitsOn
  <2>2. CASE op = "add"
    <3>1. Computed(d, add_register(reg[d], reg[d], reg[s], S(f), E(f), hexmode))
      BY <1>4, <2>2 DEF Computing
    <3>2. DigitsOn(add_register(reg[d], reg[d], reg[s], S(f), E(f), hexmode).value,
                   S(f), E(f), hexmode)
      BY <1>1, <1>3, AddIsExact
    <3> QED BY <2>1, <3>1, <3>2
  <2>3. CASE op = "sub"
    <3>1. Computed(d, sub_register(reg[d], reg[d], reg[s], S(f), E(f), hexmode))
      BY <1>4, <2>3 DEF Computing
    <3>2. DigitsOn(sub_register(reg[d], reg[d], reg[s], S(f), E(f), hexmode).value,
                   S(f), E(f), hexmode)
      BY <1>1, <1>3, SubIsExact
    <3> QED BY <2>1, <3>1, <3>2
  <2>4. CASE op = "subfrom"
    <3>1. Computed(d, sub_register(reg[d], reg[s], reg[d], S(f), E(f), hexmode))
      BY <1>4, <2>4 DEF Computing
    <3>2. DigitsOn(sub_register(reg[d], reg[s], reg[d], S(f), E(f), hexmode).value,
                   S(f), E(f), hexmode)
      BY <1>1, <1>3, SubIsExact
    <3> QED BY <2>1, <3>1, <3>2
  <2>5. CASE op = "inc"
    <3>1. Computed(d, inc_register(reg[d], S(f), E(f), hexmode))
      BY <1>4, <2>5 DEF Computing
    <3>2. DigitsOn(inc_register(reg[d], S(f), E(f), hexmode).value,
                   S(f), E(f), hexmode)
      BY <1>1, <1>3, IncIsExact
    <3> QED BY <2>1, <3>1, <3>2
  <2>6. CASE op = "dec"
    <3>1. Computed(d, dec_register(reg[d], S(f), E(f), hexmode))
      BY <1>4, <2>6 DEF Computing
    <3>2. DigitsOn(dec_register(reg[d], S(f), E(f), hexmode).value,
                   S(f), E(f), hexmode)
      BY <1>1, <1>3, DecIsExact
    <3> QED BY <2>1, <3>1, <3>2
  <2>7. CASE op = "neg"
    <3>1. Computed(d, complement_2_register(reg[d], S(f), E(f), hexmode))
      BY <1>4, <2>7 DEF Computing
    <3>2. DigitsOn(complement_2_register(reg[d], S(f), E(f), hexmode).value,
                   S(f), E(f), hexmode)
      BY <1>1, <1>3, NegIsExact
    <3> QED BY <2>1, <3>1, <3>2
  <2>8. CASE op = "not"
    <3>1. Computed(d, complement_1_register(reg[d], S(f), E(f), hexmode))
      BY <1>4, <2>8 DEF Computing
    <3>2. DigitsOn(complement_1_register(reg[d], S(f), E(f), hexmode).value,
                   S(f), E(f), hexmode)
      BY <1>1, <1>3, NotIsExact
    <3> QED BY <2>1, <3>1, <3>2
  <2> QED
    BY <1>4, <2>2, <2>3, <2>4, <2>5, <2>6, <2>7, <2>8 DEF Computing, Hexadecimal
<1>5. ASSUME Moving(op, d, s, f) PROVE \A k \in S(f) .. E(f) : reg'[d][k] < 10
  <2>1. ASSUME NEW x, Moved(d, x),
               \A k \in S(f) .. E(f) : \/ x[k] = 0
                                       \/ \E i \in Positions : x[k] = reg[d][i] \/ x[k] = reg[s][i]
        PROVE  \A k \in S(f) .. E(f) : reg'[d][k] < 10
    <3>1. reg'[d] = x
      BY <1>1, <2>1 DEF Moved
    <3> QED BY <2>1, <3>1 DEF Tens
  <2>2. /\ \A k \in S(f) + 1 .. E(f) : k - 1 \in Positions
        /\ \A k \in S(f) .. E(f) - 1 : k + 1 \in Positions
    BY <1>1 DEF Positions
  <2>3. CASE op = "zero"
    <3>1. Moved(d, zero_register(reg[d], S(f), E(f)))
      BY <1>5, <2>3 DEF Moving
    <3> QED BY <1>2, <2>1, <3>1 DEF zero_register
  <2>4. CASE op = "copy"
    <3>1. Moved(d, copy_register(reg[d], reg[s], S(f), E(f)))
      BY <1>5, <2>4 DEF Moving
    <3> QED BY <1>2, <2>1, <3>1 DEF copy_register
  <2>5. CASE op = "sl"
    <3>1. Moved(d, shift_left_register(reg[d], S(f), E(f)))
      BY <1>5, <2>5 DEF Moving
    <3> QED BY <1>2, <2>1, <2>2, <3>1 DEF shift_left_register
  <2>6. CASE op = "sr"
    <3>1. Moved(d, shift_right_register(reg[d], S(f), E(f)))
      BY <1>5, <2>6 DEF Moving
    <3> QED BY <1>2, <2>1, <2>2, <3>1 DEF shift_right_register
  <2>7. CASE op \in {"slc", "src"}
    <3>1. S(f) = 0 /\ E(f) = 15
      BY <1>5, <2>7, WholeFields DEF Moving
    <3>2. 0 \in Positions /\ 15 \in Positions
      BY DEF Positions
    <3>3. CASE op = "slc"
      <4>1. Moved(d, shift_left_circ_register(reg[d], S(f), E(f)))
        BY <1>5, <3>1, <3>3 DEF Moving
      <4> QED BY <1>2, <2>1, <2>2, <3>1, <3>2, <4>1 DEF shift_left_circ_register
    <3>4. CASE op = "src"
      <4>1. Moved(d, shift_right_circ_register(reg[d], S(f), E(f)))
        BY <1>5, <3>1, <3>4 DEF Moving
      <4> QED BY <1>2, <2>1, <2>2, <3>1, <3>2, <4>1 DEF shift_right_circ_register
    <3> QED BY <2>7, <3>3, <3>4
  <2> QED
    BY <1>5, <2>3, <2>4, <2>5, <2>6, <2>7 DEF Moving, Hexadecimal
<1>6. ASSUME Exchanging(op, d, s, f)
      PROVE  \A k \in S(f) .. E(f) : reg'[d][k] < 10 /\ reg'[s][k] < 10
  <2>1. ASSUME NEW k \in S(f) .. E(f), NEW r \in {d, s}
        PROVE  reg'[r][k] = reg[d][k] \/ reg'[r][k] = reg[s][k]
    BY <1>1, <1>2, <1>6 DEF Exchanging, copy_register
  <2> QED BY <1>2, <2>1 DEF Tens
<1>7. ASSUME Testing(op, d, s, f) PROVE \A k \in S(f) .. E(f) : reg'[d][k] < 10
  <2>1. reg' = reg
    BY <1>7 DEF Testing, Tested
  <2> QED BY <1>2, <2>1 DEF Tens
<1>8. op = "ex" => Exchanging(op, d, s, f)
  BY DEF Does, Computing, Moving, Testing
<1> QED BY <1>4, <1>5, <1>6, <1>7, <1>8 DEF Does

LEMMA DecimalSteps ==
  ASSUME RegisterTypes, Next, ~UNCHANGED vars
  PROVE  DecimalStep
<1>1. CASE Elsewhere
  BY <1>1, NotOnAField DEF DecimalStep
<1>2. CASE OnAField
  <2>1. PICK op, d, s, f : Does(op, d, s, f)
    BY <1>2, Effects
  <2>2. last'.op = op /\ last'.d = d /\ last'.s = s /\ d \in Regs /\ s \in Regs
    BY <2>1, Operands
  <2>3. Touches(op, d, s, f)
    BY <2>1, DoesTouch
  <2>4. \A w : Digits(w, W_FIELD, DEC) <=> Tens(w)
    BY WholeFields DEF Digits, Tens, DEC
  <2>5. ASSUME hexmode = 10, op \notin Hexadecimal, Tens(reg[d]), Tens(reg[s])
        PROVE  Tens(reg'[d]) /\ Tens(reg'[s])
    <3>1. /\ \A k \in S(f) .. E(f) : reg'[d][k] < 10
          /\ op = "ex" => \A k \in S(f) .. E(f) : reg'[s][k] < 10
      BY <2>1, <2>5, DigitsLeft
    <3>2. \A k \in Positions : reg'[d][k] < 10 /\ reg'[s][k] < 10
      BY <2>2, <2>3, <2>5, <3>1 DEF Touches, Tens
    <3> QED BY <3>2 DEF Tens
  <2> QED BY <2>2, <2>4, <2>5 DEF DecimalStep, Hexadecimal, DEC
<1> QED BY <1>1, <1>2, NothingElse

(* What a test decides.                                                    *)
LEMMA Decisions ==
  ASSUME RegisterTypes, NEW op, NEW d, NEW s, NEW f, Does(op, d, s, f)
  PROVE  LET x == Value(reg[d], f, 16)
             y == Value(reg[s], f, 16)
             Decides(o, holds) == op = o => CARRY' = (IF holds THEN 1 ELSE 0)
         IN /\ Decides("=0", x = 0) /\ Decides("#0", x # 0)
            /\ Decides("=", x = y)  /\ Decides("#", x # y)
            /\ Decides("<", x < y)  /\ Decides("<=", x <= y)
            /\ Decides(">", x > y)  /\ Decides(">=", x >= y)
<1> DEFINE x == Value(reg[d], f, 16)
           y == Value(reg[s], f, 16)
<1>1. reg[d] \in Word /\ reg[s] \in Word /\ E(f) \in Positions /\ S(f) \in 0 .. E(f)
  BY Operands
<1>2. x = Number(reg[d], S(f), E(f), 16) /\ y = Number(reg[s], S(f), E(f), 16)
  BY DEF Value
<1> HIDE DEF x, y
<1>3. /\ is_zero_register(reg[d], S(f), E(f)) <=> x = 0
      /\ is_equal_register(reg[d], reg[s], S(f), E(f)) <=> x = y
      /\ is_less_register(reg[d], reg[s], S(f), E(f)) <=> x < y
      /\ is_less_or_equal_register(reg[d], reg[s], S(f), E(f)) <=> x <= y
      /\ is_greater_register(reg[d], reg[s], S(f), E(f)) <=> x > y
      /\ is_greater_or_equal_register(reg[d], reg[s], S(f), E(f)) <=> x >= y
  BY <1>1, <1>2, TestsAreExact
<1>4. ASSUME op \in {"=0", "#0", "=", "#", "<", "<=", ">", ">="} PROVE Testing(op, d, s, f)
  BY <1>4 DEF Does, Computing, Moving, Exchanging
<1>5. ASSUME op = "=0" PROVE CARRY' = IF x = 0 THEN 1 ELSE 0
  BY <1>3, <1>4, <1>5 DEF Testing, Tested
<1>6. ASSUME op = "#0" PROVE CARRY' = IF x # 0 THEN 1 ELSE 0
  BY <1>3, <1>4, <1>6 DEF Testing, Tested
<1>7. ASSUME op = "=" PROVE CARRY' = IF x = y THEN 1 ELSE 0
  BY <1>3, <1>4, <1>7 DEF Testing, Tested
<1>8. ASSUME op = "#" PROVE CARRY' = IF x # y THEN 1 ELSE 0
  BY <1>3, <1>4, <1>8 DEF Testing, Tested
<1>9. ASSUME op = "<" PROVE CARRY' = IF x < y THEN 1 ELSE 0
  BY <1>3, <1>4, <1>9 DEF Testing, Tested
<1>10. ASSUME op = "<=" PROVE CARRY' = IF x <= y THEN 1 ELSE 0
  BY <1>3, <1>4, <1>10 DEF Testing, Tested
<1>11. ASSUME op = ">" PROVE CARRY' = IF x > y THEN 1 ELSE 0
  BY <1>3, <1>4, <1>11 DEF Testing, Tested
<1>12. ASSUME op = ">=" PROVE CARRY' = IF x >= y THEN 1 ELSE 0
  BY <1>3, <1>4, <1>12 DEF Testing, Tested
<1> QED BY <1>5, <1>6, <1>7, <1>8, <1>9, <1>10, <1>11, <1>12 DEF x, y

LEMMA TestSteps ==
  ASSUME RegisterTypes, Next, ~UNCHANGED vars
  PROVE  TestStep
<1>1. CASE Elsewhere
  BY <1>1, NotOnAField DEF TestStep
<1>2. CASE OnAField
  <2>1. PICK op, d, s, f : Does(op, d, s, f)
    BY <1>2, Effects
  <2>2. last'.op = op /\ last'.d = d /\ last'.s = s /\ last'.f = f
    BY <2>1 DEF Does, Instr
  <2>3. LET x == Value(reg[d], f, 16)
            y == Value(reg[s], f, 16)
            Decides(o, holds) == op = o => CARRY' = (IF holds THEN 1 ELSE 0)
        IN /\ Decides("=0", x = 0) /\ Decides("#0", x # 0)
           /\ Decides("=", x = y)  /\ Decides("#", x # y)
           /\ Decides("<", x < y)  /\ Decides("<=", x <= y)
           /\ Decides(">", x > y)  /\ Decides(">=", x >= y)
    BY <2>1, Decisions
  <2> QED BY Zenon, <2>2, <2>3 DEF TestStep
<1> QED BY <1>1, <1>2, NothingElse

(* What a shift computes.                                                  *)
LEMMA Shifting ==
  ASSUME RegisterTypes, NEW op, NEW d, NEW s, NEW f, Does(op, d, s, f)
  PROVE  LET x == Value(reg[d], f, 16)
             r == Value(reg'[d], f, 16)
             Divides(n) == r = x \div n /\ hst' = hst \cup (IF x % n = 0 THEN {} ELSE {"SB"})
         IN /\ op = "sl"  => r = (16 * x) % Modulus(f, 16)
            /\ op = "sr"  => Divides(16)
            /\ op = "srb" => Divides(2)
            /\ op = "slc" => shift_right_circ_register(reg'[d], 0, 15) = reg[d]
            /\ op = "src" => shift_left_circ_register(reg'[d], 0, 15) = reg[d]
<1> DEFINE x == Value(reg[d], f, 16)
           r == Value(reg'[d], f, 16)
<1>1. /\ d \in Regs /\ reg \in [Regs -> Word] /\ reg[d] \in Word
      /\ E(f) \in Positions /\ S(f) \in 0 .. E(f)
      /\ FieldOf(f, P) = S(f) .. E(f) /\ E(f) + 1 - S(f) = E(f) - S(f) + 1
  BY Operands
<1>2. /\ \A w : Value(w, f, 16) = Number(w, S(f), E(f), 16)
      /\ Modulus(f, 16) = Power(16, E(f) + 1 - S(f))
  BY <1>1, ValueIsNumber
<1>3. ASSUME NEW w, Moved(d, w) PROVE reg'[d] = w
  BY <1>1, <1>3 DEF Moved
<1>4. ASSUME NEW m, NEW n, m = n, Lost(m)
      PROVE  hst' = hst \cup (IF n = 0 THEN {} ELSE {"SB"})
  BY <1>4 DEF Lost
<1>5. ASSUME op \in {"sl", "sr", "srb", "slc", "src"} PROVE Moving(op, d, s, f)
  BY <1>5 DEF Does, Computing, Exchanging, Testing
<1>6. ASSUME op = "sl" PROVE r = (16 * x) % Modulus(f, 16)
  <2>1. Moved(d, shift_left_register(reg[d], S(f), E(f)))
    BY <1>5, <1>6 DEF Moving
  <2>2. reg'[d] = shift_left_register(reg[d], S(f), E(f))
    BY <1>3, <2>1
  <2>3. Number(shift_left_register(reg[d], S(f), E(f)), S(f), E(f), 16)
          = (16 * Number(reg[d], S(f), E(f), 16)) % Power(16, E(f) + 1 - S(f))
    BY <1>1, ShiftLeftMultiplies
  <2> QED BY Zenon, <1>2, <2>2, <2>3
<1>7. ASSUME op = "sr"
      PROVE  r = x \div 16 /\ hst' = hst \cup (IF x % 16 = 0 THEN {} ELSE {"SB"})
  <2>1. Moved(d, shift_right_register(reg[d], S(f), E(f))) /\ Lost(reg[d][S(f)])
    BY <1>5, <1>7 DEF Moving
  <2>2. reg'[d] = shift_right_register(reg[d], S(f), E(f))
    BY <1>3, <2>1
  <2>3. /\ Number(shift_right_register(reg[d], S(f), E(f)), S(f), E(f), 16)
             = Number(reg[d], S(f), E(f), 16) \div 16
        /\ reg[d][S(f)] = Number(reg[d], S(f), E(f), 16) % 16
    BY <1>1, ShiftRightDivides
  <2>4. x = Number(reg[d], S(f), E(f), 16)
    BY <1>2
  <2>5. r = Number(shift_right_register(reg[d], S(f), E(f)), S(f), E(f), 16)
    BY Zenon, <1>2, <2>2
  <2> HIDE DEF x, r
  <2>6. r = x \div 16 /\ reg[d][S(f)] = x % 16
    BY <2>3, <2>4, <2>5
  <2> QED BY <1>4, <2>1, <2>6
<1>8. ASSUME op = "srb"
      PROVE  r = x \div 2 /\ hst' = hst \cup (IF x % 2 = 0 THEN {} ELSE {"SB"})
  <2>1. Moved(d, shift_right_bit_register(reg[d], S(f), E(f))) /\ Lost(reg[d][S(f)] % 2)
    BY <1>5, <1>8 DEF Moving
  <2>2. reg'[d] = shift_right_bit_register(reg[d], S(f), E(f))
    BY <1>3, <2>1
  <2>3. /\ Number(shift_right_bit_register(reg[d], S(f), E(f)), S(f), E(f), 16)
             = Number(reg[d], S(f), E(f), 16) \div 2
        /\ reg[d][S(f)] % 2 = Number(reg[d], S(f), E(f), 16) % 2
    BY <1>1, ShiftRightBitHalves
  <2>4. x = Number(reg[d], S(f), E(f), 16)
    BY <1>2
  <2>5. r = Number(shift_right_bit_register(reg[d], S(f), E(f)), S(f), E(f), 16)
    BY Zenon, <1>2, <2>2
  <2> HIDE DEF x, r
  <2>6. r = x \div 2 /\ reg[d][S(f)] % 2 = x % 2
    BY <2>3, <2>4, <2>5
  <2> QED BY <1>4, <2>1, <2>6
<1>9. ASSUME op = "slc" PROVE shift_right_circ_register(reg'[d], 0, 15) = reg[d]
  <2>1. reg'[d] = shift_left_circ_register(reg[d], 0, 15)
    BY <1>3, <1>5, <1>9 DEF Moving
  <2> QED BY <1>1, <2>1, CircularShifts
<1>10. ASSUME op = "src" PROVE shift_left_circ_register(reg'[d], 0, 15) = reg[d]
  <2>1. reg'[d] = shift_right_circ_register(reg[d], 0, 15)
    BY <1>3, <1>5, <1>10 DEF Moving
  <2> QED BY <1>1, <2>1, CircularShifts
<1> HIDE DEF x, r
<1>11. /\ op = "sl"  => r = (16 * x) % Modulus(f, 16)
       /\ op = "sr"  => r = x \div 16 /\ hst' = hst \cup (IF x % 16 = 0 THEN {} ELSE {"SB"})
       /\ op = "srb" => r = x \div 2 /\ hst' = hst \cup (IF x % 2 = 0 THEN {} ELSE {"SB"})
  BY <1>6, <1>7, <1>8
<1> QED BY Zenon, <1>9, <1>10, <1>11 DEF x, r

LEMMA ShiftSteps ==
  ASSUME RegisterTypes, Next, ~UNCHANGED vars
  PROVE  ShiftStep
<1>1. CASE Elsewhere
  BY <1>1, NotOnAField DEF ShiftStep
<1>2. CASE OnAField
  <2>1. PICK op, d, s, f : Does(op, d, s, f)
    BY <1>2, Effects
  <2>2. last'.op = op /\ last'.d = d /\ last'.f = f
    BY <2>1 DEF Does, Instr
  <2>3. LET x == Value(reg[d], f, 16)
            r == Value(reg'[d], f, 16)
            Divides(n) == r = x \div n /\ hst' = hst \cup (IF x % n = 0 THEN {} ELSE {"SB"})
        IN /\ op = "sl"  => r = (16 * x) % Modulus(f, 16)
           /\ op = "sr"  => Divides(16)
           /\ op = "srb" => Divides(2)
           /\ op = "slc" => shift_right_circ_register(reg'[d], 0, 15) = reg[d]
           /\ op = "src" => shift_left_circ_register(reg'[d], 0, 15) = reg[d]
    BY <2>1, Shifting
  <2> QED BY Zenon, <2>2, <2>3 DEF ShiftStep
<1> QED BY <1>1, <1>2, NothingElse

-----------------------------------------------------------------------------
(* get_start and get_end, the pairs of loop bounds and the destinations of *)
(* the opcode tables: whatever the pointer P, the literals and the         *)
(* constants, an instruction changes only the field it names, of the       *)
(* register it names.                                                      *)
THEOREM FieldsHold == Spec => OnlyTheField
<1>1. RegisterTypes /\ [Next]_vars => [FieldStep]_vars
  BY FieldSteps
<1>2. Spec => []RegisterTypes
  BY TypesHold
<1> QED BY <1>1, <1>2, PTL DEF Spec, OnlyTheField

(* add_register and the other operations of register.c that compute: the   *)
(* digits they leave and CARRY are the sum, difference or complement of    *)
(* the numbers in the field, for fields of every length and for every      *)
(* content, in both modes.                                                 *)
THEOREM ArithmeticHolds == Spec => ArithmeticIsExact
<1>1. RegisterTypes /\ [Next]_vars => [ArithmeticStep]_vars
  BY ArithmeticSteps
<1>2. Spec => []RegisterTypes
  BY TypesHold
<1> QED BY <1>1, <1>2, PTL DEF Spec, ArithmeticIsExact

(* sub_register undoes add_register, on every field and for all digits of  *)
(* the mode: it borrows exactly at the positions where the sum carried.    *)
THEOREM AdditionHolds == Spec => SubtractionUndoesAddition
<1>1. RegisterTypes /\ [Next]_vars => [AdditionStep]_vars
  BY AdditionSteps
<1>2. Spec => []RegisterTypes
  BY TypesHold
<1> QED BY <1>1, <1>2, PTL DEF Spec, SubtractionUndoesAddition

(* In decimal mode no operation of register.c but the logical ones, SRB,   *)
(* the constants and the loads leaves a digit above nine.                  *)
THEOREM DecimalHolds == Spec => DecimalStaysDecimal
<1>1. RegisterTypes /\ [Next]_vars => [DecimalStep]_vars
  BY DecimalSteps
<1>2. Spec => []RegisterTypes
  BY TypesHold
<1> QED BY <1>1, <1>2, PTL DEF Spec, DecimalStaysDecimal

(* The is_..._register functions compare numbers: CARRY tells what the     *)
(* comparison of the two fields, of every length, says.                    *)
THEOREM TestsHold == Spec => TestsCompareNumbers
<1>1. RegisterTypes /\ [Next]_vars => [TestStep]_vars
  BY TestSteps
<1>2. Spec => []RegisterTypes
  BY TypesHold
<1> QED BY <1>1, <1>2, PTL DEF Spec, TestsCompareNumbers

(* The shift functions multiply and divide the number in a field of every  *)
(* length, SB records a remainder, and the circular shifts undo each       *)
(* other.                                                                  *)
THEOREM ShiftsHold == Spec => ShiftsMultiplyAndDivide
<1>1. RegisterTypes /\ [Next]_vars => [ShiftStep]_vars
  BY ShiftSteps
<1>2. Spec => []RegisterTypes
  BY TypesHold
<1> QED BY <1>1, <1>2, PTL DEF Spec, ShiftsMultiplyAndDivide

-----------------------------------------------------------------------------
(* The readers of the code.                                                *)
Codes == [0 .. CodeSize + 1 -> Nibble]

(* What either reader looks at to find out what an instruction is.         *)
LEMMA Digit ==
  ASSUME NEW c \in Codes
  PROVE  \A i \in 0 .. 6 : c[i] \in 0 .. 15
BY DEF Codes, CodeSize, Nibble

(* The numbers of the tables are different ones.                           *)
LEMMA Numerals ==
  /\ 0 # 1 /\ 0 # 2 /\ 0 # 3 /\ 0 # 4 /\ 0 # 5 /\ 0 # 6 /\ 0 # 7 /\ 0 # 8 /\ 0 # 9 /\ 0 # 10 /\ 0 # 11 /\ 0 # 12 /\ 0 # 13 /\ 0 # 14 /\ 0 # 15
  /\ 1 # 2 /\ 1 # 3 /\ 1 # 4 /\ 1 # 5 /\ 1 # 6 /\ 1 # 7 /\ 1 # 8 /\ 1 # 9 /\ 1 # 10 /\ 1 # 11 /\ 1 # 12 /\ 1 # 13 /\ 1 # 14 /\ 1 # 15
  /\ 2 # 3 /\ 2 # 4 /\ 2 # 5 /\ 2 # 6 /\ 2 # 7 /\ 2 # 8 /\ 2 # 9 /\ 2 # 10 /\ 2 # 11 /\ 2 # 12 /\ 2 # 13 /\ 2 # 14 /\ 2 # 15
  /\ 3 # 4 /\ 3 # 5 /\ 3 # 6 /\ 3 # 7 /\ 3 # 8 /\ 3 # 9 /\ 3 # 10 /\ 3 # 11 /\ 3 # 12 /\ 3 # 13 /\ 3 # 14 /\ 3 # 15
  /\ 4 # 5 /\ 4 # 6 /\ 4 # 7 /\ 4 # 8 /\ 4 # 9 /\ 4 # 10 /\ 4 # 11 /\ 4 # 12 /\ 4 # 13 /\ 4 # 14 /\ 4 # 15
  /\ 5 # 6 /\ 5 # 7 /\ 5 # 8 /\ 5 # 9 /\ 5 # 10 /\ 5 # 11 /\ 5 # 12 /\ 5 # 13 /\ 5 # 14 /\ 5 # 15
  /\ 6 # 7 /\ 6 # 8 /\ 6 # 9 /\ 6 # 10 /\ 6 # 11 /\ 6 # 12 /\ 6 # 13 /\ 6 # 14 /\ 6 # 15
  /\ 7 # 8 /\ 7 # 9 /\ 7 # 10 /\ 7 # 11 /\ 7 # 12 /\ 7 # 13 /\ 7 # 14 /\ 7 # 15
  /\ 8 # 9 /\ 8 # 10 /\ 8 # 11 /\ 8 # 12 /\ 8 # 13 /\ 8 # 14 /\ 8 # 15
  /\ 9 # 10 /\ 9 # 11 /\ 9 # 12 /\ 9 # 13 /\ 9 # 14 /\ 9 # 15
  /\ 10 # 11 /\ 10 # 12 /\ 10 # 13 /\ 10 # 14 /\ 10 # 15
  /\ 11 # 12 /\ 11 # 13 /\ 11 # 14 /\ 11 # 15
  /\ 12 # 13 /\ 12 # 14 /\ 12 # 15
  /\ 13 # 14 /\ 13 # 15
  /\ 14 # 15
BY SMT

(* The alternatives of step_instruction and of disassemble.                *)
LEMMA Executes ==
  ASSUME NEW p, NEW c \in Codes
  PROVE  LET e == step_instruction(p, c)
         IN /\ c[0] = 0 => e = Group0(c)
            /\ c[0] = 1 => e = Group1(c)
            /\ c[0] = 2 => e = At(2, With("P=", None, c[1]))
            /\ c[0] = 3 => e = ConstantLoad("C", 2, c[1])
            /\ c[0] \in {4, 5} => e = CarryJump(p, c)
            /\ c[0] = 6 => e = Goto(p, c)
            /\ c[0] = 7 => e = Jump(4, Plain("GOSUB"), Relative(p, 4, c, 1, 3))
            /\ c[0] = 8 => e = Group8(p, c)
            /\ c[0] = 9 => e = Jump(5, Test(c[1] >= 8, c[2], c[1] % 8), Branch(p, c, 3))
            /\ c[0] = 10 => e = At(3, AddOrMove(c[1] >= 8, c[2], c[1] % 8))
            /\ c[0] = 11 => e = At(3, SubOrShift(c[1] >= 8, c[2], c[1] % 8))
            /\ c[0] \in {12, 13} => e = At(2, AddOrMove(c[0] = 13, c[1], A_FIELD))
            /\ c[0] \in {14, 15} => e = At(2, SubOrShift(c[0] = 15, c[1], A_FIELD))
BY Zenon, Numerals DEF step_instruction

LEMMA Lists ==
  ASSUME NEW m, NEW p, NEW c \in Codes
  PROVE  LET l == disassemble(m, p, c)
         IN /\ c[0] = 0 => l = disasm_0(m, c)
            /\ c[0] = 1 => l = disasm_1(c)
            /\ c[0] = 2 => l = Line(2, With("P=", None, c[1]))
            /\ c[0] = 3 => l = Line(2 + c[1] + 1, With("load", "C", c[1] + 1))
            /\ c[0] \in {4, 5} => l = disasm_carry(p, c)
            /\ c[0] = 6 => l = disasm_goto(p, c)
            /\ c[0] = 7 => l = disasm_gosub(p, c)
            /\ c[0] = 8 /\ c[1] \notin {10, 11} => l = disasm_8(m, p, c)
            /\ c[0] = 8 /\ c[1] \in {10, 11} => l = disasm_9(p, c)
            /\ c[0] = 9 => l = disasm_9(p, c)
            /\ c[0] \in 10 .. 15 => l = disasm_af(m, c)
<1>1. c[0] \in 10 .. 15 =>
        /\ c[0] \in {10, 11, 12, 13, 14, 15}
        /\ c[0] >= 10
  OBVIOUS
<1>2. c[0] \in {0, 1, 2, 3, 4, 5, 6, 7, 8, 9} => ~(c[0] >= 10)
  OBVIOUS
<1> QED BY Zenon, <1>1, <1>2, Numerals DEF disassemble

-----------------------------------------------------------------------------
(* The second nibble of the groups 1 and 8.                                *)
LEMMA Executes1 ==
  ASSUME NEW c \in Codes
  PROVE  LET e == Group1(c)
         IN /\ c[1] \in 0 .. 2 => e = At(3, ScratchMove(c[1], c[2], W_FIELD))
            /\ c[1] = 3 => e = At(3, PointerMove(c[2]))
            /\ c[1] = 4 => e = At(3, MemoryMove(c[2] % 8, Span(IF c[2] < 8 THEN A_FIELD ELSE 6), 0))
            /\ c[1] = 5 => e = At(4, IF c[2] < 8 THEN MemoryMove(c[2], Span(c[3]), 0)
                                     ELSE MemoryMove(c[2] % 8, <<>>, c[3] + 1))
            /\ c[1] \in {6, 7, 8, 12} => e = PointerStep(c)
            /\ c[1] \in {9, 10, 11, 13, 14, 15} => e = PointerLoad(c)
<1>1. c[1] < 3 <=> c[1] \in {0, 1, 2}
  BY Digit
<1>2. 0 .. 2 = {0, 1, 2}
  OBVIOUS
<1> QED BY Zenon, <1>1, <1>2, Numerals DEF Group1

LEMMA Lists1 ==
  ASSUME NEW c \in Codes
  PROVE  LET l == disasm_1(c)
         IN /\ c[1] \in 0 .. 2 => l = Line(3, disasm_scratch(c[1], c[2]))
            /\ c[1] = 3 => l = Line(3, disasm_pointer(c[2]))
            /\ c[1] = 4 => l = Line(3, disasm_memory(c[2], Meaning[IF c[2] < 8 THEN "A" ELSE "B"], 0))
            /\ c[1] = 5 => l = Line(4, IF c[2] < 8 THEN disasm_memory(c[2], append_field(c[3]), 0)
                                       ELSE disasm_memory(c[2], <<>>, c[3] + 1))
            /\ c[1] \in {6, 7, 8, 12} => l = disasm_step(c)
            /\ c[1] \in {9, 10, 11, 13, 14, 15} => l = disasm_load(c)
<1>1. 0 .. 2 = {0, 1, 2}
  OBVIOUS
<1> QED BY Zenon, <1>1, Numerals DEF disasm_1

LEMMA Executes8 ==
  ASSUME NEW p, NEW c \in Codes
  PROVE  LET e == Group8(p, c)
         IN /\ c[1] = 0 => e = Group80(p, c)
            /\ c[1] = 1 => e = Group81(c)
            /\ c[1] = 2 => e = At(3, With("HST=0", None, c[2]))
            /\ c[1] = 4 => e = At(3, With("ST=0", None, c[2]))
            /\ c[1] = 5 => e = At(3, With("ST=1", None, c[2]))
            /\ c[1] \in {3, 6, 7, 8, 9} =>
                 e = Jump(5, With(FlagTests[c[1]], None, c[2]), Branch(p, c, 3))
            /\ c[1] \in {10, 11} => e = Jump(5, Test(c[1] = 11, c[2], A_FIELD), Branch(p, c, 3))
            /\ c[1] \in 12 .. 15 => e = LongJumps(p, c)
<1>1. DOMAIN FlagTests = {3, 6, 7, 8, 9}
  BY DEF FlagTests
<1>2. c[1] >= 12 <=> c[1] \in {12, 13, 14, 15}
  BY Digit
<1>3. 12 .. 15 = {12, 13, 14, 15}
  OBVIOUS
<1> DEFINE e == Group8(p, c)
<1>4. /\ c[1] = 0 => e = Group80(p, c)
      /\ c[1] = 1 => e = Group81(c)
      /\ c[1] = 2 => e = At(3, With("HST=0", None, c[2]))
      /\ c[1] = 4 => e = At(3, With("ST=0", None, c[2]))
      /\ c[1] = 5 => e = At(3, With("ST=1", None, c[2]))
  BY Zenon, <1>1, <1>2, Numerals DEF Group8
<1>5. /\ c[1] \in {3, 6, 7, 8, 9} =>
           e = Jump(5, With(FlagTests[c[1]], None, c[2]), Branch(p, c, 3))
      /\ c[1] \in {10, 11} => e = Jump(5, Test(c[1] = 11, c[2], A_FIELD), Branch(p, c, 3))
  BY Zenon, <1>1, <1>2, Numerals DEF Group8
<1>6. c[1] \in 12 .. 15 => e = LongJumps(p, c)
  BY Zenon, <1>1, <1>2, <1>3, Numerals DEF Group8
<1> HIDE DEF e
<1> QED BY Zenon, <1>4, <1>5, <1>6 DEF e

LEMMA Lists8 ==
  ASSUME NEW m, NEW p, NEW c \in Codes
  PROVE  LET l == disasm_8(m, p, c)
         IN /\ c[1] = 0 => l = disasm_80(m, p, c)
            /\ c[1] = 1 => l = disasm_81(c)
            /\ c[1] = 2 => l = Line(3, With("HST=0", None, c[2]))
            /\ c[1] \in {4, 5} => l = Line(3, With(IF c[1] = 4 THEN "ST=0" ELSE "ST=1", None, c[2]))
            /\ c[1] \in {3, 6, 7, 8, 9} => l = disasm_test(p, c)
            /\ c[1] \in 12 .. 15 => l = disasm_jump(p, c)
<1>1. 12 .. 15 = {12, 13, 14, 15}
  OBVIOUS
<1> QED BY Zenon, <1>1, Numerals DEF disasm_8

-----------------------------------------------------------------------------
(* The tables of the two readers are different ones and say the same:      *)
(* field_tbl names the fields that start_fields and end_fields delimit.    *)
LEMMA FieldNamed ==
  ASSUME NEW n \in 0 .. 15
  PROVE  append_field(n) = Span(n)
<1> DEFINE Entry(k) == Meaning[field_tbl[k + 1]] = <<start_fields[k + 1], end_fields[k + 1]>>
<1>1. Entry(0) /\ Entry(1) /\ Entry(2) /\ Entry(3)
  BY DEF Meaning, field_tbl, start_fields, end_fields
<1>2. Entry(4) /\ Entry(5) /\ Entry(6) /\ Entry(7)
  BY DEF Meaning, field_tbl, start_fields, end_fields
<1>3. Entry(8) /\ Entry(9) /\ Entry(10) /\ Entry(11)
  BY DEF Meaning, field_tbl, start_fields, end_fields
<1>4. Entry(12) /\ Entry(13) /\ Entry(14) /\ Entry(15)
  BY DEF Meaning, field_tbl, start_fields, end_fields
<1>5. n \in {0, 1, 2, 3, 4, 5, 6, 7, 8, 9, 10, 11, 12, 13, 14, 15}
  OBVIOUS
<1> QED BY Zenon, <1>1, <1>2, <1>3, <1>4, <1>5 DEF append_field, Span

(* The pairs of registers of a logical instruction.                        *)
LEMMA LogicNamed ==
  ASSUME NEW n \in 0 .. 15
  PROVE  LET k  == (n % 4) + 1
             hp == op_str_0_HP[(n % 8) + 1]
             cl == op_str_0_CLASS[(n % 8) + 1]
         IN IF n % 8 < 4
            THEN /\ hp[1] = First[k] /\ hp[2] = First[k] /\ hp[3] = Other[k]
                 /\ cl[2] = First[k] /\ cl[1] = Other[k]
            ELSE /\ hp[1] = Other[k] /\ hp[2] = Other[k] /\ hp[3] = First[k]
                 /\ cl[2] = Other[k] /\ cl[1] = First[k]
BY DEF op_str_0_HP, op_str_0_CLASS, First, Other

(* An instruction as executed, e, and as listed, l, that are the same.     *)
Same(e, l) == e.len = l.next /\ e.ins = l.ins /\ e.to = l.to

LEMMA Same0 ==
  ASSUME NEW m \in Modes, NEW c \in Codes
  PROVE  Same(Group0(c), disasm_0(m, c))
<1> DEFINE k == (c[3] % 4) + 1
           hp == op_str_0_HP[(c[3] % 8) + 1]
           cl == op_str_0_CLASS[(c[3] % 8) + 1]
           f  == append_field(c[2])
           op == IF c[3] < 8 THEN "&" ELSE "!"
<1>1. CASE c[1] # 14
  BY Zenon, <1>1 DEF Group0, disasm_0, Same, At, Line, JumpLine, Target, Opcode0, opcode_0_tbl
<1>2. CASE c[1] = 14
  <2>a. c[3] \in 0 .. 15 /\ f = Span(c[2])
    BY Digit, FieldNamed
  <2>1. disasm_0(m, c).ins = Ins(op, hp[1], hp[2], hp[3], f, 0)
    <3>1. CASE m = "HP"
      BY <1>2, <3>1 DEF disasm_0, Line, JumpLine, Target
    <3>2. CASE m = "CLASS"
      <4>1. disasm_0(m, c).ins = ClassIns(IF c[3] < 8 THEN "and" ELSE "or", cl[1], cl[2], f)
        BY <1>2, <3>2 DEF disasm_0, Line, JumpLine, Target
      <4>2. ClassIns("and", cl[1], cl[2], f) = Ins("&", cl[2], cl[2], cl[1], f, 0)
        BY DEF ClassIns
      <4>3. ClassIns("or", cl[1], cl[2], f) = Ins("!", cl[2], cl[2], cl[1], f, 0)
        BY DEF ClassIns
      <4>4. cl[2] = hp[1] /\ cl[2] = hp[2] /\ cl[1] = hp[3]
        BY <2>a, LogicNamed
      <4> QED BY <4>1, <4>2, <4>3, <4>4
    <3> QED BY <3>1, <3>2 DEF Modes
  <2>2. Group0(c).ins = Ins(op, hp[1], hp[2], hp[3], f, 0)
    <3>1. Group0(c).ins = IF c[3] % 8 < 4 THEN On(op, First[k], First[k], Other[k], c[2])
                          ELSE On(op, Other[k], Other[k], First[k], c[2])
      BY <1>2 DEF Group0, At
    <3> QED BY <2>a, <3>1, LogicNamed DEF On
  <2>3. disasm_0(m, c).next = 4 /\ Group0(c).len = 4 /\ disasm_0(m, c).to = NoJump /\ Group0(c).to = NoJump
    BY <1>2 DEF Group0, disasm_0, At, Line, JumpLine, Target
  <2> QED BY <2>1, <2>2, <2>3 DEF Same
<1> QED BY <1>1, <1>2

LEMMA Ops0 ==
  ASSUME NEW c \in Codes
  PROVE  Group0(c).ins.op \notin {"NOP5", "TRAP", "neg", "C=P", "P=C", "RSI", "crash"}
<1>1. CASE c[1] # 14
  <2>1. Group0(c).ins.op = Opcode0[c[1] + 1]
    BY <1>1 DEF Group0, At, Plain, Ins
  <2>2. None \notin {"NOP5", "TRAP", "neg", "C=P", "P=C", "RSI", "crash"}
    BY Zenon DEF None
  <2> QED BY <2>1, <2>2, Digit DEF Opcode0
<1>2. CASE c[1] = 14
  BY <1>2 DEF Group0, At, On, Ins
<1> QED BY <1>1, <1>2

(* A displacement of n nibbles is read as a signed number by both, and     *)
(* nothing else.                                                           *)
LEMMA ReadIsNat ==
  ASSUME NEW c \in Codes, NEW i \in 0 .. 6, NEW n \in 0 .. 5, i + n <= 7
  PROVE  Read(c, i, n) \in Nat
<1> DEFINE digit(k) == IF k < n THEN c[i + k] * 16^k ELSE 0
<1>1. ASSUME NEW k \in {0, 1, 2, 3, 4} PROVE digit(k) \in Nat
  <2>1. CASE k < n
    <3>1. c[i + k] \in Nat
      BY <2>1 DEF Codes, CodeSize, Nibble
    <3>2. 16^k \in Nat
      <4>1. 16^0 \in Nat /\ 16^1 \in Nat /\ 16^2 \in Nat /\ 16^3 \in Nat /\ 16^4 \in Nat
        OBVIOUS
      <4> QED BY Zenon, <4>1
    <3>3. \A a, b \in Nat : a * b \in Nat
      OBVIOUS
    <3> QED BY <2>1, <3>1, <3>2, <3>3
  <2>2. CASE ~(k < n)
    BY <2>2
  <2> QED BY <2>1, <2>2
<1>2. digit(0) \in Nat /\ digit(1) \in Nat /\ digit(2) \in Nat /\ digit(3) \in Nat /\ digit(4) \in Nat
  BY <1>1
<1>3. Read(c, i, n) = digit(0) + digit(1) + digit(2) + digit(3) + digit(4)
  BY DEF Read
<1> HIDE DEF digit
<1> QED BY <1>2, <1>3

(* Both extend the sign of a displacement.                                 *)
LEMMA SameDisplacement ==
  ASSUME NEW v \in Nat, NEW b \in Int, NEW n \in {2, 3, 4}, NEW o
  PROVE  append_r_addr(b, v, n, o).to = (b + Signed(v, n)) % AddressSpace
<1>1. 2^(4 * n - 1) \in Int /\ 2^(4 * n) \in Int
  OBVIOUS
<1>2. v >= 2^(4 * n - 1) <=> ~(v < 2^(4 * n - 1))
  BY <1>1
<1> QED BY <1>2 DEF append_r_addr, Signed, Target

LEMMA SameBranch ==
  ASSUME NEW p \in Int, NEW c \in Codes, NEW i \in {1, 3, 5}, NEW o
  PROVE  Branch(p, c, i) = GoYes(p + i, Read(c, i, 2), o).to
<1>1. Read(c, i, 2) \in Nat
  BY ReadIsNat
<1>2. append_r_addr(p + i, Read(c, i, 2), 2, o).to = Relative(p, i, c, i, 2)
  BY <1>1, SameDisplacement DEF Relative
<1> QED BY <1>2 DEF Branch, GoYes, Target

(* The same work, written either way round where that makes no difference. *)
SameIns(i, j) == i = j \/ (i.op \in Symmetric /\ i = Turned(j))

(* The same work has the same operation.                                   *)
LEMMA SameOp ==
  ASSUME NEW i, NEW j, SameIns(i, j)
  PROVE  i.op = j.op
BY DEF SameIns, Turned, Ins

(* An instruction is made of its parts.                                    *)
LEMMA Parts ==
  ASSUME NEW op, NEW d, NEW l, NEW r, NEW f, NEW n
  PROVE  LET i == Ins(op, d, l, r, f, n)
         IN i.op = op /\ i.d = d /\ i.l = l /\ i.r = r /\ i.f = f /\ i.n = n
BY DEF Ins

LEMMA Turns ==
  ASSUME NEW op, NEW d, NEW l, NEW r, NEW f, NEW n
  PROVE  Turned(Ins(op, d, l, r, f, n)) = IF d = None THEN Ins(op, d, r, l, f, n)
                                          ELSE Ins(op, l, d, r, f, n)
<1> DEFINE i == Ins(op, d, l, r, f, n)
<1>1. i.op = op /\ i.d = d /\ i.l = l /\ i.r = r /\ i.f = f /\ i.n = n
  BY Parts
<1>2. Turned(i) = IF i.d = None THEN Ins(i.op, i.d, i.r, i.l, i.f, i.n)
                  ELSE Ins(i.op, i.l, i.d, i.r, i.f, i.n)
  BY Zenon DEF Turned
<1> HIDE DEF i
<1>3. Turned(i) = IF d = None THEN Ins(op, d, r, l, f, n) ELSE Ins(op, l, d, r, f, n)
  BY Zenon, <1>1, <1>2
<1> QED BY Zenon, <1>3 DEF i

(* The tables of group 1: a scratch register is named right from A only.   *)
LEMMA ScratchNamed ==
  ASSUME NEW kind \in 0 .. 2, NEW n \in 0 .. 15
  PROVE  LET e == ScratchMove(kind, n, W_FIELD)
             l == disasm_scratch(kind, n)
         IN /\ n < 8 => e = l
            /\ ~(n < 8) => ~SameIns(e, l)
            /\ e.op \in {"=", "EX"} /\ l.op \in {"=", "EX"}
<1> DEFINE w == IF n < 8 THEN "A" ELSE "C"
           s == Scratch5[(n % 8) + 1]
           f == Span(7)
<1>1. /\ <<"R0", "R1", "R2", "R3", "R4">>[(IF n % 8 > 4 THEN (n % 8) - 4 ELSE n % 8) + 1] = s
      /\ s # "A" /\ s # "C" /\ n % 8 < 8
  BY DEF Scratch5
<1>2. append_field(7) = f
  BY FieldNamed
<1>a. kind = 0 \/ kind = 1 \/ kind = 2
  OBVIOUS
<1> HIDE DEF s, f
<1>3. disasm_scratch(kind, n) = CASE kind = 0 -> Ins("=", s, "A", None, f, 0)
                                  [] kind = 1 -> Ins("=", "A", s, None, f, 0)
                                  [] kind = 2 -> Ins("EX", "A", s, None, f, 0)
  BY Zenon, <1>1, <1>2 DEF disasm_scratch
<1>4. ScratchMove(kind, n, W_FIELD) = CASE kind = 0 -> Ins("=", s, w, None, f, 0)
                                        [] kind = 1 -> Ins("=", w, s, None, f, 0)
                                        [] kind = 2 -> Ins("EX", w, s, None, f, 0)
  BY Zenon DEF ScratchMove, On, W_FIELD, s, f
<1>c. s \in {"R0", "R1", "R2", "R3", "R4"} /\ w \in {"A", "C"} /\ (w = "A" <=> n < 8)
  BY DEF s, Scratch5
<1>d. "=" \notin Symmetric /\ "A" # None
  BY Zenon DEF Symmetric, None
<1>5. CASE kind = 0
  <2>1. ScratchMove(kind, n, W_FIELD) = Ins("=", s, w, None, f, 0) /\ disasm_scratch(kind, n) = Ins("=", s, "A", None, f, 0)
    BY Zenon, <1>3, <1>4, <1>5, Numerals
  <2> QED BY <2>1, <1>c, <1>d DEF SameIns, Ins
<1>6. CASE kind = 1
  <2>1. ScratchMove(kind, n, W_FIELD) = Ins("=", w, s, None, f, 0) /\ disasm_scratch(kind, n) = Ins("=", "A", s, None, f, 0)
    BY Zenon, <1>3, <1>4, <1>6, Numerals
  <2> QED BY <2>1, <1>c, <1>d DEF SameIns, Ins
<1>7. CASE kind = 2
  <2>1. ScratchMove(kind, n, W_FIELD) = Ins("EX", w, s, None, f, 0) /\ disasm_scratch(kind, n) = Ins("EX", "A", s, None, f, 0)
    BY Zenon, <1>3, <1>4, <1>7, Numerals
  <2>2. Turned(Ins("EX", "A", s, None, f, 0)) = Ins("EX", s, "A", None, f, 0)
    BY Turns, <1>d
  <2> QED BY <2>1, <2>2, <1>c DEF SameIns, Ins
<1> QED BY Zenon, <1>a, <1>5, <1>6, <1>7

LEMMA PointerNamed ==
  ASSUME NEW n \in 0 .. 15
  PROVE  PointerMove(n) = disasm_pointer(n)
<1>1. Meaning["A"] = <<0, 4>>
  BY DEF Meaning
<1>2. n % 8 >= 4 <=> ~(n % 8 < 4)
  OBVIOUS
<1>3. n % 4 >= 2 <=> ~(n % 4 < 2)
  OBVIOUS
<1>4. n % 2 = 1 <=> n % 2 # 0
  OBVIOUS
<1> QED BY Zenon, <1>1, <1>2, <1>3, <1>4 DEF PointerMove, disasm_pointer

LEMMA MemoryNamed ==
  ASSUME NEW n \in 0 .. 15, NEW f, NEW k
  PROVE  MemoryMove(n % 8, f, k) = disasm_memory(n, f, k)
<1> DEFINE w == IF n % 8 < 4 THEN "A" ELSE "C"
           a == IF (n % 8) % 2 = 0 THEN "DAT0" ELSE "DAT1"
           m == op_str_1[(n % 8) + 1]
<1>1. IF (n % 8) % 4 < 2 THEN m[1] = a /\ m[2] = w ELSE m[1] = w /\ m[2] = a
  BY DEF op_str_1
<1> QED BY Zenon, <1>1 DEF MemoryMove, disasm_memory

LEMMA StepNamed ==
  ASSUME NEW c \in Codes
  PROVE  PointerStep(c).ins = disasm_step(c).ins
<1>1. PointerStep(c).ins = With("+", IF c[1] \in {6, 8} THEN "D0" ELSE "D1", IF c[1] < 8 THEN c[2] + 1 ELSE -(c[2] + 1))
  BY DEF PointerStep, At
<1>2. disasm_step(c).ins = With("+", IF c[1] \in {6, 8} THEN "D0" ELSE "D1", IF c[1] < 8 THEN c[2] + 1 ELSE -(c[2] + 1))
  BY DEF disasm_step, Line, JumpLine, Target
<1> QED BY Zenon, <1>1, <1>2

LEMMA LoadNamed ==
  ASSUME NEW c \in Codes, c[1] \in {9, 10, 11, 13, 14, 15}
  PROVE  Same(PointerLoad(c), disasm_load(c))
<1> DEFINE n == <<2, 4, 5>>[c[1] % 4]
           d == IF c[1] < 12 THEN "D0" ELSE "D1"
<1>1. d = IF c[1] < 13 THEN "D0" ELSE "D1"
  OBVIOUS
<1>2. n = CASE c[1] \in {9, 13} -> 2 [] c[1] \in {10, 14} -> 4 [] c[1] \in {11, 15} -> 5
  OBVIOUS
<1>3. PointerLoad(c) = At(2 + n, With("load", d, n))
  BY Zenon, <1>2 DEF PointerLoad
<1>4. disasm_load(c) = Line(2 + n, With("load", d, n))
  BY Zenon, <1>1 DEF disasm_load
<1> HIDE DEF n, d
<1> QED BY <1>3, <1>4 DEF At, Line, JumpLine, Target, Same

-----------------------------------------------------------------------------
(* The exceptions of Decode, told from the code c; what it is that the two *)
(* readers agree on.                                                       *)
TooShortAt(e, c) ==
  \/ c[0] = 1 /\ c[1] \in {6, 7, 8, 12}
  \/ c[0] = 8 /\ c[1] = 1 /\ c[2] = 9
  \/ c[0] = 6 /\ e.ins.op \in {"NOP5", "TRAP"}

MisnamedAt(m, e, c) ==
  \/ c[0] = 1 /\ c[1] < 3 /\ c[2] >= 8
  \/ c[0] = 8 /\ c[1] = 1 /\ c[2] = 9 /\ c[4] % 4 # 1
  \/ c[0] = 8 /\ c[1] = 13
  \/ e.ins.op = "TRAP"
  \/ m = "HP" /\ e.ins.op = "neg"
  \/ m = "CLASS" /\ e.ins.op \in {"C=P", "P=C"}

UnnamedAt(c) == c[0] = 8 /\ c[1] = 1 /\ c[2] = 10 /\ c[4] <= 2 /\ c[5] % 8 > 4

CrashesAt(e, c) == e.ins.op = "RSI" /\ c[4] # 0

NextNibble(p, e, l) == l.ins.op = "NOP3" /\ e.to = (p + 3) % AddressSpace

LengthAgrees(e, l, c) ==
  e.ins.op # "illegal" => (e.len = l.next <=> ~TooShortAt(e, c) /\ ~CrashesAt(e, c))
TargetAgrees(p, e, l) == e.to = l.to \/ NextNibble(p, e, l)
WorkAgrees(m, p, e, l, c) ==
  (SameIns(e.ins, l.ins) \/ NextNibble(p, e, l)) <=>
    ~MisnamedAt(m, e, c) /\ ~UnnamedAt(c) /\ ~CrashesAt(e, c)
BlankAgrees(e, l, c) ==
  /\ l.ins.op = "illegal" <=> e.ins.op = "illegal" \/ UnnamedAt(c)
  /\ l.ins.op = "crash" <=> CrashesAt(e, c)
  /\ CrashesAt(e, c) => l = Crash

Covered(e) == e.ins.op = "RSI" => e.len = 5

Agree(m, p, e, l, c) ==
  /\ Covered(e)
  /\ LengthAgrees(e, l, c)
  /\ TargetAgrees(p, e, l)
  /\ WorkAgrees(m, p, e, l, c)
  /\ BlankAgrees(e, l, c)

(* Operations that one reader or the other treats in a way of its own.     *)
Special == {"NOP5", "TRAP", "neg", "C=P", "P=C", "RSI", "crash"}

(* Where nothing is special it is enough that both say the same.           *)
LEMMA SameAgree ==
  ASSUME NEW m, NEW p, NEW e, NEW l, NEW c,
         Same(e, l), e.ins.op \notin Special, ~TooShortAt(e, c),
         ~(c[0] = 1 /\ c[1] < 3 /\ c[2] >= 8),
         ~(c[0] = 8 /\ c[1] = 1 /\ c[2] \in {9, 10}),
         ~(c[0] = 8 /\ c[1] = 13)
  PROVE  Agree(m, p, e, l, c)
BY DEF Agree, Covered, LengthAgrees, TargetAgrees, WorkAgrees, BlankAgrees, Same, SameIns, MisnamedAt, UnnamedAt, CrashesAt, Special

(* Groups 1 and 0.                                                         *)
LEMMA Agree1 ==
  ASSUME NEW m \in Modes, NEW p, NEW c \in Codes, c[0] = 1
  PROVE  Agree(m, p, Group1(c), disasm_1(c), c)
<1> DEFINE e == Group1(c)
           l == disasm_1(c)
<1>1. CASE c[1] \in 0 .. 2
  <2> DEFINE i == ScratchMove(c[1], c[2], W_FIELD)
             j == disasm_scratch(c[1], c[2])
  <2>1. e = At(3, i) /\ l = Line(3, j)
    BY <1>1, Executes1, Lists1
  <2>2. /\ c[2] < 8 => i = j
        /\ ~(c[2] < 8) => ~SameIns(i, j)
        /\ i.op \in {"=", "EX"} /\ j.op \in {"=", "EX"}
    <3>1. c[2] \in 0 .. 15
      BY Digit
    <3> QED BY Zenon, <1>1, <3>1, ScratchNamed
  <2>3. c[2] < 8 <=> ~(c[2] >= 8)
    BY Digit
  <2> HIDE DEF i, j
  <2>4. e.len = l.next /\ e.ins = i /\ l.ins = j /\ e.to = l.to
    BY <2>1 DEF At, Line, JumpLine, Target
  <2>5. WorkAgrees(m, p, e, l, c)
    BY <1>1, <2>2, <2>3, <2>4 DEF WorkAgrees, MisnamedAt, UnnamedAt, CrashesAt, NextNibble, SameIns
  <2>6. ~TooShortAt(e, c)
    BY <1>1 DEF TooShortAt
  <2>7. Covered(e)
    BY <1>1, <2>2, <2>4 DEF Covered
  <2>8. BlankAgrees(e, l, c) /\ ~CrashesAt(e, c)
    BY <1>1, <2>2, <2>4 DEF BlankAgrees, UnnamedAt, CrashesAt
  <2> QED BY <2>4, <2>5, <2>6, <2>7, <2>8 DEF Agree, LengthAgrees, TargetAgrees
<1>2. CASE c[1] \in 3 .. 5 \cup {9, 10, 11, 13, 14, 15}
  <2>1. Same(e, l) /\ e.ins.op \in {"=", "EX", "load"}
    <3>1. CASE c[1] = 3
      <4>1. PointerMove(c[2]).op \in {"=", "EX"}
        BY DEF PointerMove, Ins
      <4> QED BY <4>1, <3>1, Executes1, Lists1, PointerNamed, Digit DEF Same, At, Line, JumpLine, Target
    <3>2. CASE c[1] = 4
      <4>1. \A n \in 0 .. 15 : \A f : MemoryMove(n, f, 0).op = "="
        BY DEF MemoryMove, Ins
      <4>2. Span(IF c[2] < 8 THEN A_FIELD ELSE 6) = Meaning[IF c[2] < 8 THEN "A" ELSE "B"]
        BY DEF Span, Meaning, start_fields, end_fields, A_FIELD
      <4>3. PICK f : f = Span(IF c[2] < 8 THEN A_FIELD ELSE 6)
        OBVIOUS
      <4>4. e = At(3, MemoryMove(c[2] % 8, f, 0)) /\ l = Line(3, disasm_memory(c[2], f, 0))
        BY <3>2, <4>2, <4>3, Executes1, Lists1
      <4>5. c[2] \in 0 .. 15 /\ c[2] % 8 \in 0 .. 15
        BY Digit
      <4>6. MemoryMove(c[2] % 8, f, 0) = disasm_memory(c[2], f, 0)
        BY <4>5, MemoryNamed
      <4> QED BY <4>1, <4>4, <4>5, <4>6 DEF Same, At, Line, JumpLine, Target
    <3>3. CASE c[1] = 5
      <4>1. \A n \in 0 .. 15 : \A f, k : MemoryMove(n, f, k).op = "="
        BY DEF MemoryMove, Ins
      <4>2. c[2] \in 0 .. 15 /\ c[2] % 8 \in 0 .. 15 /\ (c[2] < 8 => c[2] % 8 = c[2])
        BY Digit
      <4>3. append_field(c[3]) = Span(c[3])
        BY Digit, FieldNamed
      <4>4. PICK f, k : /\ f = IF c[2] < 8 THEN Span(c[3]) ELSE <<>>
                        /\ k = IF c[2] < 8 THEN 0 ELSE c[3] + 1
        OBVIOUS
      <4>5. e = At(4, MemoryMove(c[2] % 8, f, k)) /\ l = Line(4, disasm_memory(c[2], f, k))
        BY <3>3, <4>2, <4>3, <4>4, Executes1, Lists1
      <4>6. MemoryMove(c[2] % 8, f, k) = disasm_memory(c[2], f, k)
        BY <4>2, MemoryNamed
      <4> QED BY <4>1, <4>2, <4>5, <4>6 DEF Same, At, Line, JumpLine, Target
    <3>4. CASE c[1] \in {9, 10, 11, 13, 14, 15}
      <4>1. e = PointerLoad(c) /\ l = disasm_load(c)
        BY <3>4, Executes1, Lists1
      <4>2. PointerLoad(c).ins.op = "load"
        BY DEF PointerLoad, At, With, Ins
      <4> QED BY <3>4, <4>1, <4>2, LoadNamed
    <3> QED BY <1>2, <3>1, <3>2, <3>3, <3>4
  <2>2. ~TooShortAt(e, c) /\ ~(c[1] < 3) /\ c[0] # 8
    BY <1>2 DEF TooShortAt
  <2>3. e.ins.op \notin Special
    BY <2>1 DEF Special
  <2> QED BY Zenon, <2>1, <2>2, <2>3, SameAgree
<1>3. CASE c[1] \in {6, 7, 8, 12}
  <2>1. e = PointerStep(c) /\ l = disasm_step(c)
    BY <1>3, Executes1, Lists1
  <2>2. e.len = 3 /\ l.next = 2 /\ e.to = NoJump /\ l.to = NoJump /\ e.ins.op = "+"
    BY <2>1 DEF PointerStep, disasm_step, At, Line, JumpLine, Target, With, Ins
  <2>3. e.ins = l.ins
    BY <2>1, StepNamed
  <2>4. TooShortAt(e, c)
    BY <1>3 DEF TooShortAt
  <2>5. WorkAgrees(m, p, e, l, c)
    BY <1>3, <2>2, <2>3 DEF WorkAgrees, MisnamedAt, UnnamedAt, CrashesAt, SameIns
  <2>6. BlankAgrees(e, l, c) /\ ~CrashesAt(e, c)
    BY <2>2, <2>3 DEF BlankAgrees, UnnamedAt, CrashesAt
  <2> QED BY <2>2, <2>4, <2>5, <2>6 DEF Agree, Covered, LengthAgrees, TargetAgrees
<1> QED BY <1>1, <1>2, <1>3, Digit

LEMMA Agree0 ==
  ASSUME NEW m \in Modes, NEW p, NEW c \in Codes, c[0] = 0
  PROVE  Agree(m, p, Group0(c), disasm_0(m, c), c)
<1>1. ~TooShortAt(Group0(c), c)
  BY DEF TooShortAt
<1> QED BY <1>1, Same0, Ops0, SameAgree DEF Special

-----------------------------------------------------------------------------
(* The tables of the groups 9 to f, entry by entry.                        *)
LEMMA TestNamed ==
  ASSUME NEW high \in BOOLEAN, NEW n \in 0 .. 15, NEW f \in 0 .. 15
  PROVE  LET ops == op_str_9[(n % 4) + (IF ~high /\ n >= 8 THEN 5 ELSE 1)]
             op  == in_str_9[(n \div 4) + (IF high THEN 5 ELSE 1)]
             i   == Test(high, n, f)
             j   == Ins(op, None, ops[1], ops[2], append_field(f), 0)
         IN SameIns(i, j) /\ i.op \in {"?=", "?#", "?>", "?<", "?>=", "?<="}
<1> DEFINE ops == op_str_9[(n % 4) + (IF ~high /\ n >= 8 THEN 5 ELSE 1)]
           op  == in_str_9[(n \div 4) + (IF high THEN 5 ELSE 1)]
           k   == (n % 4) + 1
           q   == (n \div 4) + 1
           s   == Span(f)
           j   == Ins(op, None, ops[1], ops[2], s, 0)
           i   == Test(high, n, f)
<1>1. append_field(f) = s
  BY FieldNamed
<1>2. CASE high
  <2>1. ops[1] = First[k] /\ ops[2] = Other[k]
    BY <1>2 DEF op_str_9, First, Other
  <2>2. op = <<"?>", "?<", "?>=", "?<=">>[q]
    BY <1>2 DEF in_str_9
  <2>3. op \in {"?>", "?<", "?>=", "?<="}
    BY <1>2 DEF in_str_9
  <2>4. i = Ins(op, None, First[k], Other[k], s, 0)
    BY Zenon, <1>2, <2>2 DEF Test, On
  <2>5. i = j
    BY Zenon, <2>1, <2>4
  <2>6. i.op = op
    <3> HIDE DEF i, op, ops, k, s
    <3> QED BY <2>4 DEF Ins
  <2> QED BY Zenon, <1>1, <2>3, <2>5, <2>6 DEF SameIns
<1>3. CASE ~high /\ n >= 8
  <2>1. ops[1] = First[k] /\ ops[2] = "0"
    BY <1>3 DEF op_str_9, First
  <2>2. op = <<"?=", "?#">>[q - 2] /\ ~(q <= 2)
    BY <1>3 DEF in_str_9
  <2>3. op \in {"?=", "?#"}
    BY <1>3 DEF in_str_9
  <2>4. i = Ins(op, None, First[k], "0", s, 0)
    BY Zenon, <1>3, <2>2 DEF Test, On
  <2>5. i = j
    BY Zenon, <2>1, <2>4
  <2>6. i.op = op
    <3> HIDE DEF i, op, ops, k, s
    <3> QED BY <2>4 DEF Ins
  <2> QED BY Zenon, <1>1, <2>3, <2>5, <2>6 DEF SameIns
<1>4. CASE ~high /\ ~(n >= 8)
  <2>1. \/ ops[1] = Left[k] /\ ops[2] = Right[k]
        \/ ops[1] = Right[k] /\ ops[2] = Left[k]
    BY <1>4 DEF op_str_9, Left, Right
  <2>2. op = <<"?=", "?#">>[q] /\ q <= 2
    BY <1>4 DEF in_str_9
  <2>3. op \in {"?=", "?#"}
    BY <1>4 DEF in_str_9
  <2>4. i = Ins(op, None, Left[k], Right[k], s, 0)
    BY Zenon, <1>4, <2>2 DEF Test, On
  <2>5. Turned(j) = Ins(op, None, ops[2], ops[1], s, 0)
    BY Turns
  <2>6. i = j \/ i = Turned(j)
    BY Zenon, <2>1, <2>4, <2>5
  <2>7. i.op = op
    <3> HIDE DEF i, op, ops, k, s
    <3> QED BY <2>4 DEF Ins
  <2>8. op \in Symmetric
    BY Zenon, <2>3 DEF Symmetric
  <2> QED BY Zenon, <1>1, <2>3, <2>6, <2>7, <2>8 DEF SameIns
<1> QED BY Zenon, <1>2, <1>3, <1>4

LEMMA AddNamed ==
  ASSUME NEW n \in 0 .. 15, NEW f \in 0 .. 15
  PROVE  LET i == AddOrMove(FALSE, n, f)
         IN /\ i = hp_af(TRUE, FALSE, n, f) /\ i = class_af(TRUE, FALSE, n, f)
            /\ i.op \in {"+", "-1"}
<1> DEFINE s == Span(f)
           x == First[(n % 4) + 1]
           y == Other[(n % 4) + 1]
           t == op_str_af_HP[n + 1]
           u == op_str_af_CLASS[n + 1]
           i == AddOrMove(FALSE, n, f)
<1>1. append_field(f) = s
  BY FieldNamed
<1>2. LET q == (n \div 4) + 1
      IN /\ q = 1 => i = Ins("+", x, x, y, s, 0)
         /\ q = 2 => i = Ins("+", x, x, x, s, 0)
         /\ q = 3 => i = Ins("+", y, y, x, s, 0)
         /\ q = 4 => i = Ins("-1", x, None, None, s, 0)
  <2> DEFINE q == (n \div 4) + 1
             v == <<On("+", x, x, y, f), On("+", x, x, x, f), On("+", y, y, x, f),
                    On("-1", x, None, None, f)>>
  <2>1. i = v[q]
    BY Zenon DEF AddOrMove
  <2>2. /\ v[1] = Ins("+", x, x, y, s, 0)
        /\ v[2] = Ins("+", x, x, x, s, 0)
        /\ v[3] = Ins("+", y, y, x, s, 0)
        /\ v[4] = Ins("-1", x, None, None, s, 0)
    BY Zenon DEF On
  <2> QED BY Zenon, <2>1, <2>2
<1>3. op_str_81[(n % 4) + 1] = x
  BY DEF op_str_81, First
<1>4. CASE n < 12
  <2>1. t[1] = u[2] /\ t[2] = u[2] /\ t[3] = u[1]
    BY <1>4 DEF op_str_af_HP, op_str_af_CLASS
  <2>2. hp_af(TRUE, FALSE, n, f) = Ins("+", t[1], t[2], t[3], s, 0)
    BY Zenon, <1>1, <1>4 DEF hp_af
  <2>3. class_af(TRUE, FALSE, n, f) = Ins("+", u[2], u[2], u[1], s, 0)
    <3>1. class_af(TRUE, FALSE, n, f) = ClassIns("add", u[1], u[2], s)
      BY Zenon, <1>1, <1>4 DEF class_af
    <3> QED BY Zenon, <3>1 DEF ClassIns
  <2>4. i = Ins("+", t[1], t[2], t[3], s, 0)
    <3>1. CASE n < 4
      <4>1. (n \div 4) + 1 = 1 /\ t[1] = x /\ t[2] = x /\ t[3] = y
        BY <3>1 DEF op_str_af_HP, First, Other
      <4> QED BY Zenon, <1>2, <4>1
    <3>2. CASE n \in 4 .. 7
      <4>1. (n \div 4) + 1 = 2 /\ t[1] = x /\ t[2] = x /\ t[3] = x
        BY <3>2 DEF op_str_af_HP, First, Other
      <4> QED BY Zenon, <1>2, <4>1
    <3>3. CASE n \in 8 .. 11
      <4>1. (n \div 4) + 1 = 3 /\ t[1] = y /\ t[2] = y /\ t[3] = x
        BY <3>3 DEF op_str_af_HP, First, Other
      <4> QED BY Zenon, <1>2, <4>1
    <3>4. n < 4 \/ n \in 4 .. 7 \/ n \in 8 .. 11
      BY <1>4
    <3> QED BY Zenon, <3>1, <3>2, <3>3, <3>4
  <2>5. i.op = "+"
    <3> HIDE DEF i, s, t, x
    <3> QED BY <2>4 DEF Ins
  <2> QED BY Zenon, <2>1, <2>2, <2>3, <2>4, <2>5
<1>5. CASE ~(n < 12)
  <2>1. hp_af(TRUE, FALSE, n, f) = Ins("-1", x, None, None, s, 0)
    BY Zenon, <1>1, <1>3, <1>5 DEF hp_af
  <2>2. class_af(TRUE, FALSE, n, f) = Ins("-1", x, None, None, s, 0)
    BY Zenon, <1>1, <1>3, <1>5 DEF class_af
  <2>3. (n \div 4) + 1 = 4
    BY <1>5
  <2>4. i = Ins("-1", x, None, None, s, 0)
    BY Zenon, <1>2, <2>3
  <2>5. i.op = "-1"
    <3> HIDE DEF i, s, t, x
    <3> QED BY <2>4 DEF Ins
  <2> QED BY Zenon, <2>1, <2>2, <2>4, <2>5
<1> QED BY Zenon, <1>4, <1>5

LEMMA MoveNamed ==
  ASSUME NEW n \in 0 .. 15, NEW f \in 0 .. 15
  PROVE  LET i == AddOrMove(TRUE, n, f)
         IN /\ i = hp_af(TRUE, TRUE, n, f) /\ SameIns(i, class_af(TRUE, TRUE, n, f))
            /\ i.op \in {"=", "EX"}
<1> DEFINE s == Span(f)
           k == (n % 4) + 1
           x == First[k]
           y == Other[k]
           a == hp_reg_1_af[n + 1]
           b == hp_reg_2_af[n + 1]
           u == op_str_af_CLASS[n + 1]
           i == AddOrMove(TRUE, n, f)
<1>1. append_field(f) = s
  BY FieldNamed
<1>2. LET q == (n \div 4) + 1
      IN /\ q = 1 => i = Ins("=", x, "0", None, s, 0)
         /\ q = 2 => i = Ins("=", x, y, None, s, 0)
         /\ q = 3 => i = Ins("=", y, x, None, s, 0)
         /\ q = 4 => i = Ins("EX", Left[k], Right[k], None, s, 0)
  <2> DEFINE q == (n \div 4) + 1
             v == <<On("=", x, "0", None, f), On("=", x, y, None, f), On("=", y, x, None, f),
                    On("EX", Left[k], Right[k], None, f)>>
  <2>1. i = v[q]
    BY Zenon DEF AddOrMove
  <2>2. /\ v[1] = Ins("=", x, "0", None, s, 0)
        /\ v[2] = Ins("=", x, y, None, s, 0)
        /\ v[3] = Ins("=", y, x, None, s, 0)
        /\ v[4] = Ins("EX", Left[k], Right[k], None, s, 0)
    BY Zenon DEF On
  <2> QED BY Zenon, <2>1, <2>2
<1>3. CASE n < 4
  <2>1. op_str_81[k] = x /\ (n \div 4) + 1 = 1
    BY <1>3 DEF op_str_81, First
  <2>2. i = Ins("=", x, "0", None, s, 0)
    BY Zenon, <1>2, <2>1
  <2>3. hp_af(TRUE, TRUE, n, f) = Ins("=", x, "0", None, s, 0)
    BY Zenon, <1>1, <1>3, <2>1 DEF hp_af
  <2>4. class_af(TRUE, TRUE, n, f) = Ins("=", x, "0", None, s, 0)
    BY Zenon, <1>1, <1>3, <2>1 DEF class_af
  <2>5. i.op = "="
    <3> HIDE DEF i, s, x
    <3> QED BY <2>2 DEF Ins
  <2> QED BY Zenon, <2>2, <2>3, <2>4, <2>5 DEF SameIns
<1>4. CASE n \in 4 .. 11
  <2> DEFINE v == op_str_af_CLASS[CopyRow(n) + 1]
  <2>1. ~(n < 4) /\ ~(n >= 12) /\ ((n \div 4) + 1 = 2 \/ (n \div 4) + 1 = 3)
    BY <1>4
  <2>2. v[2] = a /\ v[1] = b
    BY <1>4 DEF op_str_af_CLASS, hp_reg_1_af, hp_reg_2_af, CopyRow
  <2>3. /\ (n \div 4) + 1 = 2 => a = x /\ b = y
        /\ (n \div 4) + 1 = 3 => a = y /\ b = x
    BY <1>4 DEF hp_reg_1_af, hp_reg_2_af, First, Other
  <2>4. i = Ins("=", a, b, None, s, 0)
    BY Zenon, <1>2, <2>1, <2>3
  <2>5. hp_af(TRUE, TRUE, n, f) = Ins("=", a, b, None, s, 0)
    BY Zenon, <1>1, <2>1 DEF hp_af
  <2>6. class_af(TRUE, TRUE, n, f) = Ins("=", v[2], v[1], None, s, 0)
    <3>1. class_af(TRUE, TRUE, n, f) = ClassIns("move", v[1], v[2], s)
      BY Zenon, <1>1, <2>1 DEF class_af
    <3> QED BY Zenon, <3>1 DEF ClassIns
  <2>7. i.op = "="
    <3> HIDE DEF i, s, a, b
    <3> QED BY <2>4 DEF Ins
  <2> QED BY Zenon, <2>2, <2>4, <2>5, <2>6, <2>7 DEF SameIns
<1>5. CASE n >= 12
  <2>1. ~(n < 4) /\ (n \div 4) + 1 = 4
    BY <1>5
  <2>2. Left[k] = a /\ Right[k] = b
    BY <1>5 DEF hp_reg_1_af, hp_reg_2_af, Left, Right
  <2>3. \/ u[2] = a /\ u[1] = b
        \/ u[2] = b /\ u[1] = a
    <3>1. n = 12 \/ n = 13 \/ n = 14 \/ n = 15
      BY <1>5
    <3> QED BY <3>1 DEF op_str_af_CLASS, hp_reg_1_af, hp_reg_2_af
  <2>a. u[2] # None
    <3>1. u[2] \in {"A", "B", "C", "D"}
      BY <1>5 DEF op_str_af_CLASS
    <3> QED BY Zenon, <3>1 DEF None
  <2>4. i = Ins("EX", a, b, None, s, 0)
    BY Zenon, <1>2, <2>1, <2>2
  <2>5. hp_af(TRUE, TRUE, n, f) = Ins("EX", a, b, None, s, 0)
    BY Zenon, <1>1, <1>5, <2>1 DEF hp_af
  <2>6. class_af(TRUE, TRUE, n, f) = Ins("EX", u[2], u[1], None, s, 0)
    <3>1. class_af(TRUE, TRUE, n, f) = ClassIns("exg", u[1], u[2], s)
      BY Zenon, <1>1, <1>5, <2>1 DEF class_af
    <3> QED BY Zenon, <3>1 DEF ClassIns
  <2>7. i.op = "EX"
    <3> HIDE DEF i, s, a, b
    <3> QED BY <2>4 DEF Ins
  <2>8. Turned(Ins("EX", u[2], u[1], None, s, 0)) = Ins("EX", u[1], u[2], None, s, 0)
    <3> HIDE DEF u, s
    <3> QED BY <2>a, Turns
  <2>9. "EX" \in Symmetric
    BY Zenon DEF Symmetric
  <2> QED BY Zenon, <2>3, <2>4, <2>5, <2>6, <2>7, <2>8, <2>9 DEF SameIns
<1>6. n < 4 \/ n \in 4 .. 11 \/ n >= 12
  OBVIOUS
<1> QED BY Zenon, <1>3, <1>4, <1>5, <1>6

LEMMA SubNamed ==
  ASSUME NEW n \in 0 .. 15, NEW f \in 0 .. 15
  PROVE  LET i == SubOrShift(FALSE, n, f)
         IN /\ i = hp_af(FALSE, FALSE, n, f) /\ i = class_af(FALSE, FALSE, n, f)
            /\ i.op \in {"-", "+1"}
<1> DEFINE s == Span(f)
           x == First[(n % 4) + 1]
           y == Other[(n % 4) + 1]
           t == op_str_af_HP[n + 1]
           u == op_str_af_CLASS[n + 1]
           i == SubOrShift(FALSE, n, f)
<1>1. append_field(f) = s
  BY FieldNamed
<1>2. LET q == (n \div 4) + 1
      IN /\ q = 1 => i = Ins("-", x, x, y, s, 0)
         /\ q = 2 => i = Ins("+1", x, None, None, s, 0)
         /\ q = 3 => i = Ins("-", y, y, x, s, 0)
         /\ q = 4 => i = Ins("-", x, y, x, s, 0)
  <2> DEFINE q == (n \div 4) + 1
             v == <<On("-", x, x, y, f), On("+1", x, None, None, f), On("-", y, y, x, f),
                    On("-", x, y, x, f)>>
  <2>1. i = v[q]
    BY Zenon DEF SubOrShift
  <2>2. /\ v[1] = Ins("-", x, x, y, s, 0)
        /\ v[2] = Ins("+1", x, None, None, s, 0)
        /\ v[3] = Ins("-", y, y, x, s, 0)
        /\ v[4] = Ins("-", x, y, x, s, 0)
    BY Zenon DEF On
  <2> QED BY Zenon, <2>1, <2>2
<1>3. CASE n \in 4 .. 7
  <2>1. op_str_81[(n % 4) + 1] = x /\ (n \div 4) + 1 = 2 /\ ~(n >= 12)
    BY <1>3 DEF op_str_81, First
  <2>2. i = Ins("+1", x, None, None, s, 0)
    BY Zenon, <1>2, <2>1
  <2>3. hp_af(FALSE, FALSE, n, f) = Ins("+1", x, None, None, s, 0)
    BY Zenon, <1>1, <1>3, <2>1 DEF hp_af
  <2>4. class_af(FALSE, FALSE, n, f) = Ins("+1", x, None, None, s, 0)
    BY Zenon, <1>1, <1>3, <2>1 DEF class_af
  <2>5. i.op = "+1"
    <3> HIDE DEF i, s, x
    <3> QED BY <2>2 DEF Ins
  <2> QED BY Zenon, <2>2, <2>3, <2>4, <2>5
<1>4. CASE n \in 0 .. 3 \cup 8 .. 15
  <2>1. /\ n \notin 4 .. 7
        /\ (n \div 4) + 1 = 1 \/ (n \div 4) + 1 = 3 \/ (n \div 4) + 1 = 4
        /\ (n \div 4) + 1 = 4 <=> n >= 12
    BY <1>4
  <2>2. /\ (n \div 4) + 1 = 1 => t[1] = x /\ t[2] = x /\ t[3] = y
        /\ (n \div 4) + 1 = 3 => t[1] = y /\ t[2] = y /\ t[3] = x
        /\ (n \div 4) + 1 = 4 => t[1] = x /\ t[2] = y /\ t[3] = x
    BY DEF op_str_af_HP, First, Other
  <2>3. i = Ins("-", t[1], t[2], t[3], s, 0)
    BY Zenon, <1>2, <2>1, <2>2
  <2>4. hp_af(FALSE, FALSE, n, f) = Ins("-", t[1], t[2], t[3], s, 0)
    BY Zenon, <1>1, <2>1 DEF hp_af
  <2>5. class_af(FALSE, FALSE, n, f) = IF n >= 12 THEN Ins("-", u[2], u[1], u[2], s, 0)
                                       ELSE Ins("-", u[2], u[2], u[1], s, 0)
    <3>1. class_af(FALSE, FALSE, n, f) = IF n >= 12 THEN ClassIns("subr", u[1], u[2], s)
                                         ELSE ClassIns("sub", u[1], u[2], s)
      BY Zenon, <1>1, <2>1 DEF class_af
    <3>2. ClassIns("subr", u[1], u[2], s) = Ins("-", u[2], u[1], u[2], s, 0)
      BY Zenon DEF ClassIns
    <3>3. ClassIns("sub", u[1], u[2], s) = Ins("-", u[2], u[2], u[1], s, 0)
      BY Zenon DEF ClassIns
    <3> QED BY Zenon, <3>1, <3>2, <3>3
  <2>6. IF n >= 12 THEN t[1] = u[2] /\ t[2] = u[1] /\ t[3] = u[2]
        ELSE t[1] = u[2] /\ t[2] = u[2] /\ t[3] = u[1]
    BY <1>4 DEF op_str_af_HP, op_str_af_CLASS
  <2>7. i.op = "-"
    <3> HIDE DEF i, s, t
    <3> QED BY <2>3 DEF Ins
  <2> QED BY Zenon, <2>3, <2>4, <2>5, <2>6, <2>7
<1>5. n \in 4 .. 7 \/ n \in 0 .. 3 \cup 8 .. 15
  OBVIOUS
<1> QED BY Zenon, <1>3, <1>4, <1>5

LEMMA ShiftNamed ==
  ASSUME NEW n \in 0 .. 15, NEW f \in 0 .. 15
  PROVE  LET i == SubOrShift(TRUE, n, f)
             j == hp_af(FALSE, TRUE, n, f)
         IN /\ i.op # "neg" => i = j
            /\ i.op = "neg" => j.op = "-1"
            /\ i = class_af(FALSE, TRUE, n, f)
            /\ i.op \in {"SL", "SR", "neg", "not"}
<1> DEFINE s == Span(f)
           x == First[(n % 4) + 1]
           q == (n \div 4) + 1
           o == <<"SL", "SR", "neg", "not">>[q]
           h == <<"SL", "SR", "-1", "not">>[q]
           i == SubOrShift(TRUE, n, f)
           j == hp_af(FALSE, TRUE, n, f)
<1>1. append_field(f) = s /\ op_str_81[(n % 4) + 1] = x
  BY FieldNamed DEF op_str_81, First
<1>2. i = Ins(o, x, None, None, s, 0)
  BY Zenon DEF SubOrShift, On
<1>3. j = Ins(h, x, None, None, s, 0)
  BY Zenon, <1>1 DEF hp_af
<1>4. class_af(FALSE, TRUE, n, f) = Ins(o, x, None, None, s, 0)
  BY Zenon, <1>1 DEF class_af
<1>5. o \in {"SL", "SR", "neg", "not"} /\ (o # "neg" => h = o) /\ (o = "neg" => h = "-1")
  OBVIOUS
<1>6. i.op = o /\ j.op = h
  <2> HIDE DEF i, j, o, h, x, s
  <2> QED BY <1>2, <1>3 DEF Ins
<1> QED BY Zenon, <1>2, <1>3, <1>4, <1>5, <1>6

-----------------------------------------------------------------------------
(* Groups 2 to 7; the test at the end of which there is a displacement;    *)
(* groups a to f.                                                          *)
LEMMA AgreeJumps ==
  ASSUME NEW m \in Modes, NEW p \in Int, NEW c \in Codes, c[0] \in 2 .. 7
  PROVE  Agree(m, p, step_instruction(p, c), disassemble(m, p, c), c)
<1> DEFINE e == step_instruction(p, c)
           l == disassemble(m, p, c)
<1>a. ~(c[0] = 1) /\ ~(c[0] = 8) /\ c[1] \in Nat
  BY Digit
<1>1. CASE c[0] \in {2, 3, 7}
  <2>1. /\ c[0] = 2 => e = At(2, With("P=", None, c[1]))
        /\ c[0] = 3 => e = ConstantLoad("C", 2, c[1])
        /\ c[0] = 7 => e = Jump(4, Plain("GOSUB"), Relative(p, 4, c, 1, 3))
    BY Executes
  <2>2. /\ c[0] = 2 => l = Line(2, With("P=", None, c[1]))
        /\ c[0] = 3 => l = Line(2 + c[1] + 1, With("load", "C", c[1] + 1))
        /\ c[0] = 7 => l = disasm_gosub(p, c)
    BY Lists
  <2>3. Relative(p, 4, c, 1, 3) = append_r_addr(p + 4, Read(c, 1, 3), 3, 4).to
    <3>1. Read(c, 1, 3) \in Nat
      BY ReadIsNat
    <3> QED BY <3>1, SameDisplacement DEF Relative
  <2> HIDE DEF e, l
  <2>4. Same(e, l)
    BY <1>1, <1>a, <2>1, <2>2, <2>3 DEF ConstantLoad, disasm_gosub, At, Jump, Line, JumpLine, Target, Same
  <2>5. e.ins.op \in {"P=", "load", "GOSUB"}
    BY <1>1, <2>1 DEF ConstantLoad, At, Jump, With, Plain, Ins
  <2>6. e.ins.op \notin Special /\ ~TooShortAt(e, c)
    BY <2>5, <1>a DEF Special, TooShortAt
  <2> USE DEF e, l
  <2> QED BY Zenon, <2>4, <2>6, <1>a, SameAgree
<1>2. CASE c[0] \in {4, 5}
  <2> DEFINE r == Read(c, 1, 2)
             op == IF c[0] = 4 THEN "GOC" ELSE "GONC"
             t == GoYes(p + 1, r, 1)
  <2>1. e = CarryJump(p, c) /\ l = disasm_carry(p, c)
    BY <1>2, Executes, Lists
  <2>2. Branch(p, c, 1) = t.to
    BY SameBranch
  <2>3. r \in Nat
    BY ReadIsNat
  <2> HIDE DEF r
  <2>4. e = IF c[0] = 4 /\ r = 2 THEN At(3, Plain("NOP3"))
            ELSE Jump(3, Plain(op), Branch(p, c, 1))
    BY Zenon, <2>1 DEF CarryJump, r
  <2>5. l = IF r = 2 THEN Line(3, Plain("NOP3"))
            ELSE JumpLine(3, Plain(op), t)
    BY Zenon, <2>1 DEF disasm_carry, r
  <2> HIDE DEF t
  <2>6. e.ins.op \in {"GOC", "GONC", "NOP3"}
    <3> HIDE DEF e
    <3> QED BY <2>4 DEF At, Jump, Plain, Ins
  <2>7. e.ins.op \notin Special /\ ~TooShortAt(e, c)
    BY <2>6, <1>a DEF Special, TooShortAt
  <2>8. CASE c[0] = 4 \/ r # 2
    <3>1. Same(e, l)
      <4> HIDE DEF e, l
      <4> QED BY <1>2, <2>2, <2>4, <2>5, <2>8 DEF At, Jump, Line, JumpLine, Target, Same
    <3> QED BY Zenon, <3>1, <2>7, <1>a, SameAgree
  <2>9. CASE c[0] = 5 /\ r = 2
    <3>1. e = Jump(3, Plain("GONC"), Branch(p, c, 1)) /\ l = Line(3, Plain("NOP3"))
      BY <2>4, <2>5, <2>9
    <3>2. Branch(p, c, 1) = (p + 3) % AddressSpace
      <4>1. Branch(p, c, 1) = (p + 1 + Signed(2, 2)) % AddressSpace
        BY <2>9 DEF Branch, Relative, r
      <4>2. Signed(2, 2) = 2
        <5>1. 2^(4 * 2 - 1) = 128
          OBVIOUS
        <5> QED BY <5>1 DEF Signed
      <4> QED BY <4>1, <4>2
    <3> HIDE DEF e, l
    <3>3. NextNibble(p, e, l) /\ e.len = l.next /\ l.ins.op = "NOP3" /\ e.ins.op = "GONC"
      BY <3>1, <3>2 DEF NextNibble, Jump, Line, Target, JumpLine, Plain, Ins
    <3>4. ~MisnamedAt(m, e, c) /\ ~UnnamedAt(c) /\ ~CrashesAt(e, c)
      BY <2>7, <1>a DEF MisnamedAt, UnnamedAt, CrashesAt, Special
    <3>5. Agree(m, p, e, l, c)
      BY <3>3, <3>4, <2>7 DEF Special, Agree, Covered, LengthAgrees, TargetAgrees, WorkAgrees, BlankAgrees
    <3> USE DEF e, l
    <3> QED BY <3>5
  <2> QED BY <1>2, <2>8, <2>9
<1>3. CASE c[0] = 6
  <2> DEFINE r == Read(c, 1, 3)
             a == Relative(p, 1, c, 1, 3)
             t == append_r_addr(p + 1, r, 3, 1)
             o == IF c[4] = 0 THEN "NOP5" ELSE "TRAP"
  <2>1. e = Goto(p, c) /\ l = disasm_goto(p, c)
    BY <1>3, Executes, Lists
  <2>2. a = t.to
    <3>1. r \in Nat
      BY ReadIsNat
    <3> QED BY <3>1, SameDisplacement DEF Relative
  <2> HIDE DEF r, a, t
  <2>3. e = IF r = 3 THEN At(4, Plain("NOP4")) ELSE IF r = 4 THEN At(5, Plain(o))
            ELSE Jump(4, Plain("GOTO"), a)
    BY Zenon, <2>1, Numerals DEF Goto, r, a
  <2>4. l = IF r = 3 THEN Line(4, Plain("NOP4")) ELSE IF r = 4 THEN Line(4, Plain("NOP5"))
            ELSE JumpLine(4, Plain("GOTO"), t)
    BY Zenon, <2>1, Numerals DEF disasm_goto, r, t
  <2>5. o \in {"NOP5", "TRAP"}
    OBVIOUS
  <2> HIDE DEF e, l, o
  <2>6. /\ e.to = l.to
        /\ e.ins.op \in {"NOP4", "NOP5", "GOTO", "TRAP"}
        /\ l.ins.op \in {"NOP4", "NOP5", "GOTO"}
        /\ e.ins = l.ins <=> e.ins.op # "TRAP"
        /\ e.len = l.next <=> e.ins.op \notin {"NOP5", "TRAP"}
    BY <2>2, <2>3, <2>4, <2>5 DEF At, Jump, Line, JumpLine, Target, Plain, Ins
  <2>7. SameIns(e.ins, l.ins) <=> e.ins.op # "TRAP"
    BY <2>6 DEF SameIns, Symmetric
  <2>8. ~UnnamedAt(c) /\ ~CrashesAt(e, c) /\ (MisnamedAt(m, e, c) <=> e.ins.op = "TRAP")
    BY <2>6, <1>3 DEF MisnamedAt, UnnamedAt, CrashesAt
  <2>9. TooShortAt(e, c) <=> e.ins.op \in {"NOP5", "TRAP"}
    BY <1>3 DEF TooShortAt
  <2>10. Agree(m, p, e, l, c)
    BY <2>6, <2>7, <2>8, <2>9
    DEF Agree, Covered, LengthAgrees, TargetAgrees, WorkAgrees, BlankAgrees, NextNibble
  <2> USE DEF e, l
  <2> QED BY <2>10
<1> QED BY <1>1, <1>2, <1>3

LEMMA AgreeTests ==
  ASSUME NEW m \in Modes, NEW p \in Int, NEW c \in Codes, NEW high \in BOOLEAN, NEW f \in 0 .. 15,
         \/ c[0] = 9 /\ high = (c[1] >= 8) /\ f = c[1] % 8
         \/ c[0] = 8 /\ c[1] \in {10, 11} /\ high = (c[1] = 11) /\ f = 15
  PROVE  Agree(m, p, Jump(5, Test(high, c[2], f), Branch(p, c, 3)), disasm_9(p, c), c)
<1> DEFINE ops == op_str_9[(c[2] % 4) + (IF ~high /\ c[2] >= 8 THEN 5 ELSE 1)]
           op  == in_str_9[(c[2] \div 4) + (IF high THEN 5 ELSE 1)]
           i   == Test(high, c[2], f)
           j   == Ins(op, None, ops[1], ops[2], append_field(f), 0)
           e   == Jump(5, i, Branch(p, c, 3))
           l   == disasm_9(p, c)
           t   == GoYes(p + 3, Read(c, 3, 2), 3)
<1>1. /\ f = IF c[0] = 8 THEN 15 ELSE c[1] % 8
      /\ high <=> IF c[0] = 8 THEN c[1] # 10 ELSE c[1] >= 8
  BY Zenon, Numerals
<1>2. l = JumpLine(5, j, t)
  BY Zenon, <1>1 DEF disasm_9
<1>3. SameIns(i, j) /\ i.op = j.op /\ i.op \in {"?=", "?#", "?>", "?<", "?>=", "?<="}
  <2>1. c[2] \in 0 .. 15
    BY Digit
  <2>2. SameIns(i, j) /\ i.op \in {"?=", "?#", "?>", "?<", "?>=", "?<="}
    BY Zenon, <2>1, TestNamed
  <2> HIDE DEF i, j
  <2> QED BY Zenon, <2>2, SameOp
<1>4. Branch(p, c, 3) = t.to
  BY SameBranch
<1> HIDE DEF i, j, l, t
<1>5. e.len = l.next /\ e.ins = i /\ l.ins = j /\ e.to = l.to
  BY <1>2, <1>4 DEF Jump, JumpLine
<1> HIDE DEF e
<1>6. ~TooShortAt(e, c) /\ ~MisnamedAt(m, e, c) /\ ~UnnamedAt(c) /\ ~CrashesAt(e, c)
  BY <1>3, <1>5 DEF TooShortAt, MisnamedAt, UnnamedAt, CrashesAt
<1>7. Agree(m, p, e, l, c)
  BY <1>3, <1>5, <1>6 DEF Agree, Covered, LengthAgrees, TargetAgrees, WorkAgrees, BlankAgrees
<1> USE DEF e, i, l
<1> QED BY <1>7

(* An instruction of the groups a to f, and the line that lists it.        *)
FieldIns(add, high, n, f) ==
  IF add THEN AddOrMove(high, n, f) ELSE SubOrShift(high, n, f)

FieldLine(m, add, high, n, f) ==
  IF m = "HP" THEN hp_af(add, high, n, f) ELSE class_af(add, high, n, f)

LEMMA FieldNamedWork ==
  ASSUME NEW m \in Modes, NEW add \in BOOLEAN, NEW high \in BOOLEAN, NEW n \in 0 .. 15, NEW f \in 0 .. 15
  PROVE  LET i == FieldIns(add, high, n, f)
             j == FieldLine(m, add, high, n, f)
         IN /\ SameIns(i, j) <=> ~(m = "HP" /\ i.op = "neg")
            /\ i.op \in {"+", "-1", "=", "EX", "-", "+1", "SL", "SR", "neg", "not"}
            /\ j.op \notin {"NOP3", "illegal", "crash"}
<1> DEFINE i == FieldIns(add, high, n, f)
           j == FieldLine(m, add, high, n, f)
           Ops == {"+", "-1", "=", "EX", "-", "+1", "SL", "SR", "not"}
<1> SUFFICES /\ i.op \in Ops => SameIns(i, j)
             /\ i.op = "neg" => IF m = "HP" THEN j.op = "-1" ELSE i = j
             /\ i.op \in Ops \cup {"neg"}
  <2>1. /\ "neg" \notin Ops /\ "neg" \notin Symmetric
        /\ \A o \in Ops \cup {"neg"} : o \notin {"NOP3", "illegal", "crash"}
    BY DEF Symmetric
  <2>2. SameIns(i, j) => i.op = j.op
    BY Zenon, SameOp
  <2>3. i = j => SameIns(i, j)
    BY Zenon DEF SameIns
  <2>4. "-1" # "neg" /\ "-1" \notin {"NOP3", "illegal", "crash"}
    OBVIOUS
  <2> QED BY Zenon, <2>1, <2>2, <2>3, <2>4
<1>1. CASE add = TRUE /\ high = FALSE
  <2>1. /\ i = AddOrMove(FALSE, n, f)
        /\ j = IF m = "HP" THEN hp_af(TRUE, FALSE, n, f) ELSE class_af(TRUE, FALSE, n, f)
    BY Zenon, <1>1 DEF FieldIns, FieldLine
  <2>2. i = j /\ i.op \in {"+", "-1"}
    BY Zenon, <2>1, AddNamed
  <2> QED BY Zenon, <2>2 DEF SameIns
<1>2. CASE add = TRUE /\ high = TRUE
  <2>1. /\ i = AddOrMove(TRUE, n, f)
        /\ j = IF m = "HP" THEN hp_af(TRUE, TRUE, n, f) ELSE class_af(TRUE, TRUE, n, f)
    BY Zenon, <1>2 DEF FieldIns, FieldLine
  <2>2. SameIns(i, j) /\ i.op \in {"=", "EX"}
    BY Zenon, <2>1, MoveNamed DEF SameIns
  <2> QED BY Zenon, <2>2
<1>3. CASE add = FALSE /\ high = FALSE
  <2>1. /\ i = SubOrShift(FALSE, n, f)
        /\ j = IF m = "HP" THEN hp_af(FALSE, FALSE, n, f) ELSE class_af(FALSE, FALSE, n, f)
    BY Zenon, <1>3 DEF FieldIns, FieldLine
  <2>2. i = j /\ i.op \in {"-", "+1"}
    BY Zenon, <2>1, SubNamed
  <2> QED BY Zenon, <2>2 DEF SameIns
<1>4. CASE add = FALSE /\ high = TRUE
  <2>1. /\ i = SubOrShift(TRUE, n, f)
        /\ j = IF m = "HP" THEN hp_af(FALSE, TRUE, n, f) ELSE class_af(FALSE, TRUE, n, f)
    BY Zenon, <1>4 DEF FieldIns, FieldLine
  <2>2. /\ i.op # "neg" => i = j
        /\ i.op = "neg" => IF m = "HP" THEN j.op = "-1" ELSE i = j
        /\ i.op \in {"SL", "SR", "neg", "not"}
    BY Zenon, <2>1, ShiftNamed
  <2> QED BY Zenon, <2>2 DEF SameIns
<1> QED BY Zenon, <1>1, <1>2, <1>3, <1>4

LEMMA AgreeFields ==
  ASSUME NEW m \in Modes, NEW p \in Int, NEW c \in Codes, c[0] \in 10 .. 15
  PROVE  Agree(m, p, step_instruction(p, c), disassemble(m, p, c), c)
<1> DEFINE wide == c[0] < 12
           n    == IF wide THEN c[2] ELSE c[1]
           f    == IF wide THEN c[1] % 8 ELSE 15
           high == IF wide THEN c[1] >= 8 ELSE c[0] % 2 = 1
           add  == c[0] \in {10, 12, 13}
           i    == FieldIns(add, high, n, f)
           j    == FieldLine(m, add, high, n, f)
           e    == step_instruction(p, c)
           l    == disassemble(m, p, c)
           k    == IF wide THEN 3 ELSE 2
<1>a. c[1] \in 0 .. 15 /\ c[2] \in 0 .. 15 /\ ~(c[0] = 1) /\ ~(c[0] = 8) /\ ~(c[0] = 6)
  BY Digit
<1>b. n \in 0 .. 15 /\ f \in 0 .. 15
  BY <1>a
<1>c. add \in BOOLEAN /\ high \in BOOLEAN
  <2>1. add \in BOOLEAN
    OBVIOUS
  <2>2. (c[1] >= 8) \in BOOLEAN /\ (c[0] % 2 = 1) \in BOOLEAN
    BY <1>a
  <2> QED BY Zenon, <2>1, <2>2
<1>1. l = Line(k, j)
  <2>1. l = disasm_af(m, c)
    BY Lists
  <2> QED BY Zenon, <2>1 DEF disasm_af, FieldLine
<1>2. e = At(k, i)
  <2>1. CASE c[0] = 10
    <3>1. wide /\ add
      BY <2>1
    <3>2. e = At(3, AddOrMove(c[1] >= 8, c[2], c[1] % 8))
      BY Zenon, <2>1, Executes
    <3> QED BY Zenon, <3>1, <3>2 DEF FieldIns
  <2>2. CASE c[0] = 11
    <3>1. wide /\ ~add
      BY <2>2
    <3>2. e = At(3, SubOrShift(c[1] >= 8, c[2], c[1] % 8))
      BY Zenon, <2>2, Executes
    <3> QED BY Zenon, <3>1, <3>2 DEF FieldIns
  <2>3. CASE c[0] \in {12, 13}
    <3>1. ~wide /\ add /\ (c[0] % 2 = 1 <=> c[0] = 13)
      BY <2>3
    <3>2. e = At(2, AddOrMove(c[0] = 13, c[1], 15))
      BY Zenon, <2>3, Executes DEF A_FIELD
    <3>3. high = (c[0] = 13)
      BY Zenon, <3>1
    <3> QED BY Zenon, <3>1, <3>2, <3>3 DEF FieldIns
  <2>4. CASE c[0] \in {14, 15}
    <3>1. ~wide /\ ~add /\ (c[0] % 2 = 1 <=> c[0] = 15)
      BY <2>4
    <3>2. e = At(2, SubOrShift(c[0] = 15, c[1], 15))
      BY Zenon, <2>4, Executes DEF A_FIELD
    <3>3. high = (c[0] = 15)
      BY Zenon, <3>1
    <3> QED BY Zenon, <3>1, <3>2, <3>3 DEF FieldIns
  <2> QED BY <2>1, <2>2, <2>3, <2>4
<1>3. /\ SameIns(i, j) <=> ~(m = "HP" /\ i.op = "neg")
      /\ i.op \in {"+", "-1", "=", "EX", "-", "+1", "SL", "SR", "neg", "not"}
      /\ j.op \notin {"NOP3", "illegal", "crash"}
  <2> HIDE DEF n, f, high, add
  <2> QED BY Zenon, <1>b, <1>c, FieldNamedWork
<1> HIDE DEF i, j, k, e, l
<1>4. e.len = l.next /\ e.ins = i /\ l.ins = j /\ e.to = l.to
  BY <1>1, <1>2 DEF At, Line, JumpLine, Target
<1>5. ~TooShortAt(e, c) /\ ~UnnamedAt(c) /\ ~CrashesAt(e, c) /\ (MisnamedAt(m, e, c) <=> m = "HP" /\ i.op = "neg")
  BY <1>a, <1>3, <1>4 DEF TooShortAt, UnnamedAt, CrashesAt, MisnamedAt
<1>6. Agree(m, p, e, l, c)
  BY <1>3, <1>4, <1>5 DEF Agree, Covered, LengthAgrees, TargetAgrees, WorkAgrees, BlankAgrees, NextNibble
<1> USE DEF e, l
<1> QED BY <1>6

-----------------------------------------------------------------------------
(* The tables of the group 80.                                             *)
LEMMA Named80 ==
  ASSUME NEW n \in (0 .. 15) \ {8, 12, 13, 15}
  PROVE  n \in DOMAIN in_str_80 /\ in_str_80[n] = In80[n + 1] /\ In80[n + 1] \notin Special
<1>1. 0 .. 7 = {0, 1, 2, 3, 4, 5, 6, 7}
  OBVIOUS
<1>2. /\ in_str_80[0] = "OUT=CS" /\ in_str_80[1] = "OUT=C"   /\ in_str_80[2] = "A=IN"
      /\ in_str_80[3] = "C=IN"   /\ in_str_80[4] = "UNCNFG"  /\ in_str_80[5] = "CONFIG"
      /\ in_str_80[6] = "C=ID"   /\ in_str_80[7] = "SHUTDN"  /\ in_str_80[9] = "C+P+1"
      /\ in_str_80[10] = "RESET" /\ in_str_80[11] = "BUSCC"  /\ in_str_80[14] = "SREQ?"
  BY Zenon, <1>1, Numerals DEF in_str_80
<1>3. n \in {0, 1, 2, 3, 4, 5, 6, 7, 9, 10, 11, 14}
  OBVIOUS
<1>4. n \in DOMAIN in_str_80
  BY <1>3 DEF in_str_80
<1> QED BY <1>2, <1>3, <1>4 DEF In80, Special

LEMMA Named808 ==
  /\ in_str_808[0] = "INTON"   /\ in_str_808[3] = "BUSCB"   /\ in_str_808[12] = "PC=(A)"
  /\ in_str_808[13] = "BUSCD"  /\ in_str_808[14] = "PC=(C)" /\ in_str_808[15] = "INTOFF"
BY Zenon, Numerals DEF in_str_808

LEMMA Executes808 ==
  ASSUME NEW p, NEW c \in Codes
  PROVE  LET e == Group808(p, c)
             n == c[3]
             w == IF n < 8 THEN "A" ELSE "C"
         IN /\ n = 1 => e = At(5, Plain("RSI"))
            /\ n = 2 => e = ConstantLoad("A", 5, c[4])
            /\ n \in {4, 8} => e = At(5, With("BIT=0", w, c[4]))
            /\ n \in {5, 9} => e = At(5, With("BIT=1", w, c[4]))
            /\ n \in {6, 10} => e = Jump(7, With("?BIT=0", w, c[4]), Branch(p, c, 5))
            /\ n \in {7, 11} => e = Jump(7, With("?BIT=1", w, c[4]), Branch(p, c, 5))
            /\ n \in {0, 3, 12, 13, 14, 15} => e = At(4, Plain(in_str_808[n]))
<1> DEFINE e == Group808(p, c)
           n == c[3]
           w == IF n < 8 THEN "A" ELSE "C"
<1>1. "BIT=0" # "BIT=1"
  OBVIOUS
<1>2. n = 1 => e = At(5, Plain("RSI"))
  BY Zenon, Numerals DEF Group808
<1>3. n = 2 => e = ConstantLoad("A", 5, c[4])
  BY Zenon, Numerals DEF Group808
<1>4. /\ n \in {4, 8} => e = At(5, With("BIT=0", w, c[4]))
      /\ n \in {5, 9} => e = At(5, With("BIT=1", w, c[4]))
  BY Zenon, Numerals DEF Group808
<1>5. n \in {6, 10} => e = Jump(7, With("?BIT=0", w, c[4]), Branch(p, c, 5))
  BY Zenon, Numerals DEF Group808
<1>6. n \in {7, 11} => e = Jump(7, With("?BIT=1", w, c[4]), Branch(p, c, 5))
  BY Zenon, <1>1, Numerals DEF Group808
<1>7. n \in {0, 3, 12} => e = At(4, Plain(in_str_808[n]))
  BY Zenon, Numerals, Named808 DEF Group808
<1>8. n \in {13, 14, 15} => e = At(4, Plain(in_str_808[n]))
  BY Zenon, Numerals, Named808 DEF Group808
<1> HIDE DEF e
<1> QED BY Zenon, <1>2, <1>3, <1>4, <1>5, <1>6, <1>7, <1>8 DEF e

LEMMA Lists808 ==
  ASSUME NEW p, NEW c \in Codes
  PROVE  LET l == disasm_808(p, c)
             n == c[3]
             w == IF n < 8 THEN "A" ELSE "C"
         IN /\ n = 1 => l = IF c[4] = 0 THEN Line(5, Plain("RSI")) ELSE Crash
            /\ n = 2 => l = Line(5 + c[4] + 1, With("load", "A", c[4] + 1))
            /\ n \in {4, 8} => l = Line(5, With("BIT=0", w, c[4]))
            /\ n \in {5, 9} => l = Line(5, With("BIT=1", w, c[4]))
            /\ n \in {6, 10} => l = JumpLine(7, With("?BIT=0", w, c[4]), GoYes(p + 5, Read(c, 5, 2), 5))
            /\ n \in {7, 11} => l = JumpLine(7, With("?BIT=1", w, c[4]), GoYes(p + 5, Read(c, 5, 2), 5))
            /\ n \in {0, 3, 12, 13, 14, 15} => l = Line(4, Plain(in_str_808[n]))
<1>1. DOMAIN in_str_808 = {0, 3, 12, 13, 14, 15}
  BY DEF in_str_808
<1>2. /\ c[3] \in {4, 6, 8, 10} => c[3] % 2 # 1
      /\ c[3] \in {5, 7, 9, 11} => c[3] % 2 = 1
      /\ c[3] >= 8 <=> ~(c[3] < 8)
      /\ c[3] \in {6, 7} => c[3] < 8 /\ c[3] < 10
      /\ c[3] \in {10, 11} => ~(c[3] < 8) /\ ~(c[3] < 10)
  BY Digit
<1> DEFINE l == disasm_808(p, c)
           n == c[3]
           w == IF n < 8 THEN "A" ELSE "C"
<1>3. /\ n = 1 => l = IF c[4] = 0 THEN Line(5, Plain("RSI")) ELSE Crash
      /\ n = 2 => l = Line(5 + c[4] + 1, With("load", "A", c[4] + 1))
      /\ n \in {0, 3, 12, 13, 14, 15} => l = Line(4, Plain(in_str_808[n]))
  BY Zenon, <1>1, Numerals DEF disasm_808
<1>4. /\ n \in {4, 8} => l = Line(5, With("BIT=0", w, c[4]))
      /\ n \in {5, 9} => l = Line(5, With("BIT=1", w, c[4]))
  BY Zenon, <1>1, <1>2, Numerals DEF disasm_808
<1>5. n \in {6, 10} => l = JumpLine(7, With("?BIT=0", w, c[4]), GoYes(p + 5, Read(c, 5, 2), 5))
  BY Zenon, <1>1, <1>2, Numerals DEF disasm_808
<1>6. n \in {7, 11} => l = JumpLine(7, With("?BIT=1", w, c[4]), GoYes(p + 5, Read(c, 5, 2), 5))
  BY Zenon, <1>1, <1>2, Numerals DEF disasm_808
<1> HIDE DEF l
<1> QED BY Zenon, <1>3, <1>4, <1>5, <1>6 DEF l

LEMMA Executes80 ==
  ASSUME NEW p, NEW c \in Codes
  PROVE  LET e == Group80(p, c)
         IN /\ c[2] = 8 => e = Group808(p, c)
            /\ c[2] \in {12, 13, 15} => e = At(4, With(In80[c[2] + 1], None, c[3]))
            /\ c[2] \notin {8, 12, 13, 15} => e = At(3, Plain(In80[c[2] + 1]))
BY Zenon, Numerals DEF Group80

LEMMA Lists80 ==
  ASSUME NEW m, NEW p, NEW c \in Codes
  PROVE  LET l == disasm_80(m, p, c)
         IN /\ c[2] = 8 => l = disasm_808(p, c)
            /\ c[2] \in {12, 13, 15} => l = Line(4, With(disasm_P(m, c[2]), None, c[3]))
            /\ c[2] \notin {8, 12, 13, 15} => l = Line(3, Plain(In80[c[2] + 1]))
<1>1. 0 .. 7 = {0, 1, 2, 3, 4, 5, 6, 7}
  OBVIOUS
<1>2. DOMAIN in_str_80 = {0, 1, 2, 3, 4, 5, 6, 7} \cup {9, 10, 11, 14}
  BY <1>1 DEF in_str_80
<1>3. c[2] \notin {8, 12, 13, 15} => c[2] \in (0 .. 15) \ {8, 12, 13, 15}
  BY Digit
<1>4. c[2] \notin {8, 12, 13, 15} => /\ c[2] \in DOMAIN in_str_80
                                     /\ in_str_80[c[2]] = In80[c[2] + 1]
  BY Zenon, <1>3, Named80
<1> QED BY Zenon, <1>2, <1>4, Numerals DEF disasm_80

(* C=P and P=C, which have each other's name in CLASS mnemonics; the rest  *)
(* of group 80.                                                            *)
LEMMA AgreePointer ==
  ASSUME NEW m \in Modes, NEW p \in Int, NEW c \in Codes, c[0] = 8, c[1] = 0, c[2] \in {12, 13, 15}
  PROVE  Agree(m, p, Group80(p, c), disasm_80(m, p, c), c)
<1> DEFINE e == Group80(p, c)
           l == disasm_80(m, p, c)
           o == In80[c[2] + 1]
           h == disasm_P(m, c[2])
<1>1. e = At(4, With(o, None, c[3])) /\ l = Line(4, With(h, None, c[3]))
  BY Zenon, Executes80, Lists80
<1>2. /\ c[2] = 12 => o = "C=P"
      /\ c[2] = 13 => o = "P=C"
      /\ c[2] = 15 => o = "CPEX"
  BY DEF In80
<1>3. /\ c[2] = 12 => h = IF m = "HP" THEN "C=P" ELSE "P=C"
      /\ c[2] = 13 => h = IF m = "HP" THEN "P=C" ELSE "C=P"
      /\ c[2] = 15 => h = "CPEX"
  BY Zenon, Numerals DEF disasm_P
<1>4. /\ o \in {"C=P", "P=C", "CPEX"} /\ h \in {"C=P", "P=C", "CPEX"}
      /\ o = h <=> ~(m = "CLASS" /\ o \in {"C=P", "P=C"})
  <2> HIDE DEF o, h
  <2> QED BY <1>2, <1>3 DEF Modes
<1> HIDE DEF e, l, o, h
<1>5. e.len = l.next /\ e.to = l.to /\ e.ins = With(o, None, c[3]) /\ l.ins = With(h, None, c[3])
  BY <1>1 DEF At, Line, JumpLine, Target
<1>6. e.ins.op = o /\ l.ins.op = h /\ (e.ins = l.ins <=> o = h)
  BY <1>5 DEF With, Ins
<1>7. SameIns(e.ins, l.ins) <=> o = h
  BY <1>6, SameOp DEF SameIns
<1>8. /\ ~TooShortAt(e, c) /\ ~UnnamedAt(c) /\ ~CrashesAt(e, c)
      /\ MisnamedAt(m, e, c) <=> m = "CLASS" /\ o \in {"C=P", "P=C"}
  BY <1>4, <1>6 DEF TooShortAt, UnnamedAt, CrashesAt, MisnamedAt
<1>9. Agree(m, p, e, l, c)
  BY <1>4, <1>5, <1>6, <1>7, <1>8 DEF Agree, Covered, LengthAgrees, TargetAgrees, WorkAgrees, BlankAgrees, NextNibble
<1> USE DEF e, l
<1> QED BY <1>9

LEMMA Agree808 ==
  ASSUME NEW m \in Modes, NEW p \in Int, NEW c \in Codes, c[0] = 8, c[1] = 0
  PROVE  Agree(m, p, Group808(p, c), disasm_808(p, c), c)
<1> DEFINE e == Group808(p, c)
           l == disasm_808(p, c)
           n == c[3]
           w == IF n < 8 THEN "A" ELSE "C"
           b == Branch(p, c, 5)
           t == GoYes(p + 5, Read(c, 5, 2), 5)
<1>a. c[4] \in Nat /\ n \in 0 .. 15 /\ ~(c[0] = 1) /\ ~(c[1] = 1) /\ ~(c[1] = 13) /\ ~(c[0] = 6)
  BY Digit
<1>1. CASE n = 1
  <2>1. e = At(5, Plain("RSI")) /\ l = IF c[4] = 0 THEN Line(5, Plain("RSI")) ELSE Crash
    BY Zenon, <1>1, Executes808, Lists808
  <2> HIDE DEF e, l
  <2>2. /\ e.len = 5 /\ e.to = l.to /\ e.ins = Plain("RSI")
        /\ l.next = 5 <=> c[4] = 0
        /\ l.ins = IF c[4] = 0 THEN Plain("RSI") ELSE Plain("crash")
    BY <2>1 DEF At, Line, JumpLine, Target, Crash, NoAddress
  <2>3. e.ins.op = "RSI" /\ l.ins.op = IF c[4] = 0 THEN "RSI" ELSE "crash"
    BY <2>2 DEF Plain, Ins
  <2>4. SameIns(e.ins, l.ins) <=> c[4] = 0
    <3>1. c[4] = 0 => SameIns(e.ins, l.ins)
      BY <2>2 DEF SameIns
    <3>2. SameIns(e.ins, l.ins) => e.ins.op = l.ins.op
      BY Zenon, SameOp
    <3>3. "RSI" # "crash"
      OBVIOUS
    <3> QED BY Zenon, <2>3, <3>1, <3>2, <3>3
  <2>5. ~TooShortAt(e, c) /\ ~UnnamedAt(c) /\ (CrashesAt(e, c) <=> c[4] # 0) /\ ~MisnamedAt(m, e, c)
    BY <1>a, <2>3 DEF TooShortAt, UnnamedAt, CrashesAt, MisnamedAt
  <2>6. ~NextNibble(p, e, l)
    BY <2>3 DEF NextNibble
  <2>7. Covered(e)
    BY <2>2 DEF Covered
  <2>8. BlankAgrees(e, l, c)
    BY <2>1, <2>3, <2>5 DEF BlankAgrees
  <2>9. LengthAgrees(e, l, c)
    BY <2>2, <2>5 DEF LengthAgrees
  <2>10. Agree(m, p, e, l, c)
    BY Zenon, <2>2, <2>4, <2>5, <2>6, <2>7, <2>8, <2>9 DEF Agree, TargetAgrees, WorkAgrees
  <2> USE DEF e, l
  <2> QED BY <2>10
<1>2. CASE n # 1
  <2>1. b = t.to
    BY SameBranch
  <2>2. Same(e, l) /\ e.ins.op \in {"load", "BIT=0", "BIT=1", "?BIT=0", "?BIT=1", "INTON", "BUSCB",
                                    "PC=(A)", "BUSCD", "PC=(C)", "INTOFF"}
    <3>1. CASE n = 2
      <4>1. e = ConstantLoad("A", 5, c[4]) /\ l = Line(5 + c[4] + 1, With("load", "A", c[4] + 1))
        BY Zenon, <3>1, Executes808, Lists808
      <4> HIDE DEF e, l
      <4> QED BY <1>a, <4>1 DEF ConstantLoad, At, Line, JumpLine, Target, With, Ins, Same
    <3>2. CASE n \in {4, 5, 8, 9}
      <4> DEFINE o == IF n \in {4, 8} THEN "BIT=0" ELSE "BIT=1"
      <4>1. e = At(5, With(o, w, c[4])) /\ l = Line(5, With(o, w, c[4]))
        BY Zenon, <3>2, Numerals, Executes808, Lists808
      <4>2. o \in {"BIT=0", "BIT=1"}
        OBVIOUS
      <4> HIDE DEF e, l, o, w
      <4> QED BY <4>1, <4>2 DEF At, Line, JumpLine, Target, With, Ins, Same
    <3>3. CASE n \in {6, 7, 10, 11}
      <4> DEFINE o == IF n \in {6, 10} THEN "?BIT=0" ELSE "?BIT=1"
      <4>1. e = Jump(7, With(o, w, c[4]), b) /\ l = JumpLine(7, With(o, w, c[4]), t)
        BY Zenon, <3>3, Numerals, Executes808, Lists808
      <4>2. o \in {"?BIT=0", "?BIT=1"}
        OBVIOUS
      <4> HIDE DEF e, l, o, w, b, t
      <4> QED BY <2>1, <4>1, <4>2 DEF Jump, JumpLine, With, Ins, Same
    <3>4. CASE n \in {0, 3, 12, 13, 14, 15}
      <4>1. e = At(4, Plain(in_str_808[n])) /\ l = Line(4, Plain(in_str_808[n]))
        BY Zenon, <3>4, Executes808, Lists808
      <4>2. in_str_808[n] \in {"INTON", "BUSCB", "PC=(A)", "BUSCD", "PC=(C)", "INTOFF"}
        BY <3>4, Named808
      <4> HIDE DEF e, l
      <4> QED BY <4>1, <4>2 DEF At, Line, JumpLine, Target, Plain, Ins, Same
    <3> QED BY <1>a, <1>2, <3>1, <3>2, <3>3, <3>4
  <2>3. e.ins.op \notin Special /\ ~TooShortAt(e, c)
    <3> HIDE DEF e, l
    <3> QED BY <1>a, <2>2 DEF Special, TooShortAt
  <2>4. ~(c[1] \in {1, 13})
    BY <1>a
  <2> QED BY Zenon, <2>2, <2>3, <2>4, <1>a, SameAgree
<1> QED BY <1>1, <1>2

LEMMA Agree80 ==
  ASSUME NEW m \in Modes, NEW p \in Int, NEW c \in Codes, c[0] = 8, c[1] = 0
  PROVE  Agree(m, p, Group80(p, c), disasm_80(m, p, c), c)
<1>1. CASE c[2] = 8
  <2>1. Group80(p, c) = Group808(p, c) /\ disasm_80(m, p, c) = disasm_808(p, c)
    BY Zenon, <1>1, Executes80, Lists80
  <2>2. Agree(m, p, Group808(p, c), disasm_808(p, c), c)
    BY Agree808
  <2> QED BY Zenon, <2>1, <2>2
<1>2. CASE c[2] \in {12, 13, 15}
  BY <1>2, AgreePointer
<1>3. CASE c[2] \notin {8, 12, 13, 15}
  <2> DEFINE e == Group80(p, c)
             l == disasm_80(m, p, c)
             o == In80[c[2] + 1]
  <2>1. e = At(3, Plain(o)) /\ l = Line(3, Plain(o))
    BY Zenon, <1>3, Executes80, Lists80
  <2>2. o \notin Special
    <3>1. c[2] \in (0 .. 15) \ {8, 12, 13, 15}
      BY <1>3, Digit
    <3> QED BY Zenon, <3>1, Named80
  <2>3. Same(e, l) /\ e.ins.op = o
    <3> HIDE DEF e, l, o
    <3> QED BY <2>1 DEF At, Line, JumpLine, Target, Plain, Ins, Same
  <2>4. ~(c[0] = 1) /\ ~(c[1] \in {1, 13}) /\ ~TooShortAt(e, c)
    BY DEF TooShortAt
  <2> QED BY Zenon, <2>2, <2>3, <2>4, SameAgree
<1> QED BY <1>1, <1>2, <1>3

-----------------------------------------------------------------------------
(* Group 81.                                                               *)
LEMMA Executes81 ==
  ASSUME NEW c \in Codes
  PROVE  LET e == Group81(c)
             n == c[2]
             w == First[(n % 4) + 1]
         IN /\ n \in 0 .. 3 => e = At(3, Ins("SLC", w, None, None, Span(7), 0))
            /\ n \in 4 .. 7 => e = At(3, Ins("SRC", w, None, None, Span(7), 0))
            /\ n = 8 => e = At(6, Ins(IF c[4] < 8 THEN "+CON" ELSE "-CON", First[(c[4] % 4) + 1],
                                      None, None, Span(c[3]), c[5] + 1))
            /\ n = 9 => e = At(5, Ins("SRB", First[(c[4] % 4) + 1], None, None, Span(c[3]), 0))
            /\ n = 10 => e = IF c[4] > 2 THEN Illegal(6) ELSE At(6, ScratchMove(c[4], c[5], c[3]))
            /\ n = 11 => e = IF c[3] \in 2 .. 7 THEN At(4, Plain(in_str_81b[c[3]])) ELSE Illegal(4)
            /\ n \in 12 .. 15 => e = At(3, Ins("SRB", w, None, None, Span(7), 0))
<1>1. /\ 0 .. 3 = {0, 1, 2, 3} /\ 4 .. 7 = {4, 5, 6, 7} /\ 12 .. 15 = {12, 13, 14, 15}
      /\ c[2] < 4 <=> c[2] \in {0, 1, 2, 3}
      /\ c[2] >= 12 <=> c[2] \in {12, 13, 14, 15}
  BY Digit
<1>2. c[3] \in 2 .. 7 =>
        in_str_81b[c[3]] = <<"PC=A", "PC=C", "A=PC", "C=PC", "APCEX", "CPCEX">>[c[3] - 1]
  BY DEF in_str_81b
<1> DEFINE e == Group81(c)
           n == c[2]
           w == First[(n % 4) + 1]
<1>3. /\ n \in 0 .. 3 => e = At(3, Ins("SLC", w, None, None, Span(7), 0))
      /\ n \in 4 .. 7 => e = At(3, Ins("SRC", w, None, None, Span(7), 0))
  BY Zenon, <1>1, Numerals DEF Group81, On, W_FIELD
<1>4. n \in 12 .. 15 => e = At(3, Ins("SRB", w, None, None, Span(7), 0))
  BY Zenon, <1>1, Numerals DEF Group81, On, W_FIELD
<1>5. /\ n = 8 => e = At(6, Ins(IF c[4] < 8 THEN "+CON" ELSE "-CON", First[(c[4] % 4) + 1],
                                None, None, Span(c[3]), c[5] + 1))
      /\ n = 9 => e = At(5, Ins("SRB", First[(c[4] % 4) + 1], None, None, Span(c[3]), 0))
  BY Zenon, <1>1, Numerals DEF Group81, On
<1>6. /\ n = 10 => e = IF c[4] > 2 THEN Illegal(6) ELSE At(6, ScratchMove(c[4], c[5], c[3]))
      /\ n = 11 => e = IF c[3] \in 2 .. 7 THEN At(4, Plain(in_str_81b[c[3]])) ELSE Illegal(4)
  BY Zenon, <1>1, <1>2, Numerals DEF Group81
<1> HIDE DEF e
<1> QED BY Zenon, <1>3, <1>4, <1>5, <1>6 DEF e

LEMMA Lists81 ==
  ASSUME NEW c \in Codes
  PROVE  LET l == disasm_81(c)
             n == c[2]
             w == First[(n % 4) + 1]
         IN /\ n \in 0 .. 3 => l = Line(3, Ins("SLC", w, None, None, Span(7), 0))
            /\ n \in 4 .. 7 => l = Line(3, Ins("SRC", w, None, None, Span(7), 0))
            /\ n = 8 => l = Line(6, Ins(IF c[4] < 8 THEN "+CON" ELSE "-CON", First[(c[4] % 4) + 1],
                                        None, None, Span(c[3]), c[5] + 1))
            /\ n = 9 => l = Line(4, Ins("SRB", "B", None, None, Span(c[3]), 0))
            /\ n = 10 => l = disasm_81a(c)
            /\ n = 11 => l = IF c[3] \in 2 .. 7 THEN Line(4, Plain(in_str_81b[c[3]])) ELSE Blank(4)
            /\ n \in 12 .. 15 => l = Line(3, Ins("SRB", w, None, None, Span(7), 0))
<1>1. /\ 0 .. 3 = {0, 1, 2, 3} /\ 4 .. 7 = {4, 5, 6, 7} /\ 12 .. 15 = {12, 13, 14, 15}
      /\ c[2] < 4 <=> c[2] \in {0, 1, 2, 3}
      /\ c[2] >= 12 <=> c[2] \in {12, 13, 14, 15}
  BY Digit
<1>2. DOMAIN in_str_81b = 2 .. 7
  BY DEF in_str_81b
<1>3. Meaning["W"] = Span(7)
  BY DEF Meaning, Span, start_fields, end_fields
<1>4. append_field(c[3]) = Span(c[3])
  BY Digit, FieldNamed
<1>5. c[2] = 9 => First[(c[2] % 4) + 1] = "B"
  BY DEF First
<1>6. op_str_81 = First
  BY Zenon DEF op_str_81, First
<1> DEFINE l == disasm_81(c)
           n == c[2]
           w == First[(n % 4) + 1]
<1>7. /\ n \in 0 .. 3 => l = Line(3, Ins("SLC", w, None, None, Span(7), 0))
      /\ n \in 4 .. 7 => l = Line(3, Ins("SRC", w, None, None, Span(7), 0))
  BY Zenon, <1>1, <1>3, <1>6, Numerals DEF disasm_81
<1>8. n \in 12 .. 15 => l = Line(3, Ins("SRB", w, None, None, Span(7), 0))
  BY Zenon, <1>1, <1>3, <1>6, Numerals DEF disasm_81
<1>9. n = 8 => l = Line(6, Ins(IF c[4] < 8 THEN "+CON" ELSE "-CON", First[(c[4] % 4) + 1],
                               None, None, Span(c[3]), c[5] + 1))
  BY Zenon, <1>1, <1>4, <1>6, Numerals DEF disasm_81
<1>10. n = 9 => l = Line(4, Ins("SRB", "B", None, None, Span(c[3]), 0))
  BY Zenon, <1>1, <1>4, <1>5, <1>6, Numerals DEF disasm_81
<1>11. /\ n = 10 => l = disasm_81a(c)
       /\ n = 11 => l = IF c[3] \in 2 .. 7 THEN Line(4, Plain(in_str_81b[c[3]])) ELSE Blank(4)
  BY Zenon, <1>1, <1>2, Numerals DEF disasm_81
<1> HIDE DEF l
<1> QED BY Zenon, <1>7, <1>8, <1>9, <1>10, <1>11 DEF l

LEMMA Agree81a ==
  ASSUME NEW m \in Modes, NEW p \in Int, NEW c \in Codes, c[0] = 8, c[1] = 1, c[2] = 10
  PROVE  Agree(m, p, Group81(c), disasm_81(c), c)
<1> DEFINE e == Group81(c)
           l == disasm_81(c)
           w == IF c[5] < 8 THEN "A" ELSE "C"
           s == Scratch5[(c[5] % 8) + 1]
           f == Span(c[3])
           i == CASE c[4] = 0 -> Ins("=", s, w, None, f, 0)
                  [] c[4] = 1 -> Ins("=", w, s, None, f, 0)
                  [] c[4] = 2 -> Ins("EX", w, s, None, f, 0)
<1>1. e = IF c[4] > 2 THEN Illegal(6) ELSE At(6, ScratchMove(c[4], c[5], c[3]))
  BY Zenon, Executes81
<1>2. ScratchMove(c[4], c[5], c[3]) = i
  BY Zenon DEF ScratchMove, On
<1>3. l = disasm_81a(c)
  BY Zenon, Lists81
<1>4. l = IF c[4] > 2 THEN Blank(5) ELSE IF c[5] % 8 > 4 THEN Blank(6) ELSE Line(6, i)
  <2>1. ~(c[5] % 8 > 4) => <<"R0", "R1", "R2", "R3", "R4">>[(c[5] % 8) + 1] = s
    BY Digit DEF Scratch5
  <2>2. append_field(c[3]) = f
    BY Digit, FieldNamed
  <2>3. CASE c[4] > 2
    BY Zenon, <1>3, <2>3 DEF disasm_81a
  <2>4. CASE ~(c[4] > 2)
    <3>1. c[4] = 0 \/ c[4] = 1 \/ c[4] = 2
      BY <2>4, Digit
    <3> QED BY Zenon, <1>3, <2>1, <2>2, <2>4, <3>1, Numerals DEF disasm_81a
  <2> QED BY Zenon, <2>3, <2>4
<1>5. ~(c[4] > 2) => i.op \in {"=", "EX"}
  <2> SUFFICES ASSUME ~(c[4] > 2) PROVE i.op \in {"=", "EX"}
    OBVIOUS
  <2>1. c[4] = 0 \/ c[4] = 1 \/ c[4] = 2
    BY Digit
  <2>2. \/ i = Ins("=", s, w, None, f, 0)
        \/ i = Ins("=", w, s, None, f, 0)
        \/ i = Ins("EX", w, s, None, f, 0)
    BY Zenon, <2>1, Numerals
  <2> HIDE DEF i, s, w, f
  <2> QED BY <2>2 DEF Ins
<1> HIDE DEF e, l, i
<1>6. e.to = l.to
  BY <1>1, <1>4 DEF Illegal, At, Blank, Line, JumpLine, Target
<1>7. UnnamedAt(c) <=> ~(c[4] > 2) /\ c[5] % 8 > 4
  <2>1. c[4] <= 2 <=> ~(c[4] > 2)
    BY Digit
  <2> QED BY Zenon, <2>1 DEF UnnamedAt
<1>8. ASSUME c[4] > 2 PROVE Agree(m, p, e, l, c)
  <2>1. e.ins = Plain("illegal") /\ l.ins = Plain("illegal")
    BY <1>1, <1>4, <1>8 DEF Illegal, At, Blank, Line, JumpLine, Target
  <2>2. e.ins.op = "illegal" /\ l.ins.op = "illegal"
    BY <2>1 DEF Plain, Ins
  <2>3. ~UnnamedAt(c) /\ ~CrashesAt(e, c) /\ ~MisnamedAt(m, e, c)
    BY <1>7, <1>8, <2>2 DEF CrashesAt, MisnamedAt
  <2>4. Covered(e) /\ LengthAgrees(e, l, c) /\ TargetAgrees(p, e, l)
    BY <1>6, <2>2 DEF Covered, LengthAgrees, TargetAgrees
  <2>5. WorkAgrees(m, p, e, l, c)
    BY <2>1, <2>3 DEF WorkAgrees, SameIns
  <2>6. BlankAgrees(e, l, c)
    BY <2>2, <2>3 DEF BlankAgrees
  <2> QED BY Zenon, <2>4, <2>5, <2>6 DEF Agree
<1>9. ASSUME ~(c[4] > 2) PROVE Agree(m, p, e, l, c)
  <2>1. /\ e.ins = i /\ e.len = 6 /\ l.next = 6
        /\ l.ins = IF c[5] % 8 > 4 THEN Plain("illegal") ELSE i
    BY <1>1, <1>2, <1>4, <1>9 DEF At, Blank, Line, JumpLine, Target
  <2>2. Plain("illegal").op = "illegal" /\ i.op \in {"=", "EX"}
    BY <1>5, <1>9 DEF Plain, Ins
  <2>3. ~TooShortAt(e, c) /\ ~CrashesAt(e, c) /\ ~MisnamedAt(m, e, c)
    BY <2>1, <2>2 DEF TooShortAt, CrashesAt, MisnamedAt
  <2>4. SameIns(e.ins, l.ins) <=> ~UnnamedAt(c)
    <3>1. SameIns(e.ins, l.ins) => e.ins.op = l.ins.op
      BY Zenon, SameOp
    <3>2. CASE c[5] % 8 > 4
      BY <1>7, <1>9, <2>1, <2>2, <3>1, <3>2
    <3>3. CASE ~(c[5] % 8 > 4)
      BY <1>7, <2>1, <3>3 DEF SameIns
    <3> QED BY <3>2, <3>3
  <2>5. l.ins.op # "NOP3" /\ l.ins.op # "crash" /\ (l.ins.op = "illegal" <=> UnnamedAt(c))
    BY <1>7, <1>9, <2>1, <2>2
  <2>6. e.ins.op \notin {"RSI", "illegal"}
    BY <2>1, <2>2
  <2>7. Covered(e) /\ LengthAgrees(e, l, c) /\ TargetAgrees(p, e, l)
    BY <1>6, <2>1, <2>3, <2>6 DEF Covered, LengthAgrees, TargetAgrees
  <2>8. WorkAgrees(m, p, e, l, c)
    BY Zenon, <2>3, <2>4, <2>5 DEF WorkAgrees, NextNibble
  <2>9. BlankAgrees(e, l, c)
    BY <2>3, <2>5, <2>6 DEF BlankAgrees
  <2> QED BY Zenon, <2>7, <2>8, <2>9 DEF Agree
<1>10. Agree(m, p, e, l, c)
  BY Zenon, <1>8, <1>9
<1> USE DEF e, l
<1> QED BY <1>10

LEMMA Agree819 ==
  ASSUME NEW m \in Modes, NEW p \in Int, NEW c \in Codes, c[0] = 8, c[1] = 1, c[2] = 9
  PROVE  Agree(m, p, Group81(c), disasm_81(c), c)
<1> DEFINE e == Group81(c)
           l == disasm_81(c)
           w == First[(c[4] % 4) + 1]
           f == Span(c[3])
<1>1. e = At(5, Ins("SRB", w, None, None, f, 0)) /\ l = Line(4, Ins("SRB", "B", None, None, f, 0))
  BY Zenon, Executes81, Lists81
<1>2. w = "B" <=> c[4] % 4 = 1
  BY Digit DEF First
<1> HIDE DEF e, l, w, f
<1>3. /\ e.len = 5 /\ l.next = 4 /\ e.to = l.to
      /\ e.ins = Ins("SRB", w, None, None, f, 0) /\ l.ins = Ins("SRB", "B", None, None, f, 0)
  BY <1>1 DEF At, Line, JumpLine, Target
<1>4. e.ins.op = "SRB" /\ l.ins.op = "SRB" /\ (e.ins = l.ins <=> w = "B")
  BY <1>3 DEF Ins
<1>5. SameIns(e.ins, l.ins) <=> w = "B"
  BY <1>4 DEF SameIns, Symmetric
<1>6. TooShortAt(e, c) /\ ~UnnamedAt(c) /\ ~CrashesAt(e, c) /\ (MisnamedAt(m, e, c) <=> ~(w = "B"))
  BY <1>2, <1>4 DEF TooShortAt, UnnamedAt, CrashesAt, MisnamedAt
<1>7. Agree(m, p, e, l, c)
  BY <1>3, <1>4, <1>5, <1>6 DEF Agree, Covered, LengthAgrees, TargetAgrees, WorkAgrees, BlankAgrees, NextNibble
<1> USE DEF e, l
<1> QED BY <1>7

LEMMA Agree81 ==
  ASSUME NEW m \in Modes, NEW p \in Int, NEW c \in Codes, c[0] = 8, c[1] = 1
  PROVE  Agree(m, p, Group81(c), disasm_81(c), c)
<1> DEFINE e == Group81(c)
           l == disasm_81(c)
           n == c[2]
<1>1. CASE n \notin {9, 10}
  <2>1. Same(e, l) /\ e.ins.op \notin Special
    <3>1. CASE n \in 0 .. 8 \cup 12 .. 15
      <4> DEFINE o == IF n \in 0 .. 3 THEN "SLC" ELSE IF n \in 4 .. 7 THEN "SRC"
                      ELSE IF n \in 12 .. 15 THEN "SRB"
                      ELSE IF c[4] < 8 THEN "+CON" ELSE "-CON"
                 k == IF n = 8 THEN 6 ELSE 3
                 w == IF n = 8 THEN First[(c[4] % 4) + 1] ELSE First[(n % 4) + 1]
                 f == IF n = 8 THEN Span(c[3]) ELSE Span(7)
                 v == IF n = 8 THEN c[5] + 1 ELSE 0
                 i == Ins(o, w, None, None, f, v)
      <4>1. /\ n \in 0 .. 3 \/ n \in 4 .. 7 \/ n \in 12 .. 15 \/ n = 8
            /\ n \in 0 .. 3 => n # 8
            /\ n \in 4 .. 7 => n # 8 /\ n \notin 0 .. 3
            /\ n \in 12 .. 15 => n # 8 /\ n \notin 0 .. 3 /\ n \notin 4 .. 7
        BY <3>1
      <4>2. e = At(k, i)
        BY Zenon, <4>1, Executes81
      <4>3. l = Line(k, i)
        BY Zenon, <4>1, Lists81
      <4>4. o \in {"SLC", "SRC", "SRB", "+CON", "-CON"}
        OBVIOUS
      <4> HIDE DEF e, l, o, k, w, f, v
      <4> QED BY <4>2, <4>3, <4>4 DEF At, Line, JumpLine, Target, Ins, Same, Special
    <3>2. CASE n = 11
      <4> DEFINE o == IF c[3] \in 2 .. 7 THEN in_str_81b[c[3]] ELSE "illegal"
      <4>1. e = At(4, Plain(o))
        BY Zenon, <3>2, Executes81 DEF Illegal
      <4>2. l = Line(4, Plain(o))
        BY Zenon, <3>2, Lists81 DEF Blank
      <4>3. o \in {"PC=A", "PC=C", "A=PC", "C=PC", "APCEX", "CPCEX", "illegal"}
        BY DEF in_str_81b
      <4> HIDE DEF e, l, o
      <4> QED BY <4>1, <4>2, <4>3 DEF At, Line, JumpLine, Target, Plain, Ins, Same, Special
    <3> QED BY <1>1, <3>1, <3>2, Digit
  <2>2. ~(c[0] = 1) /\ ~(c[1] = 13) /\ ~TooShortAt(e, c)
    BY <1>1 DEF TooShortAt
  <2> QED BY Zenon, <1>1, <2>1, <2>2, SameAgree
<1>2. CASE n = 9
  BY <1>2, Agree819
<1>3. CASE n = 10
  BY <1>3, Agree81a
<1> QED BY <1>1, <1>2, <1>3

-----------------------------------------------------------------------------
(* The rest of group 8: the flags and P, and the long jumps.               *)
LEMMA AgreeFlags ==
  ASSUME NEW m \in Modes, NEW p \in Int, NEW c \in Codes, c[0] = 8, c[1] \in {2, 3, 4, 5, 6, 7, 8, 9}
  PROVE  Agree(m, p, Group8(p, c), disasm_8(m, p, c), c)
<1> DEFINE e == Group8(p, c)
           l == disasm_8(m, p, c)
           b == Branch(p, c, 3)
           t == GoYes(p + 3, Read(c, 3, 2), 3)
           o == CASE c[1] = 2 -> "HST=0" [] c[1] = 3 -> "?HST=0" [] c[1] = 4 -> "ST=0" [] c[1] = 5 -> "ST=1"
                  [] c[1] = 6 -> "?ST=0" [] c[1] = 7 -> "?ST=1" [] c[1] = 8 -> "?P#" [] c[1] = 9 -> "?P="
<1>1. o \in {"HST=0", "?HST=0", "ST=0", "ST=1", "?ST=0", "?ST=1", "?P#", "?P="}
  BY Zenon, Numerals
<1>2. Same(e, l) /\ e.ins.op = o
  <2>1. CASE c[1] \in {2, 4, 5}
    <3>1. e = At(3, With(o, None, c[2]))
      BY Zenon, <2>1, Executes8, Numerals
    <3>2. l = Line(3, With(o, None, c[2]))
      BY Zenon, <2>1, Lists8, Numerals
    <3> HIDE DEF e, l, o
    <3> QED BY <3>1, <3>2 DEF At, Line, JumpLine, Target, With, Ins, Same
  <2>2. CASE c[1] \in {3, 6, 7, 8, 9}
    <3>1. FlagTests[c[1]] = o
      BY Zenon, <2>2, Numerals DEF FlagTests
    <3>2. e = Jump(5, With(o, None, c[2]), b)
      BY Zenon, <2>2, <3>1, Executes8
    <3>3. b = t.to
      BY SameBranch
    <3>4. l = disasm_test(p, c)
      BY Zenon, <2>2, Lists8
    <3>5. l = JumpLine(5, With(o, None, c[2]), t)
      BY Zenon, <2>2, <3>4, Numerals DEF disasm_test
    <3> HIDE DEF e, l, o, b, t
    <3> QED BY <3>2, <3>3, <3>5 DEF Jump, JumpLine, With, Ins, Same
  <2>3. c[1] \in {2, 4, 5} \/ c[1] \in {3, 6, 7, 8, 9}
    OBVIOUS
  <2> QED BY Zenon, <2>1, <2>2, <2>3
<1>3. e.ins.op \notin Special /\ ~TooShortAt(e, c) /\ ~(c[0] = 1) /\ ~(c[1] = 1) /\ ~(c[1] = 13)
  <2> HIDE DEF e, l, o
  <2> QED BY <1>1, <1>2 DEF Special, TooShortAt
<1> QED BY Zenon, <1>2, <1>3, SameAgree

LEMMA AgreeLong ==
  ASSUME NEW m \in Modes, NEW p \in Int, NEW c \in Codes, c[0] = 8, c[1] \in 12 .. 15
  PROVE  Agree(m, p, LongJumps(p, c), disasm_jump(p, c), c)
<1> DEFINE e == LongJumps(p, c)
           l == disasm_jump(p, c)
           a == IF c[1] = 12 THEN Relative(p, 2, c, 2, 4)
                ELSE IF c[1] = 14 THEN Relative(p, 6, c, 2, 4) ELSE Read(c, 2, 5)
           t == IF c[1] = 12 THEN append_r_addr(p + 2, Read(c, 2, 4), 4, 2)
                ELSE IF c[1] = 14 THEN append_r_addr(p + 6, Read(c, 2, 4), 4, 6)
                ELSE Target(Read(c, 2, 5), NoDistance)
           n == IF c[1] \in {12, 14} THEN 6 ELSE 7
           o == CASE c[1] = 12 -> "GOLONG" [] c[1] = 13 -> "GOVLNG" [] c[1] = 14 -> "GOSUBL" [] c[1] = 15 -> "GOSBVL"
           h == IF c[1] = 13 THEN "GOSBVL" ELSE o
<1>a. c[1] = 12 \/ c[1] = 13 \/ c[1] = 14 \/ c[1] = 15
  OBVIOUS
<1>1. e = Jump(n, Plain(o), a)
  <2>1. LongBase(TRUE) = 6 /\ LongBase(FALSE) = 2
    BY DEF LongBase
  <2> QED BY Zenon, <1>a, <2>1, Numerals DEF LongJumps
<1>2. l = JumpLine(n, Plain(h), t)
  BY Zenon, <1>a, Numerals DEF disasm_jump
<1>b. a = t.to
  <2>1. Read(c, 2, 4) \in Nat
    BY ReadIsNat
  <2>2. /\ append_r_addr(p + 6, Read(c, 2, 4), 4, 6).to = Relative(p, 6, c, 2, 4)
        /\ append_r_addr(p + 2, Read(c, 2, 4), 4, 2).to = Relative(p, 2, c, 2, 4)
    BY <2>1, SameDisplacement DEF Relative
  <2>3. Target(Read(c, 2, 5), NoDistance).to = Read(c, 2, 5)
    BY DEF Target
  <2> QED BY Zenon, <1>a, <2>2, <2>3, Numerals
<1>3. o \in {"GOLONG", "GOVLNG", "GOSUBL", "GOSBVL"} /\ (c[1] = 13 <=> o = "GOVLNG")
  BY Zenon, <1>a, Numerals
<1>4. h = IF o = "GOVLNG" THEN "GOSBVL" ELSE o
  BY Zenon, <1>3
<1> HIDE DEF e, l, a, t, n, o, h
<1>5. e.len = l.next /\ e.to = l.to /\ e.ins = Plain(o) /\ l.ins = Plain(h)
  BY <1>1, <1>2, <1>b DEF Jump, JumpLine
<1>6. e.ins.op = o /\ l.ins.op = h
  BY <1>5 DEF Plain, Ins
<1>7. SameIns(e.ins, l.ins) <=> o # "GOVLNG"
  <2>1. o # "GOVLNG" => SameIns(e.ins, l.ins)
    BY Zenon, <1>4, <1>5 DEF SameIns
  <2>2. "GOVLNG" # "GOSBVL"
    OBVIOUS
  <2>3. SameIns(e.ins, l.ins) => e.ins.op = l.ins.op
    BY Zenon, SameOp
  <2> QED BY Zenon, <1>4, <1>6, <2>1, <2>2, <2>3
<1>8. ~TooShortAt(e, c) /\ ~UnnamedAt(c) /\ ~CrashesAt(e, c) /\ (MisnamedAt(m, e, c) <=> o = "GOVLNG")
  BY <1>3, <1>6 DEF TooShortAt, UnnamedAt, CrashesAt, MisnamedAt
<1>9. h \notin {"NOP3", "illegal", "crash"}
  BY <1>3, <1>4
<1>10. Agree(m, p, e, l, c)
  BY <1>3, <1>5, <1>6, <1>7, <1>8, <1>9 DEF Agree, Covered, LengthAgrees, TargetAgrees, WorkAgrees, BlankAgrees, NextNibble
<1> USE DEF e, l
<1> QED BY <1>10

(* For every code and every address the two readers agree.                 *)
LEMMA Agreement ==
  ASSUME NEW m \in Modes, NEW p \in Int, NEW c \in Codes
  PROVE  Agree(m, p, step_instruction(p, c), disassemble(m, p, c), c)
<1> DEFINE e == step_instruction(p, c)
           l == disassemble(m, p, c)
<1>1. CASE c[0] = 0
  <2>1. e = Group0(c) /\ l = disasm_0(m, c)
    BY Zenon, <1>1, Executes, Lists
  <2>2. Agree(m, p, Group0(c), disasm_0(m, c), c)
    BY <1>1, Agree0
  <2> QED BY Zenon, <2>1, <2>2
<1>2. CASE c[0] = 1
  <2>1. e = Group1(c) /\ l = disasm_1(c)
    BY Zenon, <1>2, Executes, Lists
  <2>2. Agree(m, p, Group1(c), disasm_1(c), c)
    BY <1>2, Agree1
  <2> QED BY Zenon, <2>1, <2>2
<1>3. CASE c[0] \in 2 .. 7
  BY <1>3, AgreeJumps
<1>4. CASE c[0] = 8
  <2>1. e = Group8(p, c)
    BY Zenon, <1>4, Executes
  <2>2. CASE c[1] \in {10, 11}
    <3>1. l = disasm_9(p, c)
      BY Zenon, <1>4, <2>2, Lists
    <3>2. e = Jump(5, Test(c[1] = 11, c[2], 15), Branch(p, c, 3))
      BY Zenon, <2>1, <2>2, Executes8 DEF A_FIELD
    <3>3. (c[1] = 11) \in BOOLEAN /\ 15 \in 0 .. 15
      OBVIOUS
    <3>4. Agree(m, p, Jump(5, Test(c[1] = 11, c[2], 15), Branch(p, c, 3)), disasm_9(p, c), c)
      BY Zenon, <1>4, <2>2, <3>3, AgreeTests
    <3> QED BY Zenon, <3>1, <3>2, <3>4
  <2>3. CASE c[1] \notin {10, 11}
    <3>1. l = disasm_8(m, p, c)
      BY Zenon, <1>4, <2>3, Lists
    <3>2. Agree(m, p, Group8(p, c), disasm_8(m, p, c), c)
      <4>1. CASE c[1] = 0
        <5>1. Group8(p, c) = Group80(p, c) /\ disasm_8(m, p, c) = disasm_80(m, p, c)
          BY Zenon, <4>1, Executes8, Lists8
        <5>2. Agree(m, p, Group80(p, c), disasm_80(m, p, c), c)
          BY <1>4, <4>1, Agree80
        <5> QED BY Zenon, <5>1, <5>2
      <4>2. CASE c[1] = 1
        <5>1. Group8(p, c) = Group81(c) /\ disasm_8(m, p, c) = disasm_81(c)
          BY Zenon, <4>2, Executes8, Lists8
        <5>2. Agree(m, p, Group81(c), disasm_81(c), c)
          BY <1>4, <4>2, Agree81
        <5> QED BY Zenon, <5>1, <5>2
      <4>3. CASE c[1] \in {2, 3, 4, 5, 6, 7, 8, 9}
        BY <1>4, <4>3, AgreeFlags
      <4>4. CASE c[1] \in 12 .. 15
        <5>1. Group8(p, c) = LongJumps(p, c) /\ disasm_8(m, p, c) = disasm_jump(p, c)
          BY Zenon, <4>4, Executes8, Lists8
        <5>2. Agree(m, p, LongJumps(p, c), disasm_jump(p, c), c)
          BY <1>4, <4>4, AgreeLong
        <5> QED BY Zenon, <5>1, <5>2
      <4>5. c[1] = 0 \/ c[1] = 1 \/ c[1] \in {2, 3, 4, 5, 6, 7, 8, 9} \/ c[1] \in 12 .. 15
        BY <2>3, Digit
      <4> QED BY Zenon, <4>1, <4>2, <4>3, <4>4, <4>5
    <3> QED BY Zenon, <2>1, <3>1, <3>2
  <2> QED BY <2>2, <2>3
<1>5. CASE c[0] = 9
  <2>a. l = disasm_9(p, c)
    BY Zenon, <1>5, Lists
  <2>b. e = Jump(5, Test(c[1] >= 8, c[2], c[1] % 8), Branch(p, c, 3))
    BY Zenon, <1>5, Executes
  <2>2. (c[1] >= 8) \in BOOLEAN /\ c[1] % 8 \in 0 .. 15
    BY Digit
  <2>3. Agree(m, p, Jump(5, Test(c[1] >= 8, c[2], c[1] % 8), Branch(p, c, 3)), disasm_9(p, c), c)
    BY Zenon, <1>5, <2>2, AgreeTests
  <2> QED BY Zenon, <2>a, <2>b, <2>3
<1>6. CASE c[0] \in 10 .. 15
  BY <1>6, AgreeFields
<1>7. c[0] = 0 \/ c[0] = 1 \/ c[0] \in 2 .. 7 \/ c[0] = 8 \/ c[0] = 9 \/ c[0] \in 10 .. 15
  BY Digit
<1> QED BY Zenon, <1>1, <1>2, <1>3, <1>4, <1>5, <1>6, <1>7

-----------------------------------------------------------------------------
(* The distance disassemble prints leads to the address it prints.         *)
DistanceLeads(p, l) == l.by # NoDistance => l.to = (p + l.by) % AddressSpace

LEMMA DisplacementLeads ==
  ASSUME NEW p \in 0 .. AddressSpace - 1, NEW v \in Nat, NEW n \in {2, 3, 4}, NEW o \in Nat,
         NEW i, NEW k
  PROVE  DistanceLeads(p, JumpLine(k, i, append_r_addr(p + o, v, n, o)))
<1> DEFINE d == IF v >= 2^(4 * n - 1) THEN v - 2^(4 * n) ELSE v
           t == append_r_addr(p + o, v, n, o)
<1>1. d \in Int
  <2>1. 2^(4 * n - 1) \in Int /\ 2^(4 * n) \in Int
    OBVIOUS
  <2> QED BY <2>1
<1>2. t = Target((p + o + d) % AddressSpace,
                 IF d < 0 THEN -((-d - o) % AddressSpace) ELSE (d + o) % AddressSpace)
  BY Zenon DEF append_r_addr
<1> HIDE DEF d, t
<1>3. /\ t.to = (p + o + d) % AddressSpace
      /\ t.by = IF d < 0 THEN -((-d - o) % AddressSpace) ELSE (d + o) % AddressSpace
  BY <1>2 DEF Target
<1>4. (p + o + d) % AddressSpace = (p - ((-d - o) % AddressSpace)) % AddressSpace
  BY <1>1 DEF AddressSpace
<1>5. (p + o + d) % AddressSpace = (p + ((d + o) % AddressSpace)) % AddressSpace
  BY <1>1 DEF AddressSpace
<1>6. (-d - o) % AddressSpace \in Int /\ p \in Int
  BY <1>1 DEF AddressSpace
<1>7. t.to = (p + t.by) % AddressSpace
  BY <1>1, <1>3, <1>4, <1>5, <1>6
<1>8. JumpLine(k, i, t).to = t.to /\ JumpLine(k, i, t).by = t.by
  BY DEF JumpLine
<1> QED BY <1>7, <1>8 DEF DistanceLeads, t

LEMMA NoDistanceLeads ==
  ASSUME NEW p, NEW i, NEW k
  PROVE  DistanceLeads(p, Line(k, i))
BY DEF DistanceLeads, Line, JumpLine, Target

LEMMA BranchLeads ==
  ASSUME NEW p \in 0 .. AddressSpace - 1, NEW v \in Nat, NEW o \in Nat, NEW i, NEW k
  PROVE  DistanceLeads(p, JumpLine(k, i, GoYes(p + o, v, o)))
<1>1. CASE v = 0
  BY <1>1 DEF DistanceLeads, GoYes, JumpLine, Target
<1>2. CASE v # 0
  <2>1. GoYes(p + o, v, o) = append_r_addr(p + o, v, 2, o)
    BY Zenon, <1>2 DEF GoYes
  <2>2. 2 \in {2, 3, 4}
    OBVIOUS
  <2> QED BY Zenon, <2>1, <2>2, DisplacementLeads
<1> QED BY <1>1, <1>2

LEMMA EveryDistanceLeads ==
  ASSUME NEW m \in Modes, NEW p \in 0 .. AddressSpace - 1, NEW c \in Codes
  PROVE  DistanceLeads(p, disassemble(m, p, c))
<1> DEFINE l == disassemble(m, p, c)
<1>1. /\ Read(c, 1, 2) \in Nat /\ Read(c, 1, 3) \in Nat /\ Read(c, 3, 2) \in Nat
      /\ Read(c, 5, 2) \in Nat /\ Read(c, 2, 4) \in Nat
  BY ReadIsNat
<1>2. {1, 2, 3, 4, 5, 6} \subseteq Nat
  OBVIOUS
<1>3. CASE c[0] \in {0, 2, 3} \cup 10 .. 15
  <2>1. \E k, i : l = Line(k, i)
    <3>1. CASE c[0] = 0
      <4>1. l = disasm_0(m, c)
        BY Zenon, <3>1, Lists
      <4> QED BY Zenon, <4>1 DEF disasm_0
    <3>2. CASE c[0] \in {2, 3}
      BY Zenon, <3>2, Lists
    <3>3. CASE c[0] \in 10 .. 15
      <4>1. l = disasm_af(m, c)
        BY Zenon, <3>3, Lists
      <4> QED BY Zenon, <4>1 DEF disasm_af
    <3> QED BY <1>3, <3>1, <3>2, <3>3
  <2> QED BY Zenon, <2>1, NoDistanceLeads
<1>4. CASE c[0] = 1
  <2>1. l = disasm_1(c)
    BY Zenon, <1>4, Lists
  <2>2. c[1] \in 0 .. 2 \/ c[1] = 3 \/ c[1] = 4 \/ c[1] = 5 \/ c[1] \in {6, 7, 8, 12}
        \/ c[1] \in {9, 10, 11, 13, 14, 15}
    BY Digit
  <2>3. c[1] \in 0 .. 2 \/ c[1] = 3 \/ c[1] = 4 \/ c[1] = 5 => \E k, i : l = Line(k, i)
    BY Zenon, <2>1, Lists1
  <2>4. c[1] \in {6, 7, 8, 12} => \E k, i : l = Line(k, i)
    BY Zenon, <2>1, Lists1 DEF disasm_step
  <2>5. c[1] \in {9, 10, 11, 13, 14, 15} => \E k, i : l = Line(k, i)
    BY Zenon, <2>1, Lists1 DEF disasm_load
  <2>6. \E k, i : l = Line(k, i)
    BY Zenon, <2>2, <2>3, <2>4, <2>5
  <2> QED BY Zenon, <2>6, NoDistanceLeads
<1>5. CASE c[0] \in {4, 5}
  <2>1. l = disasm_carry(p, c)
    BY Zenon, <1>5, Lists
  <2>2. \/ \E i : l = Line(3, i)
        \/ \E i : l = JumpLine(3, i, GoYes(p + 1, Read(c, 1, 2), 1))
    BY Zenon, <2>1 DEF disasm_carry
  <2> QED BY Zenon, <1>1, <1>2, <2>2, NoDistanceLeads, BranchLeads
<1>6. CASE c[0] = 6
  <2>1. l = disasm_goto(p, c)
    BY Zenon, <1>6, Lists
  <2>2. \/ \E i : l = Line(4, i)
        \/ \E i : l = JumpLine(4, i, append_r_addr(p + 1, Read(c, 1, 3), 3, 1))
    <3>1. 3 # 4
      OBVIOUS
    <3> QED BY Zenon, <2>1, <3>1 DEF disasm_goto
  <2> QED BY Zenon, <1>1, <1>2, <2>2, NoDistanceLeads, DisplacementLeads
<1>7. CASE c[0] = 7
  <2>1. l = disasm_gosub(p, c)
    BY Zenon, <1>7, Lists
  <2>2. \E i : l = JumpLine(4, i, append_r_addr(p + 4, Read(c, 1, 3), 3, 4))
    BY Zenon, <2>1 DEF disasm_gosub
  <2> QED BY Zenon, <1>1, <1>2, <2>2, DisplacementLeads
<1>8. CASE c[0] = 9 \/ (c[0] = 8 /\ c[1] \in {10, 11})
  <2>1. l = disasm_9(p, c)
    BY Zenon, <1>8, Lists
  <2>2. \E i : l = JumpLine(5, i, GoYes(p + 3, Read(c, 3, 2), 3))
    BY Zenon, <2>1 DEF disasm_9
  <2> QED BY Zenon, <1>1, <1>2, <2>2, BranchLeads
<1>9. CASE c[0] = 8 /\ c[1] \notin {10, 11}
  <2>1. l = disasm_8(m, p, c)
    BY Zenon, <1>9, Lists
  <2>2. c[1] \in {0, 1, 2} \/ c[1] \in {4, 5} \/ c[1] \in {3, 6, 7, 8, 9} \/ c[1] \in 12 .. 15
    BY <1>9, Digit
  <2>3. CASE c[1] = 0
    <3>1. l = disasm_80(m, p, c)
      BY Zenon, <2>1, <2>3, Lists8
    <3>2. CASE c[2] # 8
      <4>1. \E k, i : l = Line(k, i)
        BY Zenon, <3>1, <3>2, Lists80
      <4> QED BY Zenon, <4>1, NoDistanceLeads
    <3>3. CASE c[2] = 8
      <4>1. l = disasm_808(p, c)
        BY Zenon, <3>1, <3>3, Lists80
      <4>2. \/ c[3] = 1 \/ c[3] = 2 \/ c[3] \in {4, 8} \/ c[3] \in {5, 9} \/ c[3] \in {6, 10}
            \/ c[3] \in {7, 11} \/ c[3] \in {0, 3, 12, 13, 14, 15}
        BY Digit
      <4>3. c[3] = 1 => \E k, i : l = Line(k, i)
        BY Zenon, <4>1, Lists808 DEF Crash
      <4>4. c[3] = 2 \/ c[3] \in {4, 8} \/ c[3] \in {5, 9} \/ c[3] \in {0, 3, 12, 13, 14, 15} =>
              \E k, i : l = Line(k, i)
        BY Zenon, <4>1, Lists808
      <4>5. c[3] \in {6, 10} \/ c[3] \in {7, 11} =>
              \E i : l = JumpLine(7, i, GoYes(p + 5, Read(c, 5, 2), 5))
        BY Zenon, <4>1, Lists808
      <4>6. \/ \E k, i : l = Line(k, i)
            \/ \E i : l = JumpLine(7, i, GoYes(p + 5, Read(c, 5, 2), 5))
        BY Zenon, <4>2, <4>3, <4>4, <4>5
      <4> QED BY Zenon, <1>1, <1>2, <4>6, NoDistanceLeads, BranchLeads
    <3> QED BY <3>2, <3>3
  <2>4. CASE c[1] = 1
    <3>1. l = disasm_81(c)
      BY Zenon, <2>1, <2>4, Lists8
    <3>2. \/ c[2] \in 0 .. 3 \/ c[2] \in 4 .. 7 \/ c[2] = 8 \/ c[2] = 9 \/ c[2] = 10 \/ c[2] = 11
          \/ c[2] \in 12 .. 15
      BY Digit
    <3>3. c[2] \in 0 .. 3 \/ c[2] \in 4 .. 7 \/ c[2] = 8 \/ c[2] = 9 \/ c[2] \in 12 .. 15 =>
            \E k, i : l = Line(k, i)
      BY Zenon, <3>1, Lists81
    <3>4. c[2] = 10 => \E k, i : l = Line(k, i)
      BY Zenon, <3>1, Lists81 DEF disasm_81a, Blank
    <3>5. c[2] = 11 => \E k, i : l = Line(k, i)
      BY Zenon, <3>1, Lists81 DEF Blank
    <3>6. \E k, i : l = Line(k, i)
      BY Zenon, <3>2, <3>3, <3>4, <3>5
    <3> QED BY Zenon, <3>6, NoDistanceLeads
  <2>5. CASE c[1] = 2 \/ c[1] \in {4, 5}
    <3>1. \E k, i : l = Line(k, i)
      BY Zenon, <2>1, <2>5, Lists8
    <3> QED BY Zenon, <3>1, NoDistanceLeads
  <2>6. CASE c[1] \in {3, 6, 7, 8, 9}
    <3>1. \E i : l = JumpLine(5, i, GoYes(p + 3, Read(c, 3, 2), 3))
      BY Zenon, <2>1, <2>6, Lists8 DEF disasm_test
    <3> QED BY Zenon, <1>1, <1>2, <3>1, BranchLeads
  <2>7. CASE c[1] \in 12 .. 15
    <3>1. l = disasm_jump(p, c)
      BY Zenon, <2>1, <2>7, Lists8
    <3>2. CASE c[1] = 12
      <4>1. \E i : l = JumpLine(6, i, append_r_addr(p + 2, Read(c, 2, 4), 4, 2))
        BY Zenon, <3>1, <3>2, Numerals DEF disasm_jump
      <4> QED BY Zenon, <1>1, <1>2, <4>1, DisplacementLeads
    <3>3. CASE c[1] = 14
      <4>1. \E i : l = JumpLine(6, i, append_r_addr(p + 6, Read(c, 2, 4), 4, 6))
        BY Zenon, <3>1, <3>3, Numerals DEF disasm_jump
      <4> QED BY Zenon, <1>1, <1>2, <4>1, DisplacementLeads
    <3>4. CASE c[1] \notin {12, 14}
      <4>1. \E k, i : l = JumpLine(k, i, Target(Read(c, 2, 5), NoDistance))
        BY Zenon, <3>1, <3>4 DEF disasm_jump
      <4> HIDE DEF l
      <4>2. DistanceLeads(p, l)
        BY <4>1 DEF DistanceLeads, JumpLine, Target
      <4> USE DEF l
      <4> QED BY <4>2
    <3> QED BY <3>2, <3>3, <3>4
  <2> QED BY Zenon, <2>2, <2>3, <2>4, <2>5, <2>6, <2>7
<1>10. \/ c[0] \in {0, 2, 3} \cup 10 .. 15 \/ c[0] = 1 \/ c[0] \in {4, 5} \/ c[0] = 6 \/ c[0] = 7
       \/ (c[0] = 9 \/ (c[0] = 8 /\ c[1] \in {10, 11})) \/ (c[0] = 8 /\ c[1] \notin {10, 11})
  BY Digit
<1> QED BY Zenon, <1>3, <1>4, <1>5, <1>6, <1>7, <1>8, <1>9, <1>10

-----------------------------------------------------------------------------
(* How far step_instruction reads at least, by what the first nibbles are. *)
LEMMA ReadsAtLeast ==
  ASSUME NEW p \in Int, NEW c \in Codes
  PROVE  LET len == step_instruction(p, c).len
         IN /\ c[0] \in {0, 1, 8} => len \in Nat
            /\ c[0] = 0 => len >= 2
            /\ c[0] = 1 => len >= 2
            /\ c[0] = 1 /\ c[1] < 3 => len >= 3
            /\ c[0] = 8 => len >= 3
            /\ c[0] = 8 /\ c[1] = 1 /\ c[2] = 9 => len >= 5
            /\ c[0] = 8 /\ c[1] = 1 /\ c[2] = 10 => len >= 6
<1> DEFINE e == step_instruction(p, c)
<1>1. CASE c[0] = 0
  <2>1. e = Group0(c)
    BY Zenon, <1>1, Executes
  <2> HIDE DEF e
  <2>2. e.len \in {2, 4}
    BY <2>1 DEF Group0, At
  <2> QED BY <1>1, <2>2 DEF e
<1>2. CASE c[0] = 1
  <2>1. e = Group1(c)
    BY Zenon, <1>2, Executes
  <2>2. CASE c[1] \in 0 .. 5
    <3>1. \E n \in {3, 4} : \E i : e = At(n, i)
      <4>1. c[1] \in 0 .. 2 \/ c[1] = 3 \/ c[1] = 4 \/ c[1] = 5
        BY <2>2
      <4> QED BY Zenon, <2>1, <4>1, Executes1
    <3> HIDE DEF e
    <3>2. e.len \in Nat /\ e.len >= 3
      BY <3>1 DEF At
    <3> QED BY <1>2, <3>2 DEF e
  <2>3. CASE c[1] \in {6, 7, 8, 12}
    <3>1. e = PointerStep(c)
      BY Zenon, <2>1, <2>3, Executes1
    <3> HIDE DEF e
    <3>2. e.len = 3
      BY <3>1 DEF PointerStep, At
    <3> QED BY <1>2, <3>2 DEF e
  <2>4. CASE c[1] \in {9, 10, 11, 13, 14, 15}
    <3>1. e = PointerLoad(c)
      BY Zenon, <2>1, <2>4, Executes1
    <3> DEFINE n == CASE c[1] \in {9, 13} -> 2 [] c[1] \in {10, 14} -> 4 [] c[1] \in {11, 15} -> 5
    <3>2. n = 2 \/ n = 4 \/ n = 5
      BY Zenon, <2>4, Numerals
    <3>3. \E i : e = At(2 + n, i)
      BY Zenon, <3>1 DEF PointerLoad
    <3> HIDE DEF e, n
    <3>4. e.len \in Nat /\ e.len >= 3
      BY <3>2, <3>3 DEF At
    <3> QED BY <1>2, <3>4 DEF e
  <2> QED BY <2>2, <2>3, <2>4, Digit
<1>3. CASE c[0] = 8
  <2>1. e = Group8(p, c)
    BY Zenon, <1>3, Executes
  <2>2. CASE c[1] = 0
    <3>1. e = Group80(p, c)
      BY Zenon, <2>1, <2>2, Executes8
    <3>2. \/ \E n \in {3, 4, 5} : \E i : e = At(n, i)
          \/ \E i, t : e = Jump(7, i, t)
          \/ e = ConstantLoad("A", 5, c[4])
      <4>1. CASE c[2] = 8
        <5>1. e = Group808(p, c)
          BY Zenon, <3>1, <4>1, Executes80
        <5>2. \/ c[3] = 1 \/ c[3] = 2 \/ c[3] \in {4, 8} \/ c[3] \in {5, 9} \/ c[3] \in {6, 10}
              \/ c[3] \in {7, 11} \/ c[3] \in {0, 3, 12, 13, 14, 15}
          BY Digit
        <5>3. c[3] \in {1} \cup {4, 8} \cup {5, 9} => \E i : e = At(5, i)
          BY Zenon, <5>1, Executes808
        <5>4. c[3] \in {0, 3, 12, 13, 14, 15} => \E i : e = At(4, i)
          BY Zenon, <5>1, Executes808
        <5>5. c[3] \in {6, 10} \cup {7, 11} => \E i, t : e = Jump(7, i, t)
          BY Zenon, <5>1, Executes808
        <5>6. c[3] = 2 => e = ConstantLoad("A", 5, c[4])
          BY Zenon, <5>1, Executes808
        <5> HIDE DEF e
        <5> QED BY Zenon, <5>2, <5>3, <5>4, <5>5, <5>6
      <4>2. CASE c[2] # 8
        BY Zenon, <3>1, <4>2, Executes80
      <4> QED BY <4>1, <4>2
    <3> HIDE DEF e
    <3>3. e.len \in Nat /\ e.len >= 3
      BY <3>2, Digit DEF At, Jump, ConstantLoad
    <3> QED BY <2>2, <1>3, <3>3 DEF e
  <2>3. CASE c[1] = 1
    <3>1. e = Group81(c)
      BY Zenon, <2>1, <2>3, Executes8
    <3>2. \E n \in {3, 4, 5, 6} : \E i : e = At(n, i)
      <4>1. \/ c[2] \in 0 .. 3 \/ c[2] \in 4 .. 7 \/ c[2] = 8 \/ c[2] = 9 \/ c[2] = 10 \/ c[2] = 11
            \/ c[2] \in 12 .. 15
        BY Digit
      <4>2. c[2] \in 0 .. 3 \cup 4 .. 7 \cup 12 .. 15 => \E i : e = At(3, i)
        BY Zenon, <3>1, Executes81
      <4>3. c[2] = 11 => \E i : e = At(4, i)
        BY Zenon, <3>1, Executes81 DEF Illegal
      <4>4. c[2] = 9 => \E i : e = At(5, i)
        BY Zenon, <3>1, Executes81
      <4>5. c[2] \in {8, 10} => \E i : e = At(6, i)
        BY Zenon, <3>1, Executes81 DEF Illegal
      <4> HIDE DEF e
      <4> QED BY Zenon, <4>1, <4>2, <4>3, <4>4, <4>5
    <3>3. c[2] = 9 => \E i : e = At(5, i)
      BY Zenon, <3>1, Executes81
    <3>4. c[2] = 10 => \E i : e = At(6, i)
      BY Zenon, <3>1, Executes81 DEF Illegal
    <3> HIDE DEF e
    <3>5. e.len \in {3, 4, 5, 6}
      BY <3>2 DEF At
    <3>6. (c[2] = 9 => e.len = 5) /\ (c[2] = 10 => e.len = 6)
      BY <3>3, <3>4 DEF At
    <3> QED BY <1>3, <3>5, <3>6 DEF e
  <2>4. CASE c[1] \in 2 .. 11
    <3>1. (\E i : e = At(3, i)) \/ (\E i, t : e = Jump(5, i, t))
      <4>1. c[1] = 2 \/ c[1] = 4 \/ c[1] = 5 \/ c[1] \in {3, 6, 7, 8, 9} \/ c[1] \in {10, 11}
        BY <2>4
      <4>2. c[1] \in {2, 4, 5} => \E i : e = At(3, i)
        BY Zenon, <2>1, Executes8
      <4>3. c[1] \in {3, 6, 7, 8, 9} => \E i, t : e = Jump(5, i, t)
        BY Zenon, <2>1, Executes8
      <4>4. c[1] \in {10, 11} => \E i, t : e = Jump(5, i, t)
        BY Zenon, <2>1, Executes8
      <4> HIDE DEF e
      <4> QED BY Zenon, <4>1, <4>2, <4>3, <4>4
    <3> HIDE DEF e
    <3>2. e.len \in Nat /\ e.len >= 3
      BY <3>1 DEF At, Jump
    <3> QED BY <1>3, <2>4, <3>2 DEF e
  <2>5. CASE c[1] \in 12 .. 15
    <3>1. e = LongJumps(p, c)
      BY Zenon, <2>1, <2>5, Executes8
    <3>2. \E n \in {6, 7} : \E i, t : e = Jump(n, i, t)
      <4>1. c[1] = 12 \/ c[1] = 13 \/ c[1] = 14 \/ c[1] = 15
        BY <2>5
      <4> QED BY Zenon, <3>1, <4>1, Numerals DEF LongJumps
    <3> HIDE DEF e
    <3>3. e.len \in Nat /\ e.len >= 3
      BY <3>2 DEF Jump
    <3> QED BY <1>3, <2>5, <3>3 DEF e
  <2> QED BY <2>2, <2>3, <2>4, <2>5, Digit
<1> QED BY <1>1, <1>2, <1>3

(* Addresses and nibbles stay what they are.                               *)
DecodeTypes ==
  /\ mode \in Modes
  /\ pc \in 0 .. AddressSpace - 1
  /\ code \in Seq(Nibble)

(* What has been looked at is the beginning of a code.                     *)
LEMMA CodeIsOne ==
  ASSUME code \in Seq(Nibble)
  PROVE  /\ Code \in Codes
         /\ \A i \in 0 .. 5 : i < Len(code) => code[i + 1] = Code[i]
<1>1. \A i \in 1 .. Len(code) : code[i] \in Nibble
  OBVIOUS
<1>2. Len(code) \in Nat /\ 0 \in Nibble
  BY DEF Nibble
<1> QED BY <1>1, <1>2 DEF Code, Codes, CodeSize

(* When both readers have what they need, the exceptions are told from     *)
(* nibbles that have been looked at.                                       *)
LEMMA LookedAt ==
  ASSUME DecodeTypes, Complete
  PROVE  /\ TooShort <=> TooShortAt(Decoded, Code)
         /\ Misnamed <=> MisnamedAt(mode, Decoded, Code)
         /\ Unnamed  <=> UnnamedAt(Code)
         /\ Crashes  <=> CrashesAt(Decoded, Code)
<1> DEFINE c == Code
           e == step_instruction(pc, c)
<1>1. /\ c \in Codes /\ pc \in Int /\ Len(code) \in Nat
      /\ \A i \in 0 .. 5 : i < Len(code) => code[i + 1] = c[i]
  BY CodeIsOne DEF DecodeTypes
<1>2. Len(code) >= e.len
  BY DEF Complete, Decoded
<1>3. Agree(mode, pc, e, disassemble(mode, pc, c), c)
  BY <1>1, Agreement DEF DecodeTypes
<1>4. e.ins.op = "RSI" => e.len = 5
  BY <1>3 DEF Agree, Covered
<1>5. Len(code) = 0 => c[0] = 0
  BY DEF Code, CodeSize
<1>6. /\ c[0] \in {0, 1, 8} => e.len \in Nat
      /\ c[0] = 0 => e.len >= 2
      /\ c[0] = 1 => e.len >= 2
      /\ c[0] = 1 /\ c[1] < 3 => e.len >= 3
      /\ c[0] = 8 => e.len >= 3
      /\ c[0] = 8 /\ c[1] = 1 /\ c[2] = 9 => e.len >= 5
      /\ c[0] = 8 /\ c[1] = 1 /\ c[2] = 10 => e.len >= 6
  BY <1>1, ReadsAtLeast
<1> HIDE DEF c
<1>7. Decoded = e
  BY DEF Decoded, c
<1> HIDE DEF e
<1>8. Len(code) >= 1
  <2>1. CASE Len(code) = 0
    <3>1. e.len \in Nat /\ e.len >= 2
      BY <1>5, <1>6, <2>1
    <3> QED BY <1>1, <1>2, <2>1, <3>1
  <2> QED BY <1>1, <2>1
<1>9. /\ code[1] = c[0]
      /\ c[0] \in {1, 8} => code[2] = c[1]
      /\ c[0] = 1 /\ c[1] < 3 => code[3] = c[2]
      /\ c[0] = 8 => code[3] = c[2]
      /\ c[0] = 8 /\ c[1] = 1 /\ c[2] = 9 => code[5] = c[4]
      /\ c[0] = 8 /\ c[1] = 1 /\ c[2] = 10 => code[5] = c[4] /\ code[6] = c[5]
      /\ e.ins.op = "RSI" => code[5] = c[4]
  BY <1>1, <1>2, <1>4, <1>6, <1>8
<1>10. TooShort <=> TooShortAt(Decoded, c)
  BY <1>7, <1>8, <1>9 DEF TooShort, TooShortAt
<1>11. Misnamed <=> MisnamedAt(mode, Decoded, c)
  BY <1>7, <1>8, <1>9 DEF Misnamed, MisnamedAt
<1>12. (Unnamed <=> UnnamedAt(c)) /\ (Crashes <=> CrashesAt(Decoded, c))
  BY <1>7, <1>8, <1>9 DEF Unnamed, UnnamedAt, Crashes, CrashesAt
<1> QED BY <1>10, <1>11, <1>12 DEF c

(* So the two readers agree on what is looked at.                          *)
LEMMA ReadersAgree ==
  ASSUME DecodeTypes, Complete
  PROVE  Agree(mode, pc, Decoded, Listed, Code)
<1>1. mode \in Modes /\ pc \in Int /\ Code \in Codes
  BY CodeIsOne DEF DecodeTypes
<1> QED BY Zenon, <1>1, Agreement DEF Decoded, Listed

-----------------------------------------------------------------------------
(* Whatever is looked at, at whatever address, and however the user        *)
(* changes the mnemonics, nibbles have been looked at.                     *)
THEOREM CodeIsOfNibbles == DecodeSpec => []DecodeTypes
<1>1. DecodeInit => DecodeTypes
  <2>1. <<>> \in Seq(Nibble)
    OBVIOUS
  <2> QED BY <2>1, DecodeAssumption DEF DecodeInit, DecodeTypes
<1>2. DecodeTypes /\ [DecodeNext]_decodeVars => DecodeTypes'
  <2> SUFFICES ASSUME DecodeTypes, [DecodeNext]_decodeVars PROVE DecodeTypes'
    OBVIOUS
  <2>1. CASE Fetch
    <3>1. PICK n \in Values : code' = Append(code, n)
      BY <2>1 DEF Fetch
    <3>2. n \in Nibble
      BY DecodeAssumption DEF Values, Nibble
    <3>3. code \in Seq(Nibble)
      BY DEF DecodeTypes
    <3>4. code' \in Seq(Nibble)
      BY <3>1, <3>2, <3>3
    <3> QED BY <2>1, <3>4 DEF Fetch, DecodeTypes
  <2>2. CASE Execute
    <3>1. <<>> \in Seq(Nibble)
      OBVIOUS
    <3> QED BY <2>2, <3>1, DecodeAssumption DEF Execute, DecodeTypes
  <2>3. CASE do_mode
    BY <2>3 DEF do_mode, DecodeTypes
  <2>4. CASE UNCHANGED decodeVars
    BY <2>4 DEF decodeVars, DecodeTypes
  <2> QED BY <2>1, <2>2, <2>3, <2>4 DEF DecodeNext
<1> QED BY <1>1, <1>2, PTL DEF DecodeSpec

(* For every instruction at every address, in both sets of mnemonics,      *)
(* disassemble takes as many nibbles as step_instruction, exactly but for  *)
(* those listed as too short and the one it crashes at.                    *)
THEOREM LengthHolds == DecodeSpec => []SameLength
<1>1. DecodeTypes => SameLength
  <2> SUFFICES ASSUME DecodeTypes, Complete, Decoded.ins.op # "illegal"
               PROVE  Decoded.len = Listed.next <=> ~TooShort /\ ~Crashes
    BY DEF SameLength
  <2>1. LengthAgrees(Decoded, Listed, Code)
    BY Zenon, ReadersAgree DEF Agree
  <2>2. (TooShort <=> TooShortAt(Decoded, Code)) /\ (Crashes <=> CrashesAt(Decoded, Code))
    BY Zenon, LookedAt
  <2> QED BY Zenon, <2>1, <2>2 DEF LengthAgrees
<1> QED BY <1>1, CodeIsOfNibbles, PTL

(* Both go to the same address, whatever displacement there is and         *)
(* whichever nibble it is relative to, and the distance that disassemble   *)
(* prints leads there.                                                     *)
THEOREM TargetHolds == DecodeSpec => []SameTarget
<1>1. DecodeTypes => SameTarget
  <2> SUFFICES ASSUME DecodeTypes, Complete
               PROVE  TargetAgrees(pc, Decoded, Listed) /\ DistanceLeads(pc, Listed)
    BY Zenon DEF SameTarget, TargetAgrees, NextNibble, DistanceLeads
  <2>1. TargetAgrees(pc, Decoded, Listed)
    BY Zenon, ReadersAgree DEF Agree
  <2>2. mode \in Modes /\ pc \in 0 .. AddressSpace - 1 /\ Code \in Codes
    BY CodeIsOne DEF DecodeTypes
  <2>3. DistanceLeads(pc, Listed)
    BY Zenon, <2>2, EveryDistanceLeads DEF Listed
  <2> QED BY <2>1, <2>3
<1> QED BY <1>1, CodeIsOfNibbles, PTL

(* disassemble names what step_instruction executes, exactly but for the   *)
(* instructions listed as misnamed, unnamed and crashing; it leaves blank  *)
(* what step_instruction refuses and those listed as unnamed, and crashes  *)
(* only where listed.                                                      *)
THEOREM WorkHolds == DecodeSpec => []ShowsWhatIsExecuted
<1>1. DecodeTypes => ShowsWhatIsExecuted
  <2> SUFFICES ASSUME DecodeTypes, Complete
               PROVE  /\ SameWork(Decoded, Listed) <=> ~(Misnamed \/ Unnamed \/ Crashes)
                      /\ Listed.ins.op = "illegal" <=> Decoded.ins.op = "illegal" \/ Unnamed
                      /\ Listed = Crash <=> Crashes
    BY Zenon DEF ShowsWhatIsExecuted
  <2>1. /\ WorkAgrees(mode, pc, Decoded, Listed, Code)
        /\ BlankAgrees(Decoded, Listed, Code)
    BY Zenon, ReadersAgree DEF Agree
  <2>2. /\ Misnamed <=> MisnamedAt(mode, Decoded, Code)
        /\ Unnamed <=> UnnamedAt(Code)
        /\ Crashes <=> CrashesAt(Decoded, Code)
    BY Zenon, LookedAt
  <2>3. SameWork(Decoded, Listed) <=>
          SameIns(Decoded.ins, Listed.ins) \/ NextNibble(pc, Decoded, Listed)
    BY Zenon DEF SameWork, SameIns, NextNibble
  <2>4. SameWork(Decoded, Listed) <=> ~(Misnamed \/ Unnamed \/ Crashes)
    BY Zenon, <2>1, <2>2, <2>3 DEF WorkAgrees
  <2>5. Listed.ins.op = "illegal" <=> Decoded.ins.op = "illegal" \/ Unnamed
    BY Zenon, <2>1, <2>2 DEF BlankAgrees
  <2>6. Crash.ins.op = "crash"
    BY DEF Crash, Line, JumpLine, Plain, Ins
  <2>7. Listed = Crash <=> Crashes
    BY Zenon, <2>1, <2>2, <2>6 DEF BlankAgrees
  <2> QED BY <2>4, <2>5, <2>7
<1> QED BY <1>1, CodeIsOfNibbles, PTL
=============================================================================
