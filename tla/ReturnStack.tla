---------------------------- MODULE ReturnStack ----------------------------
(***************************************************************************)
(* The return stack of the Saturn CPU: the NR_RSTK slots rstk[] and the    *)
(* index rstkp of hp48.h, with the operations push_return_addr and         *)
(* pop_return_addr of actions.c.                                           *)
(*                                                                         *)
(* The slots rstk[0 .. rstkp] are the sequence stk (oldest first), so that *)
(* rstkp = Len(stk) - 1 and the empty stack is rstkp = -1.  What the slots *)
(* above rstkp hold is never read and is left out.                         *)
(***************************************************************************)
EXTENDS Integers, Sequences

CONSTANT NR_RSTK      \* the number of slots; 8 in hp48.h

ASSUME RstkAssumption == NR_RSTK \in Nat \ {0}

(* Mutants: the full stack refuses the new address instead of forgetting   *)
(* the oldest one; the full stack grows.                                   *)
PushRefusing(stk, addr) ==
  IF Len(stk) < NR_RSTK THEN Append(stk, addr) ELSE stk

PushUnbounded(stk, addr) == Append(stk, addr)

(* push_return_addr: a full stack is shifted down, forgetting the oldest   *)
(* address.                                                                *)
Push(stk, addr) ==
  IF Len(stk) < NR_RSTK THEN Append(stk, addr) ELSE Append(Tail(stk), addr)

(* pop_return_addr, its result: address 0 when the stack is empty.         *)
Top(stk) == IF stk = <<>> THEN 0 ELSE stk[Len(stk)]

(* pop_return_addr, what it leaves: an empty stack stays empty.            *)
Pop(stk) == IF stk = <<>> THEN <<>> ELSE SubSeq(stk, 1, Len(stk) - 1)

=============================================================================
