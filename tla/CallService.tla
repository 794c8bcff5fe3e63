---------------------------- MODULE CallService ----------------------------
(***************************************************************************)
(* What the interrupt system promises a program that keeps to the rules: a *)
(* stack of calls without end, every return where its call says, at most   *)
(* one interrupt's service on it, a service begun only between two         *)
(* instructions (or by one), its end back where the program was, and one   *)
(* key remembered during it, for which the service is run once more.       *)
(* There is no mask here, no eight slots, no sleep, no debugger and no     *)
(* second loop: module Interrupts shows they do not matter.                *)
(***************************************************************************)
EXTENDS Integers, Sequences

CONSTANTS Code, ISR

VARIABLES
  pc,       \* where the program is
  frames,   \* the calls and the services not yet ended, oldest first
  taken,    \* <<a>> if the last step of the program took the address a off
            \* the frames as a number, <<>> otherwise
  key,      \* a key is remembered
  turn,     \* whose step it is: the "program"'s or the "machine"'s
  kept      \* the rules have been kept: services are ended as such, are not
            \* broken off by the program, and the calls are not too many

vars == <<pc, frames, taken, key, turn, kept>>

InService == \E i \in 1 .. Len(frames) : frames[i].kind = "int"

Newest == frames[Len(frames)]

DropNewest == frames' = SubSeq(frames, 1, Len(frames) - 1)

Init ==
  /\ pc = 0
  /\ frames \in {<<>>, <<[kind |-> "int", ret |-> 0]>>}
  /\ taken = <<>>
  /\ key = FALSE
  /\ turn = "program"
  /\ kept = TRUE

(* A service begins: never within another.                                 *)
Serve(at) ==
  /\ ~InService
  /\ frames' = Append(frames, [kind |-> "int", ret |-> at])
  /\ pc' = ISR

(* A key that comes during a service is remembered.                        *)
Remember ==
  /\ InService
  /\ key' = TRUE
  /\ UNCHANGED frames

-----------------------------------------------------------------------------
(* The program's steps.  A program that returns with nothing on its stack  *)
(* goes somewhere: nothing is promised of where.                           *)
Go ==
  /\ pc' \in Code
  /\ UNCHANGED <<frames, key>>

Call ==
  /\ \E ret \in Code : frames' = Append(frames, [kind |-> "call", ret |-> ret])
  /\ pc' \in Code
  /\ UNCHANGED key

(* A return goes where the newest call says.                               *)
Return ==
  /\ frames # <<>> /\ Newest.kind = "call"
  /\ DropNewest
  /\ pc' = Newest.ret
  /\ UNCHANGED key

(* The program takes the newest call's address as a number and goes on.    *)
TakeAddress ==
  /\ frames # <<>> /\ Newest.kind = "call"
  /\ DropNewest
  /\ taken' = <<Newest.ret>>
  /\ pc' \in Code
  /\ UNCHANGED key

TakeNothing ==
  /\ frames = <<>>
  /\ taken' = <<0>>
  /\ pc' \in Code
  /\ UNCHANGED <<frames, key>>

(* The end of a service resumes the interrupted program, unless a key is   *)
(* remembered: then the service is run again.                              *)
EndService ==
  /\ frames # <<>> /\ Newest.kind = "int" /\ ~key
  /\ DropNewest
  /\ pc' = Newest.ret
  /\ UNCHANGED key

ServeAgain ==
  /\ InService /\ key
  /\ key' = FALSE
  /\ pc' = ISR
  /\ UNCHANGED frames

(* An instruction that looks at the keys or stores to a card's control     *)
(* register may itself be interrupted, where it ends.                      *)
Interrupted ==
  \/ (\E at \in Code : Serve(at)) /\ UNCHANGED key
  \/ Remember /\ pc' \in Code

Program == /\ turn = "program" /\ turn' = "machine"
           /\ \/ /\ taken' = <<>>
                 /\ \/ Go \/ Call \/ Return
                    \/ EndService \/ ServeAgain \/ Interrupted
              \/ TakeAddress
              \/ TakeNothing

-----------------------------------------------------------------------------
(* The machine's steps, between the program's: nothing, an interrupt just  *)
(* here, a key remembered (perhaps at once), or a restart at 0.            *)
Machine ==
  /\ turn = "machine"
  /\ turn' \in {"program", "machine"}
  /\ UNCHANGED taken
  /\ \/ Serve(pc) /\ key' \in {key, TRUE}
     \/ Remember /\ UNCHANGED pc
     \/ pc' \in {pc, 0} /\ UNCHANGED <<frames, key>>

(* Once a rule is broken nothing is promised.                              *)
Broken == kept' = FALSE

Next == (kept /\ kept' /\ (Program \/ Machine)) \/ Broken

Spec == Init /\ [][Next]_vars

=============================================================================
