----------------------------- MODULE SimpleLock -----------------------------
(***************************************************************************)
(* One halo buffer in memory shared by two ranks: the sender packs into it *)
(* and the receiver unpacks from it.  They meet only through SimpleLock    *)
(* (utils.hpp), two counters written by one side each.  The copy into and  *)
(* out of the buffer is done element by element, in any order              *)
(* (visitAllPointsInParallel), so nothing but the counters keeps the two   *)
(* copies apart.                                                           *)
(*                                                                         *)
(* The counters are volatile and each copy is an out-of-line call between  *)
(* the wait and the mark, so the steps of one rank take effect in program  *)
(* order (x86 keeps the order of stores, and of loads).                    *)
(***************************************************************************)
EXTENDS Naturals

CONSTANTS
  Elem,        \* the elements of the buffer
  Data,        \* values of one element
  InitCount,   \* _ival: where both counters start
  MaxWrites    \* bound of the model: messages the sender writes

ASSUME LockAssumption ==
  /\ InitCount \in Nat
  /\ MaxWrites \in Nat

VARIABLES
  writeCount,  \* _write_count.val
  readCount,   \* _read_count.val
  buf,         \* the shared elements
  sender,      \* "out" of the lock or "in" it, copying
  message,     \* what the sender is packing
  toPack,      \* elements it has still to copy
  receiver,    \* "out" or "in"
  copy,        \* where the receiver unpacks to
  toUnpack,    \* elements it has still to copy
  received     \* history: {} or the last message it copied out

sendVars == <<sender, message, toPack>>
recvVars == <<receiver, copy, toUnpack, received>>
vars == <<writeCount, readCount, buf, sendVars, recvVars>>

Message == [Elem -> Data]

TypeOK ==
  /\ writeCount \in Nat
  /\ readCount \in Nat
  /\ buf \in Message
  /\ sender \in {"out", "in"}
  /\ message \in Message
  /\ toPack \in SUBSET Elem
  /\ receiver \in {"out", "in"}
  /\ copy \in Message
  /\ toUnpack \in SUBSET Elem
  /\ \/ received = {}
     \/ \E m \in Message : received = {m}

Init ==
  /\ writeCount = InitCount
  /\ readCount = InitCount
  /\ buf \in Message            \* whatever the memory held
  /\ sender = "out"
  /\ message = buf
  /\ toPack = {}
  /\ receiver = "out"
  /\ copy = buf
  /\ toUnpack = {}
  /\ received = {}

IsOkToWriteMutant == writeCount <= readCount + 1   \* one message too many
IsOkToWrite == writeCount = readCount

IsOkToReadMutant == writeCount >= readCount        \* an off-by-one
IsOkToRead == writeCount # readCount

-----------------------------------------------------------------------------
(* The sender: wait_for_ok_to_write(), the copy, mark_write_done().        *)

WaitToWrite ==
  /\ sender = "out"
  /\ writeCount < InitCount + MaxWrites
  /\ IsOkToWrite
  /\ sender' = "in"
  /\ message' \in Message
  /\ toPack' = Elem
  /\ UNCHANGED <<writeCount, readCount, buf, recvVars>>

PackElem(e) ==
  /\ sender = "in"
  /\ e \in toPack
  /\ buf' = [buf EXCEPT ![e] = message[e]]
  /\ toPack' = toPack \ {e}
  /\ UNCHANGED <<writeCount, readCount, sender, message, recvVars>>

MarkWriteDoneMutant ==   \* forgets to count
  /\ sender = "in"
  /\ toPack = {}
  /\ sender' = "out"
  /\ UNCHANGED <<writeCount, readCount, buf, message, toPack, recvVars>>

MarkWriteDone ==
  /\ sender = "in"
  /\ toPack = {}
  /\ writeCount' = writeCount + 1
  /\ sender' = "out"
  /\ UNCHANGED <<readCount, buf, message, toPack, recvVars>>

-----------------------------------------------------------------------------
(* The receiver: wait_for_ok_to_read(), the copy, mark_read_done().        *)

WaitToRead ==
  /\ receiver = "out"
  /\ IsOkToRead
  /\ receiver' = "in"
  /\ toUnpack' = Elem
  /\ UNCHANGED <<writeCount, readCount, buf, sendVars, copy, received>>

UnpackElem(e) ==
  /\ receiver = "in"
  /\ e \in toUnpack
  /\ copy' = [copy EXCEPT ![e] = buf[e]]
  /\ toUnpack' = toUnpack \ {e}
  /\ UNCHANGED <<writeCount, readCount, buf, sendVars, receiver, received>>

MarkReadDoneMutant ==   \* before the whole message is copied
  /\ receiver = "in"
  /\ readCount' = readCount + 1
  /\ receiver' = "out"
  /\ received' = {copy}
  /\ UNCHANGED <<writeCount, buf, sendVars, copy, toUnpack>>

MarkReadDone ==
  /\ receiver = "in"
  /\ toUnpack = {}
  /\ readCount' = readCount + 1
  /\ receiver' = "out"
  /\ received' = {copy}
  /\ UNCHANGED <<writeCount, buf, sendVars, copy, toUnpack>>

-----------------------------------------------------------------------------
Next ==
  \/ WaitToWrite
  \/ \E e \in Elem : PackElem(e)
  \/ MarkWriteDone
  \/ WaitToRead
  \/ \E e \in Elem : UnpackElem(e)
  \/ MarkReadDone

Spec == Init /\ [][Next]_vars

(* Both ranks keep running: each spins until its wait ends and then copies *)
(* without blocking.                                                       *)
Fairness ==
  /\ WF_vars(WaitToWrite)
  /\ \A e \in Elem : WF_vars(PackElem(e)) /\ WF_vars(UnpackElem(e))
  /\ WF_vars(MarkWriteDone)
  /\ WF_vars(WaitToRead)
  /\ WF_vars(MarkReadDone)

FairSpec == Spec /\ Fairness

-----------------------------------------------------------------------------
(* What _check() asserts at every call when the kernel is built with CHECK *)
(* (utils.hpp:199): the sender is ahead of the receiver by nothing or by   *)
(* one message.                                                            *)
CountsInStep ==
  /\ readCount >= InitCount
  /\ writeCount \in {readCount, readCount + 1}

(* The two ranks are never in the buffer together, though neither counter  *)
(* is ever held by both: a torn halo cannot be read or overwritten.        *)
NeverBothInside == ~ (sender = "in" /\ receiver = "in")

(* The inductive invariant: who may be inside follows from the counters,   *)
(* the part of the buffer already packed holds the message, a complete     *)
(* message stays in the buffer until it is read, and the part already      *)
(* unpacked is the message.                                                *)
LockInv ==
  /\ TypeOK
  /\ CountsInStep
  /\ sender = "in" => IsOkToWrite
  /\ receiver = "in" => IsOkToRead
  /\ sender = "in" => \A e \in Elem \ toPack : buf[e] = message[e]
  /\ receiver = "in" => \A e \in Elem \ toUnpack : copy[e] = buf[e]

(* The lock implements the one-place hand-off: a message becomes visible   *)
(* when it is marked written and is gone when it is marked read, whole.    *)
Place == IF IsOkToRead THEN {buf} ELSE {}

Abs == INSTANCE HandOff WITH place <- Place, taken <- received

HandsOff == Abs!Spec

(* Neither rank waits for ever: a message that is being packed is unpacked *)
(* in the end, so a spinning wait of either side ends.                     *)
Delivered ==
  \A m \in Message : (sender = "in" /\ message = m) ~> (received = {m})
=============================================================================
