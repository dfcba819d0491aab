-------------------------- MODULE SimpleLockProofs --------------------------
(***************************************************************************)
(* The lock of a shared halo buffer is proved for every buffer size, every *)
(* set of values and any number of messages: its counters stay in step,    *)
(* the two ranks are never inside together, and it implements HandOff.     *)
(***************************************************************************)
EXTENDS SimpleLock, TLAPS

USE DEF Message, IsOkToWrite, IsOkToRead

(* The invariant holds of a freshly initialised lock, whatever the memory  *)
(* behind it contained.                                                    *)
LEMMA LockInvInit == Init => LockInv
  BY LockAssumption DEF Init, LockInv, TypeOK, CountsInStep

(* Every step of either rank keeps the invariant.                          *)
LEMMA LockInvNext == LockInv /\ [Next]_vars => LockInv'
<1> SUFFICES ASSUME LockInv, [Next]_vars PROVE LockInv'
  OBVIOUS
<1> USE LockAssumption DEF LockInv, TypeOK, CountsInStep
<1>1. CASE WaitToWrite
  BY <1>1 DEF WaitToWrite, recvVars
<1>2. CASE \E e \in Elem : PackElem(e)
  <2>1. PICK e \in Elem : PackElem(e)
    BY <1>2
  <2>2. receiver = "out"
    BY <2>1 DEF PackElem
  <2>3. buf' \in [Elem -> Data] /\ toPack' \in SUBSET Elem
    BY <2>1 DEF PackElem
  <2>4. \A x \in Elem \ toPack' : buf'[x] = message'[x]
    BY <2>1 DEF PackElem
  <2>5. QED
    BY <2>1, <2>2, <2>3, <2>4 DEF PackElem, recvVars
<1>3. CASE MarkWriteDone
  BY <1>3 DEF MarkWriteDone, recvVars
<1>4. CASE WaitToRead
  BY <1>4 DEF WaitToRead, sendVars
<1>5. CASE \E e \in Elem : UnpackElem(e)
  <2>1. PICK e \in Elem : UnpackElem(e)
    BY <1>5
  <2>2. copy' \in [Elem -> Data] /\ toUnpack' \in SUBSET Elem
    BY <2>1 DEF UnpackElem
  <2>3. \A x \in Elem \ toUnpack' : copy'[x] = buf'[x]
    BY <2>1 DEF UnpackElem
  <2>4. QED
    BY <2>1, <2>2, <2>3 DEF UnpackElem, sendVars
<1>6. CASE MarkReadDone
  BY <1>6 DEF MarkReadDone, sendVars
<1>7. CASE UNCHANGED vars
  BY <1>7 DEF vars, sendVars, recvVars
<1>8. QED
  BY <1>1, <1>2, <1>3, <1>4, <1>5, <1>6, <1>7 DEF Next

(* The inductive invariant holds in every state of every behaviour.        *)
THEOREM LockInvariant == Spec => []LockInv
  BY LockInvInit, LockInvNext, PTL DEF Spec

(* The consistency check the CHECK build makes at every lock call never    *)
(* throws.                                                                 *)
THEOREM CountersInStep == Spec => []CountsInStep
  BY LockInvariant, PTL DEF LockInv

(* The sender and the receiver are never in the buffer at the same time.   *)
THEOREM MutualExclusion == Spec => []NeverBothInside
<1>1. LockInv => NeverBothInside
  BY DEF LockInv, NeverBothInside
<1>2. QED
  BY <1>1, LockInvariant, PTL

(* Every behaviour of the lock is one of the one-place hand-off: a message *)
(* is put into an empty place and is taken once and whole.                 *)
THEOREM ImplementsHandOff == Spec => HandsOff
<1> USE DEF Place
<1>1. Init => Abs!Init
  BY DEF Init, Abs!Init
<1>2. LockInv /\ LockInv' /\ [Next]_vars => [Abs!Next]_Abs!vars
  <2> SUFFICES ASSUME LockInv, LockInv', [Next]_vars
               PROVE  Abs!Next \/ UNCHANGED Abs!vars
    OBVIOUS
  <2> USE LockAssumption DEF LockInv, TypeOK, CountsInStep, Abs!vars, Abs!Next
  <2>1. CASE WaitToWrite
    BY <2>1 DEF WaitToWrite, recvVars
  <2>2. CASE \E e \in Elem : PackElem(e)
    BY <2>2 DEF PackElem, recvVars
  <2>3. CASE MarkWriteDone
    <3>1. Place = {} /\ Place' = {buf'}
      BY <2>3 DEF MarkWriteDone
    <3>2. QED
      BY <2>3, <3>1 DEF MarkWriteDone, recvVars, Abs!Put
  <2>4. CASE WaitToRead
    BY <2>4 DEF WaitToRead, sendVars
  <2>5. CASE \E e \in Elem : UnpackElem(e)
    BY <2>5 DEF UnpackElem, sendVars
  <2>6. CASE MarkReadDone
    <3>1. copy = buf
      BY <2>6 DEF MarkReadDone
    <3>2. Place = {buf} /\ Place' = {}
      BY <2>6 DEF MarkReadDone
    <3>3. QED
      BY <2>6, <3>1, <3>2 DEF MarkReadDone, sendVars, Abs!Take
  <2>7. CASE UNCHANGED vars
    BY <2>7 DEF vars, sendVars, recvVars
  <2>8. QED
    BY <2>1, <2>2, <2>3, <2>4, <2>5, <2>6, <2>7 DEF Next
<1>3. QED
  BY <1>1, <1>2, LockInvariant, PTL DEF Spec, HandsOff, Abs!Spec
=============================================================================
