-------------------------- MODULE IntelFpgaSdk_proofs --------------------------
(***************************************************************************)
(* Proofs about IntelFpgaSdk, for any finite set of threads.  The race on  *)
(* nna_fd is harmless as long as no open fails because the variable, once  *)
(* it holds a descriptor, is never negative again: before that nobody has  *)
(* opened anything, after that nobody decides to open, and those who had   *)
(* decided open once each.                                                 *)
(***************************************************************************)
EXTENDS IntelFpgaSdk, FiniteSetTheorems, TLAPS

\* The threads that have been through intelfpga_open.
Past == {t \in Threads : calls[t] > 0 /\ pc[t] # "open"}

\* Descriptors are handed out in order, as the kernel does.
FdsInv == IsFiniteSet(fds) /\ \A fd \in fds : fd < Cardinality(fds) + 3

\* Before the first open has succeeded nobody is past it.
FirstInv == ~openFailed /\ nnaFd < 0 => fds = {} /\ Past = {}

CountInv == ~openFailed => Cardinality(fds) <= Cardinality(Past)

\* Where a thread can be before its first call.
CallsInv == \A t \in Threads : pc[t] # "idle" => calls[t] > 0

IInv == TypeOK /\ FdsInv /\ FirstInv /\ CountInv /\ CallsInv

USE SdkAssumption

\* Cardinality on the sets of the module.
LEMMA PastFinite == IsFiniteSet(Past) /\ Cardinality(Past) \in Nat
                    /\ Cardinality(Past) <= Cardinality(Threads) /\ Cardinality(Threads) \in Nat
BY FS_Subset, FS_CardinalityType DEF Past

LEMMA FdsCount == FdsInv => Cardinality(fds) \in Nat
BY FS_CardinalityType DEF FdsInv

\* The next descriptor is a new one.
LEMMA NextFd == ASSUME NEW S, S \subseteq Nat, IsFiniteSet(S),
                       \A fd \in S : fd < Cardinality(S) + 3
                PROVE  LET n == Cardinality(S) + 3
                           T == S \cup {n}
                       IN  /\ n \in Nat /\ T \subseteq Nat /\ IsFiniteSet(T)
                           /\ Cardinality(T) = Cardinality(S) + 1
                           /\ \A fd \in T : fd < Cardinality(T) + 3
<1> DEFINE n == Cardinality(S) + 3
           T == S \cup {n}
<1>1. Cardinality(S) \in Nat
  BY FS_CardinalityType
<1>2. n \in Nat /\ n \notin S
  BY <1>1
<1>3. IsFiniteSet(T) /\ Cardinality(T) = Cardinality(S) + 1
  BY <1>2, FS_AddElement
<1>4. \A fd \in T : fd < Cardinality(T) + 3
  BY <1>1, <1>3
<1> QED
  BY <1>2, <1>3, <1>4

-----------------------------------------------------------------------------
\* The initial state.
LEMMA InitIInv == Init => IInv
<1> SUFFICES ASSUME Init PROVE IInv
  OBVIOUS
<1>1. TypeOK
  <2>1. 0 \in 0 .. MaxCalls
    OBVIOUS
  <2>2. calls \in [Threads -> 0 .. MaxCalls]
    BY <2>1 DEF Init
  <2> QED
    BY <2>2 DEF Init, TypeOK
<1>2. IsFiniteSet(fds) /\ Cardinality(fds) = 0 /\ fds = {}
  BY FS_EmptySet DEF Init
<1>3. Past = {}
  BY DEF Init, Past
<1>4. FdsInv /\ FirstInv /\ CallsInv
  BY <1>2, <1>3 DEF FdsInv, FirstInv, CallsInv, Init
<1>5. CountInv
  BY <1>2, <1>3, FS_EmptySet DEF CountInv
<1> QED
  BY <1>1, <1>4, <1>5 DEF IInv

\* A call counts its thread as past the open only when there is a descriptor.
LEMMA CallIInv == ASSUME IInv, NEW t \in Threads, Call(t) PROVE IInv'
<1> USE DEF IInv
<1>1. /\ pc[t] = "idle" /\ calls[t] \in Nat
      /\ calls' = [calls EXCEPT ![t] = @ + 1]
      /\ pc' = [pc EXCEPT ![t] = IF nnaFd < 0 THEN "open" ELSE "lock"]
      /\ UNCHANGED <<ret, nnaFd, fds, owner, openFailed>>
  BY DEF Call, Goto, TypeOK
<1>2. TypeOK'
  BY <1>1 DEF TypeOK, Call
<1>3. FdsInv'
  BY <1>1 DEF FdsInv
<1>4. CallsInv'
  BY <1>1 DEF CallsInv, TypeOK
<1>5. ~openFailed => Past \subseteq Past'
  <2>1. CASE nnaFd < 0
    BY <2>1, <1>1 DEF Past, TypeOK, FirstInv
  <2>2. CASE ~(nnaFd < 0)
    BY <2>2, <1>1 DEF Past, TypeOK
  <2> QED
    BY <2>1, <2>2
<1>6. ~openFailed /\ nnaFd < 0 => Past' = Past
  BY <1>1 DEF Past, TypeOK, FirstInv
<1>7. FirstInv'
  BY <1>1, <1>6 DEF FirstInv
<1>8. IsFiniteSet(Past') /\ Cardinality(Past') \in Nat
      /\ (~openFailed => Cardinality(Past) <= Cardinality(Past'))
  <2>1. Past' \subseteq Threads
    BY DEF Past
  <2>2. IsFiniteSet(Past') /\ Cardinality(Past') \in Nat
    BY <2>1, FS_Subset, FS_CardinalityType
  <2> QED
    BY <2>2, <1>5, FS_Subset
<1>9. CountInv'
  BY <1>1, <1>8, FdsCount, PastFinite DEF CountInv
<1> QED
  BY <1>2, <1>3, <1>4, <1>7, <1>9

\* An open adds one descriptor and one thread.
LEMMA OpenIInv == ASSUME IInv, NEW t \in Threads, Open(t) PROVE IInv'
<1> USE DEF IInv
<1>1. /\ pc[t] = "open" /\ calls[t] > 0 /\ t \notin Past
      /\ UNCHANGED <<calls, owner>>
  BY DEF Open, CallsInv, Past
<1>2. Cardinality(fds) \in Nat
  BY FdsCount
<1>3. CASE /\ nnaFd' = Cardinality(fds) + 3 /\ fds' = fds \cup {nnaFd'}
           /\ \E l \in {"opened", "lock"} : Goto(t, l)
           /\ UNCHANGED <<ret, openFailed>>
  <2>1. PICK l \in {"opened", "lock"} : pc' = [pc EXCEPT ![t] = l]
    BY <1>3 DEF Goto
  <2>2. fds' = fds \cup {Cardinality(fds) + 3} /\ fds \subseteq Nat
    BY <1>3 DEF TypeOK
  <2>3. /\ nnaFd' \in Nat /\ nnaFd' \in fds' /\ fds' \subseteq Nat
        /\ IsFiniteSet(fds') /\ Cardinality(fds') = Cardinality(fds) + 1
        /\ \A fd \in fds' : fd < Cardinality(fds') + 3
    BY <1>3, <2>2, NextFd DEF FdsInv
  <2>4. TypeOK' /\ FdsInv'
    BY <1>1, <1>3, <2>1, <2>3 DEF TypeOK, FdsInv
  <2>5. Past' = Past \cup {t}
    BY <1>1, <2>1 DEF Past, TypeOK
  <2>6. Cardinality(Past') = Cardinality(Past) + 1
    BY <2>5, <1>1, FS_AddElement, PastFinite
  <2>7. CountInv'
    BY <1>2, <1>3, <2>3, <2>6, PastFinite DEF CountInv
  <2>8. FirstInv'
    BY <1>2, <1>3 DEF FirstInv
  <2>9. CallsInv'
    BY <1>1, <2>1 DEF CallsInv, TypeOK
  <2> QED
    BY <2>4, <2>7, <2>8, <2>9
<1>4. CASE /\ nnaFd' = -1 /\ openFailed' = TRUE
           /\ \/ Goto(t, "opened") /\ UNCHANGED ret
              \/ Return(t, FALSE)
           /\ UNCHANGED fds
  <2>1. pc' = [pc EXCEPT ![t] = pc'[t]] /\ pc'[t] \in {"opened", "idle"}
    BY <1>4 DEF Goto, Return, TypeOK
  <2>2. ret' \in [Threads -> BOOLEAN]
    BY <1>4 DEF Return, TypeOK
  <2>3. TypeOK'
    BY <1>1, <1>4, <2>1, <2>2 DEF TypeOK
  <2>4. FdsInv'
    BY <1>4 DEF FdsInv
  <2>5. FirstInv' /\ CountInv'
    BY <1>4 DEF FirstInv, CountInv
  <2>6. CallsInv'
    BY <1>1, <2>1 DEF CallsInv, TypeOK
  <2> QED
    BY <2>3, <2>4, <2>5, <2>6
<1> QED
  BY <1>3, <1>4 DEF Open

\* The other steps move a thread that is past the open and stays so.
LEMMA RestIInv == ASSUME IInv, NEW t \in Threads, Opened(t) \/ Lock(t) \/ Ioctl(t) PROVE IInv'
<1> USE DEF IInv
<1>1. /\ pc[t] \in {"opened", "lock", "ioctl"} /\ UNCHANGED <<calls, nnaFd, fds, openFailed>>
      /\ ret' \in [Threads -> BOOLEAN] /\ owner' \in Threads \cup {Nobody}
      /\ pc' = [pc EXCEPT ![t] = pc'[t]] /\ pc'[t] \in {"idle", "lock", "ioctl"}
  <2>1. CASE Opened(t)
    BY <2>1 DEF Opened, Goto, Return, TypeOK
  <2>2. CASE Lock(t)
    BY <2>2 DEF Lock, Goto, TypeOK
  <2>3. CASE Ioctl(t)
    BY <2>3 DEF Ioctl, Goto, Return, TypeOK
  <2> QED
    BY <2>1, <2>2, <2>3
<1>2. TypeOK'
  BY <1>1 DEF TypeOK
<1>3. Past' = Past
  BY <1>1 DEF Past, TypeOK, CallsInv
<1>4. FdsInv' /\ FirstInv' /\ CountInv'
  BY <1>1, <1>3 DEF FdsInv, FirstInv, CountInv
<1>5. CallsInv'
  BY <1>1 DEF CallsInv, TypeOK
<1> QED
  BY <1>2, <1>4, <1>5

\* Every step.
LEMMA StepIInv == IInv /\ [Next]_vars => IInv'
<1> SUFFICES ASSUME IInv, [Next]_vars PROVE IInv'
  OBVIOUS
<1>1. ASSUME NEW t \in Threads, Call(t) PROVE IInv'
  BY <1>1, CallIInv
<1>2. ASSUME NEW t \in Threads, Open(t) PROVE IInv'
  BY <1>2, OpenIInv
<1>3. ASSUME NEW t \in Threads, Opened(t) \/ Lock(t) \/ Ioctl(t) PROVE IInv'
  BY <1>3, RestIInv
<1>4. CASE UNCHANGED vars
  BY <1>4 DEF vars, IInv, TypeOK, FdsInv, FirstInv, CountInv, CallsInv, Past
<1> QED
  BY <1>1, <1>2, <1>3, <1>4 DEF Next, Inside

LEMMA AlwaysIInv == Spec => []IInv
BY InitIInv, StepIInv, PTL DEF Spec

-----------------------------------------------------------------------------
\* Every variable keeps its type: nna_fd is -1 or a descriptor that is open.
THEOREM LibraryTypes == Spec => []TypeOK
<1>1. IInv => TypeOK
  BY DEF IInv
<1> QED
  BY <1>1, AlwaysIInv, PTL

\* As long as no open has failed, every thread that waits for the mutex or is in its
\* ioctl has an open descriptor in nna_fd.
THEOREM IoctlsHaveADevice == Spec => []IoctlOnOpenDevice
<1>1. IInv => IoctlOnOpenDevice
  <2> SUFFICES ASSUME IInv, NEW t \in Threads, pc[t] \in {"lock", "ioctl"}, ~openFailed
               PROVE  nnaFd \in fds
    BY DEF IoctlOnOpenDevice
  <2>1. t \in Past
    BY DEF IInv, CallsInv, Past
  <2>2. ~(nnaFd < 0)
    BY <2>1 DEF IInv, FirstInv
  <2> QED
    BY <2>2 DEF IInv, TypeOK
<1> QED
  BY <1>1, AlwaysIInv, PTL

\* The race for the first open costs one descriptor per thread at most, whatever the
\* number of calls.
THEOREM AtMostOneDescriptorEach == Spec => []DescriptorsBounded
<1>1. IInv => DescriptorsBounded
  BY PastFinite, FdsCount DEF IInv, CountInv, DescriptorsBounded
<1> QED
  BY <1>1, AlwaysIInv, PTL
=============================================================================
