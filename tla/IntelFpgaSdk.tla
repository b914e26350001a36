----------------------------- MODULE IntelFpgaSdk -----------------------------
(***************************************************************************)
(* The user-space library (intel_fpga_sdk/lib/intelfpga.cc) under several  *)
(* threads of one process, each running its own device graph through       *)
(* IntelFpgaConvDepthwise.  The threads share the descriptor nna_fd, which *)
(* intelfpga_open opens on first use without a lock, and the mutex around  *)
(* the ioctl.  The rearranging of a thread's own tensors before and after  *)
(* the ioctl shares nothing and is no step here.                           *)
(***************************************************************************)
EXTENDS Integers, FiniteSets

CONSTANTS
    Threads,    \* the threads of the process
    MaxCalls,   \* bound on the number of calls of a thread
    Nobody

ASSUME SdkAssumption == IsFiniteSet(Threads) /\ Nobody \notin Threads /\ MaxCalls \in Nat

VARIABLES
    pc,          \* where each thread is in IntelFpgaConvDepthwise
    calls,       \* how many calls it has made
    ret,         \* what the last one returned
    nnaFd,       \* nna_fd
    fds,         \* the descriptors of /dev/nnadrv0 the process has open
    owner,       \* the holder of the library's mutex
    openFailed   \* history: an open() of the device has failed

vars == <<pc, calls, ret, nnaFd, fds, owner, openFailed>>

Goto(t, l) == pc' = [pc EXCEPT ![t] = l]
Return(t, r) == Goto(t, "idle") /\ ret' = [ret EXCEPT ![t] = r]

InitMutant ==
    /\ pc = [t \in Threads |-> "idle"]
    /\ calls = [t \in Threads |-> 0]
    /\ ret = [t \in Threads |-> TRUE]
    /\ nnaFd = 0 /\ fds = {} /\ owner = Nobody /\ openFailed = FALSE

Init ==
    /\ pc = [t \in Threads |-> "idle"]
    /\ calls = [t \in Threads |-> 0]
    /\ ret = [t \in Threads |-> TRUE]
    /\ nnaFd = -1 /\ fds = {} /\ owner = Nobody /\ openFailed = FALSE

\* intelfpga_open: nothing to do when nna_fd is not negative.
CallMutant(t) ==
    /\ pc[t] = "idle" /\ calls[t] < MaxCalls
    /\ calls' = [calls EXCEPT ![t] = @ + 1]
    /\ Goto(t, "open")
    /\ UNCHANGED <<ret, nnaFd, fds, owner, openFailed>>

Call(t) ==
    /\ pc[t] = "idle" /\ calls[t] < MaxCalls
    /\ calls' = [calls EXCEPT ![t] = @ + 1]
    /\ Goto(t, IF nnaFd < 0 THEN "open" ELSE "lock")
    /\ UNCHANGED <<ret, nnaFd, fds, owner, openFailed>>

\* nna_fd = open(...): a new descriptor, or -1.  The test that follows may use the
\* value just stored or read the variable again, another thread's store included.
Open(t) ==
    /\ pc[t] = "open"
    /\ \/ /\ nnaFd' = Cardinality(fds) + 3
          /\ fds' = fds \cup {nnaFd'}
          /\ \E l \in {"opened", "lock"} : Goto(t, l)
          /\ UNCHANGED <<ret, openFailed>>
       \/ /\ nnaFd' = -1 /\ openFailed' = TRUE
          /\ \/ Goto(t, "opened") /\ UNCHANGED ret
             \/ Return(t, FALSE)
          /\ UNCHANGED fds
    /\ UNCHANGED <<calls, owner>>

Opened(t) ==
    /\ pc[t] = "opened"
    /\ \/ nnaFd < 0 /\ Return(t, FALSE)
       \/ nnaFd >= 0 /\ Goto(t, "lock") /\ UNCHANGED ret
    /\ UNCHANGED <<calls, nnaFd, fds, owner, openFailed>>

Lock(t) ==
    /\ pc[t] = "lock" /\ owner = Nobody
    /\ owner' = t
    /\ Goto(t, "ioctl")
    /\ UNCHANGED <<calls, ret, nnaFd, fds, openFailed>>

\* ioctl(nna_fd, ...) fails on a bad descriptor, or when the driver says so; the
\* mutex is given back either way.
IoctlMutant(t) ==
    /\ pc[t] = "ioctl"
    /\ \/ nnaFd \in fds /\ Return(t, TRUE) /\ owner' = Nobody
       \/ Return(t, FALSE) /\ UNCHANGED owner
    /\ UNCHANGED <<calls, nnaFd, fds, openFailed>>

Ioctl(t) ==
    /\ pc[t] = "ioctl"
    /\ \/ nnaFd \in fds /\ Return(t, TRUE)
       \/ Return(t, FALSE)
    /\ owner' = Nobody
    /\ UNCHANGED <<calls, nnaFd, fds, openFailed>>

Inside(t) == Open(t) \/ Opened(t) \/ Ioctl(t)

Next == \E t \in Threads : Call(t) \/ Lock(t) \/ Inside(t)

Spec == Init /\ [][Next]_vars

\* A thread in the library keeps running; the ioctl returns (SubgraphExec,
\* CallReturns).  Nothing is assumed of who gets the mutex.
FairSpec == Spec /\ \A t \in Threads : WF_vars(Inside(t))

-----------------------------------------------------------------------------
(* Properties.                                                             *)

TypeOK ==
    /\ pc \in [Threads -> {"idle", "open", "opened", "lock", "ioctl"}]
    /\ calls \in [Threads -> 0 .. MaxCalls]
    /\ ret \in [Threads -> BOOLEAN]
    /\ fds \subseteq Nat /\ nnaFd \in {-1} \cup fds
    /\ owner \in Threads \cup {Nobody}
    /\ openFailed \in BOOLEAN

\* A thread whose intelfpga_open succeeded makes its ioctl on an open descriptor,
\* although another thread may be storing into nna_fd, as long as no open fails.
IoctlOnOpenDevice ==
    \A t \in Threads : pc[t] \in {"lock", "ioctl"} => nnaFd \in fds \/ openFailed

\* The race on first use costs at most one descriptor per thread, however many
\* calls follow; none of them is ever closed.
DescriptorsBounded == openFailed \/ Cardinality(fds) <= Cardinality(Threads)

\* The library's mutex comes back after every ioctl, the failing ones included.
MutexComesBack == \A t \in Threads : owner = t ~> owner # t
=============================================================================
