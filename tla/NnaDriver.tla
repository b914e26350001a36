------------------------------- MODULE NnaDriver -------------------------------
(***************************************************************************)
(* The ioctl interface of the accelerator driver (nnadrv/src/nnadrv.c):    *)
(* several processes call it at once.  Each ioctl copies its argument in,  *)
(* takes pdata->mutex (or is interrupted by a signal while waiting for     *)
(* it), works on the one set of memory blocks, address registers and DMA   *)
(* completion the device has, gives the mutex back and returns.  REGWR     *)
(* writes a register without the mutex.                                    *)
(*                                                                         *)
(* NNA_CMD_CONV (nna_conv2d) is modelled in full; the node list walk of    *)
(* NNA_CMD_CONV_SUBGRAPH, which is the subject of SubgraphExec, is a       *)
(* sequence of runs of the IP here.  The data of a call is its tag <<p, n>>*)
(* (process, number of the call); a block holds the data of a call, or     *)
(* what the IP computed from it, or junk.  RESET, INFO and REGRD change    *)
(* nothing and are left out.                                               *)
(***************************************************************************)
EXTENDS Integers, FiniteSets

CONSTANTS
    Procs,      \* the processes that have the device open
    Commands,   \* the commands they use
    MaxCalls,   \* bound on the number of calls of a process
    MaxOps,     \* the length of the longest node list submitted
    None        \* no process

ASSUME DriverAssumption ==
    /\ None \notin Procs
    /\ Commands \subseteq {"CONV", "CONV_SUBGRAPH", "MCPY", "POOL", "REGWR"}
    /\ MaxCalls \in Nat /\ MaxOps \in Nat \ {0}

VARIABLES
    pc,         \* where each process is in ioctl()
    cmd,        \* the command of its current or last call
    err,        \* what that call returns or returned
    calls,      \* how many calls it has made
    owner,      \* the holder of pdata->mutex
    ops,        \* operations its subgraph call has started
    mem,        \* the blocks nna_conv2d uses
    regs,       \* the IP's address registers
    ip,         \* the IP
    dma,        \* the DMA channel and pdata->done
    got,        \* what the call has put into the caller's output buffer
    disturbed   \* history: the IP was running for somebody else when the call
                \* took the mutex, or a REGWR came between

vars == <<pc, cmd, err, calls, owner, ops, mem, regs, ip, dma, got, disturbed>>

Blocks == {"bs", "im", "km", "pm", "om"}
Elsewhere == "elsewhere"      \* any other address
Junk == <<None, 0>>           \* the data of no call

Tags == {Junk} \cup (Procs \X Nat)
Tag(p) == <<p, calls[p]>>

RegNames == {"in", "weight", "out", "scale", "param"}

\* The addresses nna_conv2d programs.
ConvRegs == [in |-> "im", weight |-> "km", out |-> "om", scale |-> "bs",
             param |-> "pm"]

Registers == [RegNames -> Blocks \cup {Elsewhere}]
IpStates == [busy : BOOLEAN, job : Registers, torn : BOOLEAN]

PCs == {"idle", "lock", "copyIn", "program", "start", "wait", "copyOut",
        "subgraph", "subWait", "dmaSubmit", "dmaWait", "stub", "unlock"}

Errors == {"ok", "EFAULT", "EINVAL", "ETIMEDOUT", "ERESTARTSYS", "EPERM"}

Init ==
    /\ pc = [p \in Procs |-> "idle"]
    /\ cmd = [p \in Procs |-> "none"]
    /\ err = [p \in Procs |-> "ok"]
    /\ calls = [p \in Procs |-> 0]
    /\ owner = None /\ ops = 0
    /\ mem = [b \in Blocks |-> Junk]
    /\ regs = [r \in RegNames |-> Elsewhere]
    /\ ip = [busy |-> FALSE, job |-> [r \in RegNames |-> Elsewhere], torn |-> FALSE]
    /\ dma = [xfer |-> Junk, done |-> FALSE]
    /\ got = [p \in Procs |-> Junk]
    /\ disturbed = [p \in Procs |-> FALSE]

-----------------------------------------------------------------------------
(* Entering and leaving ioctl().                                           *)

Goto(p, l) == pc' = [pc EXCEPT ![p] = l]
Fail(p, l, e) == Goto(p, l) /\ err' = [err EXCEPT ![p] = e]

\* What the switch does once it has the mutex.
Body(c) == CASE c = "CONV" -> "copyIn"
             [] c = "CONV_SUBGRAPH" -> "subgraph"
             [] c = "MCPY" -> "dmaSubmit"
             [] c = "POOL" -> "stub"

\* The argument is copied in before the mutex is asked for.
Enter(p, c) ==
    /\ pc[p] = "idle" /\ calls[p] < MaxCalls /\ c # "REGWR"
    /\ calls' = [calls EXCEPT ![p] = @ + 1]
    /\ cmd' = [cmd EXCEPT ![p] = c]
    /\ got' = [got EXCEPT ![p] = Junk]
    /\ \/ Fail(p, "lock", "ok")
       \/ Fail(p, "idle", "EFAULT")
    /\ UNCHANGED <<owner, ops, mem, regs, ip, dma, disturbed>>

\* mutex_lock_interruptible gets the mutex ...
LockMutant(p) ==
    /\ pc[p] = "lock"
    /\ owner' = p /\ ops' = 0
    /\ Goto(p, Body(cmd[p]))
    /\ disturbed' = [disturbed EXCEPT ![p] = ip.busy]
    /\ UNCHANGED <<cmd, err, calls, mem, regs, ip, dma, got>>

Lock(p) ==
    /\ pc[p] = "lock" /\ owner = None
    /\ owner' = p /\ ops' = 0
    /\ Goto(p, Body(cmd[p]))
    /\ disturbed' = [disturbed EXCEPT ![p] = ip.busy]
    /\ UNCHANGED <<cmd, err, calls, mem, regs, ip, dma, got>>

\* ... or a signal arrives first.
Interrupted(p) ==
    /\ pc[p] = "lock"
    /\ Fail(p, "idle", "ERESTARTSYS")
    /\ UNCHANGED <<cmd, calls, owner, ops, mem, regs, ip, dma, got, disturbed>>

UnlockMutant(p) ==
    /\ pc[p] = "unlock"
    /\ owner' = IF err[p] = "ok" THEN None ELSE owner
    /\ Goto(p, "idle")
    /\ UNCHANGED <<cmd, err, calls, ops, mem, regs, ip, dma, got, disturbed>>

Unlock(p) ==
    /\ pc[p] = "unlock"
    /\ owner' = None
    /\ Goto(p, "idle")
    /\ UNCHANGED <<cmd, err, calls, ops, mem, regs, ip, dma, got, disturbed>>

-----------------------------------------------------------------------------
(* nna_conv2d.                                                             *)

CopyOrder == <<"bs", "im", "km", "pm">>

\* Memory after the first n copies for p, and with the next one torn.
Copied(p, n) ==
    [b \in Blocks |-> IF \E k \in 1 .. n : CopyOrder[k] = b THEN Tag(p) ELSE mem[b]]
CopiedTorn(p, n) == [Copied(p, n) EXCEPT ![CopyOrder[n + 1]] = Junk]

\* A size is too big (EINVAL), a copy fails (EFAULT), or the data is in.
CopyIn(p) ==
    /\ pc[p] = "copyIn"
    /\ \/ Fail(p, "unlock", "EINVAL") /\ UNCHANGED <<mem, ip>>
       \/ /\ Fail(p, "unlock", "EFAULT")
          /\ \E n \in 0 .. 3 : mem' = CopiedTorn(p, n)
          /\ ip' = [ip EXCEPT !.torn = ip.busy]
       \/ /\ Goto(p, "program") /\ UNCHANGED err
          /\ mem' = Copied(p, 4)
          /\ ip' = [ip EXCEPT !.torn = ip.busy]
    /\ UNCHANGED <<cmd, calls, owner, ops, regs, dma, got, disturbed>>

Program(p) ==
    /\ pc[p] = "program"
    /\ regs' = ConvRegs
    /\ Goto(p, "start")
    /\ UNCHANGED <<cmd, err, calls, owner, ops, mem, ip, dma, got, disturbed>>

Run(r) == [busy |-> TRUE, job |-> r, torn |-> FALSE]

\* Writing START while the IP runs is either lost or starts it afresh.
Started(r) == IF ip.busy THEN {ip, Run(r)} ELSE {Run(r)}

Start(p) ==
    /\ pc[p] = "start"
    /\ ip' \in Started(regs)
    /\ Goto(p, "wait")
    /\ UNCHANGED <<cmd, err, calls, owner, ops, mem, regs, dma, got, disturbed>>

\* The poll: START reads other than 1, or NNA_COUNTER reads have found it 1.
WaitMutant(p) ==
    /\ pc[p] = "wait"
    /\ Goto(p, "copyOut") /\ UNCHANGED err
    /\ UNCHANGED <<cmd, calls, owner, ops, mem, regs, ip, dma, got, disturbed>>

Wait(p) ==
    /\ pc[p] = "wait"
    /\ IF ip.busy THEN Fail(p, "unlock", "ETIMEDOUT")
                  ELSE Goto(p, "copyOut") /\ UNCHANGED err
    /\ UNCHANGED <<cmd, calls, owner, ops, mem, regs, ip, dma, got, disturbed>>

CopyOut(p) ==
    /\ pc[p] = "copyOut"
    /\ \/ Fail(p, "unlock", "EFAULT") /\ UNCHANGED got
       \/ Goto(p, "unlock") /\ UNCHANGED err /\ got' = [got EXCEPT ![p] = mem["om"]]
    /\ UNCHANGED <<cmd, calls, owner, ops, mem, regs, ip, dma, disturbed>>

-----------------------------------------------------------------------------
(* nna_conv2d_subgraph, pool and full connection, DMA copy, REGWR.         *)

\* One operation of the walk: parameters and inputs go into the blocks, the
\* registers are programmed, the IP is started.  Or a copy fails.
SubgraphOp(p) ==
    /\ pc[p] = "subgraph"
    /\ ops' = ops + 1
    /\ mem' = [b \in Blocks |-> Junk]
    /\ \/ /\ regs' \in {ConvRegs, [r \in RegNames |-> Elsewhere]}
          /\ ip' \in Started(regs')
          /\ Goto(p, "subWait") /\ UNCHANGED err
       \/ /\ Fail(p, "unlock", "EFAULT")
          /\ ip' = [ip EXCEPT !.torn = ip.busy]
          /\ UNCHANGED regs
    /\ UNCHANGED <<cmd, calls, owner, dma, got, disturbed>>

\* The operation is over: the next one, the end of the list, or a failed copy
\* of an output.  What the walk delivers is right unless the IP was running
\* for somebody else (SubgraphExec, OutputsCorrect).
SubgraphWait(p) ==
    /\ pc[p] = "subWait"
    /\ IF ip.busy THEN Fail(p, "unlock", "ETIMEDOUT") /\ UNCHANGED got
       ELSE \/ ops < MaxOps /\ Goto(p, "subgraph") /\ UNCHANGED <<err, got>>
            \/ /\ Goto(p, "unlock") /\ UNCHANGED err
               /\ \E x \in {Tag(p)} \cup (IF disturbed[p] THEN {Junk} ELSE {}) :
                     got' = [got EXCEPT ![p] = x]
            \/ Fail(p, "unlock", "EFAULT") /\ UNCHANGED got
    /\ UNCHANGED <<cmd, calls, owner, ops, mem, regs, ip, dma, disturbed>>

\* nna_pool2d and nna_fullcon have no body.
Stub(p) ==
    /\ pc[p] = "stub"
    /\ Goto(p, "unlock")
    /\ UNCHANGED <<cmd, err, calls, owner, ops, mem, regs, ip, dma, got, disturbed>>

\* No channel, no descriptor or a refused submission returns -1; otherwise the
\* completion is initialised anew and the transfer issued.
DmaSubmit(p) ==
    /\ pc[p] = "dmaSubmit"
    /\ \/ Fail(p, "unlock", "EPERM") /\ UNCHANGED dma
       \/ /\ Goto(p, "dmaWait") /\ UNCHANGED err
          /\ dma' = [xfer |-> Tag(p), done |-> FALSE]
    /\ UNCHANGED <<cmd, calls, owner, ops, mem, regs, ip, got, disturbed>>

\* wait_for_completion: not interruptible, no time-out.
DmaWaitMutant(p) ==
    /\ pc[p] = "dmaWait"
    /\ dma' = [dma EXCEPT !.done = FALSE]
    /\ Goto(p, "unlock")
    /\ UNCHANGED <<cmd, err, calls, owner, ops, mem, regs, ip, got, disturbed>>

DmaWait(p) ==
    /\ pc[p] = "dmaWait" /\ dma.done
    /\ dma' = [dma EXCEPT !.done = FALSE]
    /\ Goto(p, "unlock")
    /\ UNCHANGED <<cmd, err, calls, owner, ops, mem, regs, ip, got, disturbed>>

\* REGWR: one register is written, whoever holds the mutex.  Clearing START may
\* or may not stop a run.
RegWrite(p) ==
    /\ pc[p] = "idle" /\ "REGWR" \in Commands /\ calls[p] < MaxCalls
    /\ calls' = [calls EXCEPT ![p] = @ + 1]
    /\ cmd' = [cmd EXCEPT ![p] = "REGWR"]
    /\ got' = [got EXCEPT ![p] = Junk]
    /\ err' = [err EXCEPT ![p] = "ok"]
    /\ disturbed' = [q \in Procs |-> TRUE]
    /\ \/ /\ \E r \in RegNames, a \in Blocks \cup {Elsewhere} :
                regs' = [regs EXCEPT ![r] = a]
          /\ UNCHANGED ip
       \/ /\ ip' \in Started(regs) \cup {ip, [ip EXCEPT !.busy = FALSE, !.torn = FALSE]}
          /\ UNCHANGED regs
    /\ UNCHANGED <<pc, owner, ops, mem, dma>>

-----------------------------------------------------------------------------
(* The hardware.                                                           *)

\* What the IP computes: the result of a call if all its inputs are that call's.
Result(job) ==
    IF /\ job.in = "im" /\ job.weight = "km" /\ job.scale = "bs" /\ job.param = "pm"
       /\ \A b \in {"im", "km", "bs"} : mem[b] = mem["pm"]
    THEN mem["pm"] ELSE Junk

IpFinish ==
    /\ ip.busy
    /\ ip' = [ip EXCEPT !.busy = FALSE, !.torn = FALSE]
    /\ \E x \in {Result(ip.job)} \cup (IF ip.torn THEN {Junk} ELSE {}) :
          mem' = [b \in Blocks |-> IF b = ip.job.out THEN x ELSE mem[b]]
    /\ UNCHANGED <<pc, cmd, err, calls, owner, ops, regs, dma, got, disturbed>>

\* The transfer is over: nna_dma_callback completes pdata->done.
DmaFinish ==
    /\ dma.xfer # Junk
    /\ dma' = [xfer |-> Junk, done |-> TRUE]
    /\ UNCHANGED <<pc, cmd, err, calls, owner, ops, mem, regs, ip, got, disturbed>>

-----------------------------------------------------------------------------
\* What a process does between taking the mutex and giving it back.
Work(p) ==
    \/ CopyIn(p) \/ Program(p) \/ Start(p) \/ Wait(p) \/ CopyOut(p)
    \/ SubgraphOp(p) \/ SubgraphWait(p)
    \/ DmaSubmit(p) \/ DmaWait(p) \/ Stub(p) \/ Unlock(p)

Next ==
    \/ \E p \in Procs :
          \/ \E c \in Commands : Enter(p, c)
          \/ Lock(p) \/ Interrupted(p) \/ Work(p) \/ RegWrite(p)
    \/ IpFinish \/ DmaFinish

Spec == Init /\ [][Next]_vars

\* A caller in the kernel keeps running, and the DMA engine finishes what it was
\* given.  Nothing is assumed of the IP, nor of who gets the mutex.
FairSpec ==
    /\ Spec
    /\ \A p \in Procs : WF_vars(Work(p))
    /\ WF_vars(DmaFinish)

-----------------------------------------------------------------------------
(* Properties.                                                             *)

TypeOK ==
    /\ pc \in [Procs -> PCs]
    /\ cmd \in [Procs -> Commands \cup {"none"}]
    /\ err \in [Procs -> Errors]
    /\ calls \in [Procs -> 0 .. MaxCalls]
    /\ owner \in Procs \cup {None} /\ ops \in 0 .. MaxOps
    /\ mem \in [Blocks -> Tags]
    /\ regs \in Registers /\ ip \in IpStates
    /\ dma \in [xfer : Tags, done : BOOLEAN]
    /\ got \in [Procs -> Tags]
    /\ disturbed \in [Procs -> BOOLEAN]

Inside(p) == pc[p] \notin {"idle", "lock"}

\* A convolution or subgraph call that returns 0 has put the result of its own
\* data into the caller's buffer, whatever the other processes were doing, unless
\* the IP was still running for an earlier call or a register was written under it.
OwnResult ==
    \A p \in Procs :
        /\ pc[p] = "idle" /\ cmd[p] \in {"CONV", "CONV_SUBGRAPH"}
        /\ err[p] = "ok" /\ ~disturbed[p]
        => got[p] = Tag(p)

\* MCPY comes back only when its own transfer is over, and no transfer is ever
\* left behind a process that has returned: the one completion in pdata is never
\* initialised under somebody who waits for it.
DmaIsOwn ==
    /\ \A p \in Procs : pc[p] = "dmaWait" => dma.xfer = Tag(p) \/ dma.done
    /\ dma.xfer # Junk => \E p \in Procs : pc[p] = "dmaWait" /\ dma.xfer = Tag(p)

\* Only a time-out, or a register written from outside, or a run that was already
\* there, leaves the IP running when the mutex is given back.
RunsEndUnderTheMutex ==
    [][\A p \in Procs : owner = p /\ owner' = None /\ ip.busy =>
          err[p] = "ETIMEDOUT" \/ disturbed[p]]_vars

\* Every holder of the mutex gives it back, even when the IP hangs: each path
\* out of each command, the failing ones included, ends in mutex_unlock.
MutexReleased == \A p \in Procs : owner = p ~> owner # p

\* A mutex held is held by the one process inside a locked command, and the other
\* way round: no path leaves the mutex behind or works without it.
MutexDiscipline == \A p \in Procs : Inside(p) <=> owner = p
=============================================================================
