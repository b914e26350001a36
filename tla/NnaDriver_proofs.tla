---------------------------- MODULE NnaDriver_proofs ----------------------------
(***************************************************************************)
(* Proofs about NnaDriver, for any set of processes and any number of      *)
(* calls.  The mutex makes the blocks, the registers, the IP and the one   *)
(* completion the property of the process that is inside a locked command; *)
(* from that follows what each step of nna_conv2d may rely on.             *)
(***************************************************************************)
EXTENDS NnaDriver, TLAPS

Inputs == {"bs", "im", "km", "pm"}

\* Commands meet at the mutex_unlock: how each got there.
CmdInv ==
    \A p \in Procs :
        /\ pc[p] = "lock" => cmd[p] \in {"CONV", "CONV_SUBGRAPH", "MCPY", "POOL"}
        /\ pc[p] \in {"dmaSubmit", "dmaWait"} => cmd[p] = "MCPY"
        /\ pc[p] = "stub" => cmd[p] = "POOL"
        /\ pc[p] = "subgraph" => ops < MaxOps

\* The IP is at rest in every step of an undisturbed call but its wait.
RestInv ==
    \A p \in Procs :
        (/\ Inside(p) /\ disturbed[p] = FALSE
         /\ pc[p] \notin {"wait", "subWait"}
         /\ ~(pc[p] = "unlock" /\ err[p] = "ETIMEDOUT"))
        => ip.busy = FALSE

\* The blocks, registers and the run of the IP are the undisturbed call's own.
Own(p) ==
    disturbed[p] = FALSE =>
        /\ pc[p] \in {"program", "start"} => \A b \in Inputs : mem[b] = Tag(p)
        /\ pc[p] = "start" => regs = ConvRegs
        /\ pc[p] = "wait" /\ ip.busy # FALSE =>
              /\ ip.torn = FALSE /\ ip.job = ConvRegs
              /\ \A b \in Inputs : mem[b] = Tag(p)
        /\ pc[p] = "wait" /\ ip.busy = FALSE => mem["om"] = Tag(p)
        /\ pc[p] = "copyOut" => mem["om"] = Tag(p)
        /\ (/\ pc[p] \in {"unlock", "idle"} /\ err[p] = "ok"
            /\ cmd[p] \in {"CONV", "CONV_SUBGRAPH"}) => got[p] = Tag(p)

OwnInv == \A p \in Procs : Own(p)

\* The transfer under way is the one of the process that waits for it.
DmaInv ==
    /\ \A p \in Procs : pc[p] = "dmaWait" =>
          dma.xfer = Tag(p) \/ (dma.xfer = Junk /\ dma.done # FALSE)
    /\ dma.xfer # Junk =>
          /\ dma.done = FALSE
          /\ \E p \in Procs : pc[p] = "dmaWait" /\ dma.xfer = Tag(p)

IInv == TypeOK /\ MutexDiscipline /\ CmdInv /\ RestInv /\ OwnInv /\ DmaInv

USE DriverAssumption

-----------------------------------------------------------------------------
(* Type correctness.                                                       *)

\* Tags are what the types say.
LEMMA TagTypes == ASSUME TypeOK, NEW p \in Procs
                  PROVE  Tag(p) \in Tags /\ Junk \in Tags /\ Tag(p) # Junk
BY DEF TypeOK, Tag, Tags, Junk

\* So are the states START can put the IP in, and clearing START or tearing a run.
LEMMA IpTypes == ASSUME TypeOK, NEW r \in Registers
                 PROVE  /\ Started(r) \subseteq IpStates
                        /\ [ip EXCEPT !.busy = FALSE, !.torn = FALSE] \in IpStates
                        /\ [ip EXCEPT !.torn = ip.busy] \in IpStates
<1>1. ip \in [busy : BOOLEAN, job : Registers, torn : BOOLEAN]
  BY DEF TypeOK, IpStates
<1>2. Run(r) \in IpStates
  BY DEF Run, IpStates
<1>3. Started(r) \subseteq IpStates
  BY <1>2 DEF Started, TypeOK
<1>4. [ip EXCEPT !.busy = FALSE, !.torn = FALSE] \in IpStates
  BY <1>1 DEF IpStates
<1>5. [ip EXCEPT !.torn = ip.busy] \in IpStates
  BY <1>1, Zenon DEF IpStates
<1> QED BY <1>3, <1>4, <1>5

\* Each step keeps the types.
LEMMA TypeStep == ASSUME TypeOK, CmdInv, [Next]_vars PROVE TypeOK'
<1> USE DEF TypeOK
<1>1. ASSUME NEW p \in Procs, NEW c \in Commands, Enter(p, c) PROVE TypeOK'
  <2>1. Junk \in Tags
    BY DEF Tags
  <2> QED BY <1>1, <2>1 DEF Enter, Fail, Goto, PCs, Errors
<1>2. ASSUME NEW p \in Procs, Lock(p) PROVE TypeOK'
  <2>1. Body(cmd[p]) \in PCs
    BY <1>2 DEF CmdInv, Lock, Body, PCs
  <2>2. ip.busy \in BOOLEAN
    BY DEF IpStates
  <2>3. disturbed' \in [Procs -> BOOLEAN]
    BY <1>2, <2>2, Zenon DEF Lock
  <2>4. pc' \in [Procs -> PCs]
    BY <1>2, <2>1 DEF Lock, Goto
  <2> QED BY <1>2, <2>3, <2>4 DEF Lock
<1>3. ASSUME NEW p \in Procs, Interrupted(p) PROVE TypeOK'
  BY <1>3 DEF Interrupted, Fail, Goto, PCs, Errors
<1>4. ASSUME NEW p \in Procs, Work(p) PROVE TypeOK'
  <2>1. CASE CopyIn(p)
    <3>1. Tag(p) \in Tags /\ Junk \in Tags
      BY TagTypes
    <3>2. pc' \in [Procs -> PCs] /\ err' \in [Procs -> Errors]
      BY <2>1 DEF CopyIn, Fail, Goto, PCs, Errors
    <3>3. mem' \in [Blocks -> Tags]
      <4>1. \A n \in 0 .. 4 : Copied(p, n) \in [Blocks -> Tags]
        BY <3>1 DEF Copied
      <4>2. \A n \in 0 .. 3 : CopiedTorn(p, n) \in [Blocks -> Tags]
        <5> SUFFICES ASSUME NEW n \in 0 .. 3 PROVE CopiedTorn(p, n) \in [Blocks -> Tags]
          OBVIOUS
        <5>1. Copied(p, n) \in [Blocks -> Tags]
          BY <4>1
        <5> QED BY <3>1, <5>1 DEF CopiedTorn
      <4> QED BY <2>1, <4>1, <4>2 DEF CopyIn
    <3>4. ip' \in IpStates
      BY <2>1, IpTypes DEF CopyIn
    <3> QED BY <2>1, <3>2, <3>3, <3>4 DEF CopyIn
  <2>2. CASE Program(p)
    <3>1. ConvRegs \in Registers
      BY DEF ConvRegs, Registers, RegNames, Blocks
    <3> QED BY <2>2, <3>1 DEF Program, Goto, PCs
  <2>3. CASE Start(p)
    BY <2>3, IpTypes DEF Start, Goto, PCs
  <2>4. CASE Wait(p)
    BY <2>4 DEF Wait, Fail, Goto, PCs, Errors
  <2>5. CASE CopyOut(p)
    <3>1. mem["om"] \in Tags
      BY DEF Blocks
    <3> QED BY <2>5, <3>1 DEF CopyOut, Fail, Goto, PCs, Errors
  <2>6. CASE SubgraphOp(p)
    <3>1. regs' \in Registers
      BY <2>6 DEF SubgraphOp, ConvRegs, Registers, RegNames, Blocks
    <3>2. ip' \in IpStates
      BY <2>6, <3>1, IpTypes DEF SubgraphOp
    <3>3. ops' \in 0 .. MaxOps
      BY <2>6 DEF SubgraphOp, CmdInv
    <3>4. mem' \in [Blocks -> Tags]
      BY <2>6, TagTypes DEF SubgraphOp
    <3>5. pc' \in [Procs -> PCs] /\ err' \in [Procs -> Errors]
      BY <2>6 DEF SubgraphOp, Fail, Goto, PCs, Errors
    <3> QED BY <2>6, <3>1, <3>2, <3>3, <3>4, <3>5 DEF SubgraphOp
  <2>7. CASE SubgraphWait(p)
    <3>1. got' \in [Procs -> Tags]
      BY <2>7, TagTypes DEF SubgraphWait
    <3>2. pc' \in [Procs -> PCs] /\ err' \in [Procs -> Errors]
      BY <2>7 DEF SubgraphWait, Fail, Goto, PCs, Errors
    <3> QED BY <2>7, <3>1, <3>2 DEF SubgraphWait
  <2>8. CASE DmaSubmit(p)
    <3>1. dma' \in [xfer : Tags, done : BOOLEAN]
      <4>1. [xfer |-> Tag(p), done |-> FALSE] \in [xfer : Tags, done : BOOLEAN]
        BY TagTypes
      <4> QED BY <2>8, <4>1 DEF DmaSubmit
    <3>2. pc' \in [Procs -> PCs] /\ err' \in [Procs -> Errors]
      BY <2>8 DEF DmaSubmit, Fail, Goto, PCs, Errors
    <3> QED BY <2>8, <3>1, <3>2 DEF DmaSubmit
  <2>9. CASE DmaWait(p)
    BY <2>9 DEF DmaWait, Goto, PCs
  <2>10. CASE Stub(p)
    BY <2>10 DEF Stub, Goto, PCs
  <2>11. CASE Unlock(p)
    BY <2>11 DEF Unlock, Goto, PCs
  <2> QED BY <1>4, <2>1, <2>2, <2>3, <2>4, <2>5, <2>6, <2>7, <2>8, <2>9, <2>10, <2>11
          DEF Work
<1>5. ASSUME NEW p \in Procs, RegWrite(p) PROVE TypeOK'
  <2>1. ip' \in IpStates
    BY <1>5, IpTypes DEF RegWrite
  <2>2. Junk \in Tags
    BY DEF Tags
  <2>3. regs' \in Registers
    BY <1>5 DEF RegWrite, Registers
  <2>4. /\ cmd' \in [Procs -> Commands \cup {"none"}]
        /\ err' \in [Procs -> Errors]
        /\ calls' \in [Procs -> 0 .. MaxCalls]
    BY <1>5 DEF RegWrite, Errors
  <2>5. got' \in [Procs -> Tags] /\ disturbed' \in [Procs -> BOOLEAN]
    BY <1>5, <2>2 DEF RegWrite
  <2> QED BY <1>5, <2>1, <2>3, <2>4, <2>5 DEF RegWrite
<1>6. CASE IpFinish
  <2>1. Result(ip.job) \in Tags /\ Junk \in Tags
    BY DEF Result, Tags, Blocks
  <2>2. mem' \in [Blocks -> Tags]
    BY <1>6, <2>1 DEF IpFinish
  <2>3. ip' \in IpStates
    BY <1>6, IpTypes DEF IpFinish
  <2> QED BY <1>6, <2>2, <2>3 DEF IpFinish
<1>7. CASE DmaFinish
  BY <1>7 DEF DmaFinish, Tags
<1>8. CASE UNCHANGED vars
  BY <1>8 DEF vars
<1> QED BY <1>1, <1>2, <1>3, <1>4, <1>5, <1>6, <1>7, <1>8 DEF Next

-----------------------------------------------------------------------------
(* The mutex.                                                              *)

\* Whoever is inside holds the mutex, and only he.
LEMMA MutexStep == ASSUME TypeOK, MutexDiscipline, CmdInv, [Next]_vars
                   PROVE  MutexDiscipline' /\ CmdInv'
<1> USE DEF TypeOK, MutexDiscipline, CmdInv, Inside
<1>1. ASSUME NEW p \in Procs, NEW c \in Commands, Enter(p, c)
      PROVE  MutexDiscipline' /\ CmdInv'
  BY <1>1 DEF Enter, Fail, Goto
<1>2. ASSUME NEW p \in Procs, Lock(p) PROVE MutexDiscipline' /\ CmdInv'
  <2>1. /\ pc[p] = "lock" /\ owner = None /\ owner' = p /\ cmd' = cmd
        /\ pc' = [pc EXCEPT ![p] = Body(cmd[p])]
    BY <1>2 DEF Lock, Goto
  <2>2. /\ Body(cmd[p]) \notin {"idle", "lock"}
        /\ Body(cmd[p]) \in {"dmaSubmit", "dmaWait"} => cmd[p] = "MCPY"
        /\ Body(cmd[p]) = "stub" => cmd[p] = "POOL"
        /\ ops' = 0
    BY <1>2, <2>1 DEF Body, Lock
  <2> QED BY <2>1, <2>2
<1>3. ASSUME NEW p \in Procs, Interrupted(p) PROVE MutexDiscipline' /\ CmdInv'
  BY <1>3 DEF Interrupted, Fail, Goto
<1>4. ASSUME NEW p \in Procs, Work(p), ~Unlock(p)
      PROVE  MutexDiscipline' /\ CmdInv'
  <2>1. \E l \in PCs \ {"idle", "lock"} :
           /\ pc' = [pc EXCEPT ![p] = l]
           /\ l \in {"dmaSubmit", "dmaWait"} => cmd[p] = "MCPY"
           /\ l = "stub" => cmd[p] = "POOL"
           /\ l = "subgraph" => ops' < MaxOps
    BY <1>4 DEF Work, CopyIn, Program, Start, Wait, CopyOut, SubgraphOp,
                SubgraphWait, DmaSubmit, DmaWait, Stub, Fail, Goto, PCs
  <2>2. owner' = owner /\ cmd' = cmd /\ pc[p] \notin {"idle", "lock"}
    BY <1>4 DEF Work, CopyIn, Program, Start, Wait, CopyOut, SubgraphOp,
                SubgraphWait, DmaSubmit, DmaWait, Stub
  <2> QED BY <2>1, <2>2
<1>5. ASSUME NEW p \in Procs, Unlock(p) PROVE MutexDiscipline' /\ CmdInv'
  BY <1>5 DEF Unlock, Goto
<1>6. ASSUME NEW p \in Procs, RegWrite(p) PROVE MutexDiscipline' /\ CmdInv'
  BY <1>6 DEF RegWrite
<1>7. CASE IpFinish
  BY <1>7 DEF IpFinish
<1>8. CASE DmaFinish
  BY <1>8 DEF DmaFinish
<1>9. CASE UNCHANGED vars
  BY <1>9 DEF vars
<1> QED BY <1>1, <1>2, <1>3, <1>4, <1>5, <1>6, <1>7, <1>8, <1>9 DEF Next

\* While one process works, the others are outside and keep what they have.
LEMMA Others ==
    ASSUME TypeOK, MutexDiscipline, NEW p \in Procs, Work(p)
    PROVE  /\ Inside(p) /\ owner = p
           /\ cmd' = cmd /\ calls' = calls /\ disturbed' = disturbed
           /\ \A q \in Procs \ {p} :
                 /\ ~Inside(q)
                 /\ pc'[q] = pc[q] /\ err'[q] = err[q] /\ got'[q] = got[q]
<1>1. Inside(p) /\ cmd' = cmd /\ calls' = calls /\ disturbed' = disturbed
  BY DEF Inside, Work, CopyIn, Program, Start, Wait, CopyOut, SubgraphOp,
         SubgraphWait, DmaSubmit, DmaWait, Stub, Unlock
<1>2. owner = p /\ \A q \in Procs \ {p} : ~Inside(q)
  BY <1>1 DEF MutexDiscipline
<1>3. \A q \in Procs \ {p} : pc'[q] = pc[q] /\ err'[q] = err[q] /\ got'[q] = got[q]
  BY DEF TypeOK, Work, CopyIn, Program, Start, Wait, CopyOut, SubgraphOp,
         SubgraphWait, DmaSubmit, DmaWait, Stub, Unlock, Fail, Goto
<1> QED BY <1>1, <1>2, <1>3

-----------------------------------------------------------------------------
(* The IP.                                                                 *)

\* An undisturbed call finds the IP at rest and leaves it so, unless it waits
\* for it or has given up waiting.
LEMMA RestStep ==
    ASSUME TypeOK, MutexDiscipline, RestInv, [Next]_vars PROVE RestInv'
<1>1. ASSUME NEW p \in Procs, NEW c \in Commands, Enter(p, c) PROVE RestInv'
  BY <1>1 DEF Enter, Fail, Goto, RestInv, Inside, TypeOK
<1>2. ASSUME NEW p \in Procs, Lock(p) PROVE RestInv'
  <2> SUFFICES ASSUME NEW q \in Procs, Inside(q)', disturbed'[q] = FALSE
               PROVE  ip'.busy = FALSE
    BY DEF RestInv
  <2>1. ip' = ip /\ owner = None
    BY <1>2 DEF Lock
  <2>2. CASE q = p
    BY <1>2, <2>1, <2>2 DEF Lock, TypeOK
  <2>3. CASE q # p
    <3>1. Inside(q)
      BY <1>2, <2>3 DEF Lock, Goto, TypeOK, Inside
    <3> QED BY <3>1, <2>1 DEF MutexDiscipline
  <2> QED BY <2>2, <2>3
<1>3. ASSUME NEW p \in Procs, Interrupted(p) PROVE RestInv'
  BY <1>3 DEF Interrupted, Fail, Goto, RestInv, Inside, TypeOK
<1>4. ASSUME NEW p \in Procs, Work(p) PROVE RestInv'
  <2> SUFFICES ASSUME NEW q \in Procs, Inside(q)', disturbed'[q] = FALSE,
                      pc'[q] \notin {"wait", "subWait"},
                      ~(pc'[q] = "unlock" /\ err'[q] = "ETIMEDOUT")
               PROVE  ip'.busy = FALSE
    BY DEF RestInv
  <2>1. q = p /\ disturbed[p] = FALSE /\ Inside(p)
    BY <1>4, Others DEF Inside
  <2>2. pc[p] \notin {"wait", "subWait", "unlock"} => ip.busy = FALSE
    BY <2>1 DEF RestInv
  <2>3. CASE CopyIn(p)
    <3>1. pc[p] = "copyIn" /\ ip.busy = FALSE
      BY <2>2, <2>3 DEF CopyIn
    <3> QED BY <2>3, <3>1 DEF CopyIn, TypeOK, IpStates
  <2>4. CASE Program(p) \/ CopyOut(p) \/ DmaSubmit(p) \/ DmaWait(p) \/ Stub(p)
    BY <2>2, <2>4 DEF Program, CopyOut, DmaSubmit, DmaWait, Stub
  <2>5. CASE Start(p)
    BY <2>1, <2>5 DEF Start, Goto, TypeOK
  <2>6. CASE Wait(p)
    BY <2>1, <2>6 DEF Wait, Fail, Goto, TypeOK, IpStates
  <2>7. CASE SubgraphOp(p)
    <3>1. pc[p] = "subgraph" /\ ip.busy = FALSE
      BY <2>2, <2>7 DEF SubgraphOp
    <3>2. pc'[p] # "subWait"
      BY <2>1
    <3>3. ip' = [ip EXCEPT !.torn = ip.busy]
      BY <2>7, <3>2 DEF SubgraphOp, Goto, TypeOK
    <3> QED BY <3>1, <3>3 DEF TypeOK, IpStates
  <2>8. CASE SubgraphWait(p)
    BY <2>1, <2>8 DEF SubgraphWait, Fail, Goto, TypeOK, IpStates
  <2>9. CASE Unlock(p)
    BY <2>1, <2>9 DEF Unlock, Goto, TypeOK, Inside
  <2> QED BY <1>4, <2>3, <2>4, <2>5, <2>6, <2>7, <2>8, <2>9 DEF Work
<1>5. ASSUME NEW p \in Procs, RegWrite(p) PROVE RestInv'
  BY <1>5 DEF RegWrite, RestInv
<1>6. CASE IpFinish
  BY <1>6 DEF IpFinish, RestInv, TypeOK, IpStates
<1>7. CASE DmaFinish
  BY <1>7 DEF DmaFinish, RestInv, Inside
<1>8. CASE UNCHANGED vars
  BY <1>8 DEF vars, RestInv, Inside
<1> QED BY <1>1, <1>2, <1>3, <1>4, <1>5, <1>6, <1>7, <1>8 DEF Next

\* Steps that leave a process and what it owns alone.
LEMMA OwnKept ==
    ASSUME NEW q \in Procs, Own(q), pc'[q] \in {"idle", "lock"}, pc'[q] = pc[q],
           err'[q] = err[q], cmd'[q] = cmd[q], got'[q] = got[q],
           disturbed'[q] = disturbed[q], calls'[q] = calls[q]
    PROVE  Own(q)'
BY DEF Own, Tag

\* What an undisturbed call has put into the blocks, the registers and the run
\* of the IP is there when it needs it.
LEMMA OwnStep ==
    ASSUME TypeOK, MutexDiscipline, CmdInv, RestInv, OwnInv, [Next]_vars
    PROVE  OwnInv'
<1> SUFFICES ASSUME NEW q \in Procs PROVE Own(q)'
  BY DEF OwnInv
<1>0. Own(q)
  BY DEF OwnInv
<1>1. ASSUME NEW p \in Procs, NEW c \in Commands, Enter(p, c) PROVE Own(q)'
  <2>1. CASE q = p
    BY <1>1, <2>1 DEF Enter, Fail, Goto, Own, TypeOK
  <2>2. CASE q # p
    BY <1>0, <1>1, <2>2 DEF Enter, Fail, Goto, Own, TypeOK, Tag
  <2> QED BY <2>1, <2>2
<1>2. ASSUME NEW p \in Procs, Lock(p) PROVE Own(q)'
  <2>1. CASE q = p
    <3>1. pc'[p] \in {"copyIn", "subgraph", "dmaSubmit", "stub"}
      BY <1>2 DEF Lock, Goto, Body, CmdInv, TypeOK
    <3> QED BY <2>1, <3>1 DEF Own
  <2>2. CASE q # p
    BY <1>0, <1>2, <2>2 DEF Lock, Goto, Own, TypeOK, Tag
  <2> QED BY <2>1, <2>2
<1>3. ASSUME NEW p \in Procs, Interrupted(p) PROVE Own(q)'
  <2>1. CASE q = p
    BY <1>3, <2>1 DEF Interrupted, Fail, Goto, Own, TypeOK
  <2>2. CASE q # p
    BY <1>0, <1>3, <2>2 DEF Interrupted, Fail, Goto, Own, TypeOK, Tag
  <2> QED BY <2>1, <2>2
<1>4. ASSUME NEW p \in Procs, Work(p), q # p PROVE Own(q)'
  <2>1. /\ pc'[q] = pc[q] /\ err'[q] = err[q] /\ got'[q] = got[q]
        /\ cmd' = cmd /\ calls' = calls /\ disturbed' = disturbed
        /\ pc[q] \in {"idle", "lock"}
    BY <1>4, Others DEF Inside
  <2> QED BY <1>0, <2>1, OwnKept
<1>5. ASSUME Work(q) PROVE Own(q)'
  <2> SUFFICES ASSUME disturbed'[q] = FALSE PROVE Own(q)'
    BY DEF Own
  <2>1. /\ disturbed[q] = FALSE /\ cmd' = cmd /\ Tag(q)' = Tag(q)
    BY <1>5, Others DEF Tag
  <2>2. pc[q] \in PCs /\ pc'[q] \in PCs
    BY TypeStep DEF TypeOK
  <2>3. CASE CopyIn(q)
    <3>1. CASE pc'[q] = "program"
      <4>1. mem' = Copied(q, 4)
        BY <2>3, <3>1 DEF CopyIn, Fail, Goto, TypeOK
      <4>2. \A b \in Inputs : mem'[b] = Tag(q)
        <5>1. /\ CopyOrder[1] = "bs" /\ CopyOrder[2] = "im"
              /\ CopyOrder[3] = "km" /\ CopyOrder[4] = "pm"
          BY DEF CopyOrder
        <5>2. \A b \in Inputs : b \in Blocks /\ \E k \in 1 .. 4 : CopyOrder[k] = b
          BY <5>1 DEF Inputs, Blocks
        <5> QED BY <4>1, <5>2 DEF Copied
      <4> QED BY <2>1, <3>1, <4>2 DEF Own
    <3>2. CASE pc'[q] # "program"
      <4>1. pc'[q] = "unlock" /\ err'[q] # "ok"
        BY <2>3, <3>2 DEF CopyIn, Fail, Goto, TypeOK
      <4> QED BY <4>1 DEF Own
    <3> QED BY <3>1, <3>2
  <2>4. CASE Program(q)
    BY <1>0, <2>1, <2>4 DEF Program, Goto, Own, TypeOK
  <2>5. CASE Start(q)
    <3>1. /\ pc[q] = "start" /\ pc'[q] = "wait" /\ ip.busy = FALSE /\ mem' = mem
      BY <2>1, <2>5 DEF Start, Goto, TypeOK, RestInv, Inside
    <3>2. ip' = [busy |-> TRUE, job |-> ConvRegs, torn |-> FALSE]
      BY <1>0, <2>1, <2>5, <3>1 DEF Start, Started, Run, Own
    <3> QED BY <1>0, <2>1, <3>1, <3>2 DEF Own
  <2>6. CASE Wait(q)
    <3>1. CASE ip.busy
      BY <2>6, <3>1 DEF Wait, Fail, Goto, Own, TypeOK
    <3>2. CASE ~ip.busy
      <4>1. ip.busy = FALSE
        BY <3>2 DEF TypeOK, IpStates
      <4> QED BY <1>0, <2>1, <2>6, <3>2, <4>1 DEF Wait, Goto, Own, TypeOK
    <3> QED BY <3>1, <3>2
  <2>7. CASE CopyOut(q)
    BY <1>0, <2>1, <2>7 DEF CopyOut, Fail, Goto, Own, TypeOK
  <2>8. CASE SubgraphOp(q)
    <3>1. pc'[q] = "subWait" \/ (pc'[q] = "unlock" /\ err'[q] # "ok")
      BY <2>8 DEF SubgraphOp, Fail, Goto, TypeOK
    <3> QED BY <3>1 DEF Own
  <2>9. CASE SubgraphWait(q)
    <3>1. \/ pc'[q] = "subgraph"
          \/ pc'[q] = "unlock" /\ err'[q] # "ok"
          \/ pc'[q] = "unlock" /\ got'[q] = Tag(q)
      BY <2>1, <2>9 DEF SubgraphWait, Fail, Goto, TypeOK
    <3> QED BY <2>1, <3>1 DEF Own
  <2>10. CASE DmaSubmit(q) \/ DmaWait(q) \/ Stub(q)
    <3>1. cmd'[q] \notin {"CONV", "CONV_SUBGRAPH"}
      BY <2>1, <2>10 DEF DmaSubmit, DmaWait, Stub, CmdInv
    <3>2. pc'[q] \in {"unlock", "dmaWait"}
      BY <2>10 DEF DmaSubmit, DmaWait, Stub, Fail, Goto, TypeOK
    <3> QED BY <3>1, <3>2 DEF Own
  <2>11. CASE Unlock(q)
    BY <1>0, <2>1, <2>11 DEF Unlock, Goto, Own, TypeOK
  <2> QED BY <1>5, <2>3, <2>4, <2>5, <2>6, <2>7, <2>8, <2>9, <2>10, <2>11 DEF Work
<1>6. ASSUME NEW p \in Procs, RegWrite(p) PROVE Own(q)'
  BY <1>6 DEF RegWrite, Own
<1>7. CASE IpFinish
  <2> SUFFICES ASSUME disturbed'[q] = FALSE PROVE Own(q)'
    BY DEF Own
  <2>1. /\ disturbed[q] = FALSE /\ Tag(q)' = Tag(q) /\ pc' = pc /\ err' = err
        /\ cmd' = cmd /\ got' = got /\ ip.busy # FALSE
    BY <1>7 DEF IpFinish, Tag
  <2>2. pc[q] \notin {"program", "start", "copyOut"}
    BY <2>1 DEF RestInv, Inside
  <2>3. CASE pc[q] = "wait"
    <3>1. /\ ip.torn = FALSE /\ ip.job = ConvRegs
          /\ \A b \in Inputs : mem[b] = Tag(q)
      BY <1>0, <2>1, <2>3 DEF Own
    <3>2. Result(ip.job) = Tag(q)
      BY <3>1 DEF Result, ConvRegs, Inputs
    <3>3. mem'["om"] = Tag(q)
      BY <1>7, <3>1, <3>2 DEF IpFinish, ConvRegs, Blocks
    <3>4. ip'.busy = FALSE
      BY <1>7 DEF IpFinish, TypeOK, IpStates
    <3> QED BY <2>1, <2>3, <3>3, <3>4 DEF Own
  <2>4. CASE pc[q] # "wait"
    BY <1>0, <2>1, <2>2, <2>4 DEF Own
  <2> QED BY <2>3, <2>4
<1>8. CASE DmaFinish
  BY <1>0, <1>8 DEF DmaFinish, Own, Tag
<1>9. CASE UNCHANGED vars
  BY <1>0, <1>9 DEF vars, Own, Tag
<1> QED BY <1>1, <1>2, <1>3, <1>4, <1>5, <1>6, <1>7, <1>8, <1>9 DEF Next

-----------------------------------------------------------------------------
(* The DMA channel.                                                        *)

\* The one completion serves the one process that waits for it.
LEMMA DmaStep ==
    ASSUME TypeOK, MutexDiscipline, CmdInv, DmaInv, [Next]_vars PROVE DmaInv'
<1>1. ASSUME NEW p \in Procs, Work(p) PROVE DmaInv'
  <2>1. /\ calls' = calls /\ Inside(p)
        /\ \A r \in Procs \ {p} : pc[r] # "dmaWait" /\ pc'[r] # "dmaWait"
    BY <1>1, Others DEF Inside
  <2>2. CASE DmaSubmit(p)
    <3>1. dma.xfer = Junk
      BY <2>1, <2>2 DEF DmaInv, DmaSubmit
    <3>2. CASE pc'[p] = "dmaWait"
      <4>1. dma' = [xfer |-> Tag(p), done |-> FALSE]
        BY <2>2, <3>2 DEF DmaSubmit, Fail, Goto, TypeOK
      <4> QED BY <2>1, <3>2, <4>1 DEF DmaInv, Tag
    <3>3. CASE pc'[p] # "dmaWait"
      <4>1. dma' = dma
        BY <2>2, <3>3 DEF DmaSubmit, Goto, TypeOK
      <4> QED BY <2>1, <3>1, <3>3, <4>1 DEF DmaInv
    <3> QED BY <3>2, <3>3
  <2>3. CASE DmaWait(p)
    <3>1. dma.xfer = Junk
      BY <2>3 DEF DmaInv, DmaWait, TypeOK
    <3>2. dma'.xfer = Junk /\ pc'[p] # "dmaWait"
      BY <2>3, <3>1 DEF DmaWait, Goto, TypeOK
    <3> QED BY <2>1, <3>2 DEF DmaInv
  <2>4. CASE ~DmaSubmit(p) /\ ~DmaWait(p)
    <3>1. dma' = dma /\ pc[p] # "dmaWait" /\ pc'[p] # "dmaWait"
      BY <1>1, <2>4 DEF Work, CopyIn, Program, Start, Wait, CopyOut, SubgraphOp,
            SubgraphWait, Stub, Unlock, Fail, Goto, TypeOK
    <3> QED BY <2>1, <3>1 DEF DmaInv
  <2> QED BY <2>2, <2>3, <2>4
<1>2. ASSUME NEW p \in Procs, NEW c \in Commands, Enter(p, c) PROVE DmaInv'
  <2>1. /\ dma' = dma /\ pc[p] # "dmaWait" /\ pc'[p] # "dmaWait"
        /\ \A r \in Procs \ {p} : pc'[r] = pc[r] /\ Tag(r)' = Tag(r)
    BY <1>2 DEF Enter, Fail, Goto, TypeOK, Tag
  <2> QED BY <2>1 DEF DmaInv
<1>3. ASSUME NEW p \in Procs, RegWrite(p) PROVE DmaInv'
  <2>1. /\ dma' = dma /\ pc' = pc /\ pc[p] # "dmaWait"
        /\ \A r \in Procs \ {p} : Tag(r)' = Tag(r)
    BY <1>3 DEF RegWrite, TypeOK, Tag
  <2> QED BY <2>1 DEF DmaInv
<1>4. ASSUME NEW p \in Procs, Lock(p) \/ Interrupted(p) PROVE DmaInv'
  <2>1. /\ dma' = dma /\ calls' = calls /\ pc[p] # "dmaWait" /\ pc'[p] # "dmaWait"
        /\ \A r \in Procs \ {p} : pc'[r] = pc[r]
    <3>1. Body(cmd[p]) # "dmaWait" \/ Interrupted(p)
      BY <1>4 DEF Lock, Body, CmdInv
    <3> QED BY <1>4, <3>1 DEF Lock, Interrupted, Fail, Goto, TypeOK
  <2> QED BY <2>1 DEF DmaInv, Tag
<1>5. CASE IpFinish
  BY <1>5 DEF IpFinish, DmaInv, Tag
<1>6. CASE DmaFinish
  BY <1>6 DEF DmaFinish, DmaInv, TypeOK, Tag
<1>7. CASE UNCHANGED vars
  BY <1>7 DEF vars, DmaInv, Tag
<1> QED BY <1>1, <1>2, <1>3, <1>4, <1>5, <1>6, <1>7 DEF Next

-----------------------------------------------------------------------------
(* The theorems.                                                           *)

\* The inductive invariant holds in every reachable state.
LEMMA Invariant == Spec => []IInv
<1>1. Init => IInv
  <2> SUFFICES ASSUME Init PROVE IInv
    OBVIOUS
  <2>1. TypeOK
    <3>1. Junk \in Tags
      BY DEF Tags
    <3>2. [r \in RegNames |-> Elsewhere] \in Registers
      BY DEF Registers
    <3> QED BY <3>1, <3>2 DEF Init, TypeOK, PCs, Errors, IpStates
  <2>2. MutexDiscipline /\ CmdInv /\ RestInv
    BY DEF Init, MutexDiscipline, CmdInv, RestInv, Inside
  <2>3. OwnInv
    BY DEF Init, OwnInv, Own
  <2>4. DmaInv
    BY DEF Init, DmaInv
  <2> QED BY <2>1, <2>2, <2>3, <2>4 DEF IInv
<1>2. IInv /\ [Next]_vars => IInv'
  BY TypeStep, MutexStep, RestStep, OwnStep, DmaStep DEF IInv
<1> QED BY <1>1, <1>2, PTL DEF Spec

\* All variables keep their types.
THEOREM DriverTypes == Spec => []TypeOK
<1>1. IInv => TypeOK
  BY DEF IInv
<1> QED BY <1>1, Invariant, PTL

\* The mutex is held exactly while a locked command is being served: every path
\* through ioctl takes it once and gives it back.
THEOREM MutexIsKept == Spec => []MutexDiscipline
<1>1. IInv => MutexDiscipline
  BY DEF IInv
<1> QED BY <1>1, Invariant, PTL

\* A convolution or subgraph ioctl that returns 0 has delivered the caller's own
\* result, however many processes share the device.
THEOREM ResultsAreOwn == Spec => []OwnResult
<1>1. IInv => OwnResult
  <2> SUFFICES ASSUME IInv, NEW p \in Procs, pc[p] = "idle",
                      cmd[p] \in {"CONV", "CONV_SUBGRAPH"}, err[p] = "ok", ~disturbed[p]
               PROVE  got[p] = Tag(p)
    BY DEF OwnResult
  <2>1. disturbed[p] = FALSE
    BY DEF IInv, TypeOK
  <2> QED BY <2>1 DEF IInv, OwnInv, Own
<1> QED BY <1>1, Invariant, PTL

\* A DMA copy waits for its own transfer, and leaves none behind.
THEOREM TransfersAreOwn == Spec => []DmaIsOwn
<1>1. IInv => DmaIsOwn
  <2> SUFFICES ASSUME IInv PROVE DmaIsOwn
    OBVIOUS
  <2>1. dma.done # FALSE => dma.done
    BY DEF IInv, TypeOK
  <2> QED BY <2>1 DEF IInv, DmaInv, DmaIsOwn
<1> QED BY <1>1, Invariant, PTL

\* An undisturbed call that gives the mutex back without a time-out leaves the IP
\* at rest for the next one.
THEOREM RunsEnd == Spec => RunsEndUnderTheMutex
<1>1. IInv /\ [Next]_vars =>
        [\A p \in Procs : owner = p /\ owner' = None /\ ip.busy =>
            err[p] = "ETIMEDOUT" \/ disturbed[p]]_vars
  <2> SUFFICES ASSUME IInv, Next, NEW p \in Procs, owner = p, owner' = None, ip.busy,
                      err[p] # "ETIMEDOUT"
               PROVE  disturbed[p]
    BY DEF vars
  <2>1. Inside(p)
    BY DEF IInv, MutexDiscipline
  <2>2. pc[p] = "unlock"
    <3>1. PICK q \in Procs : Unlock(q)
      BY DEF Next, Enter, Lock, Interrupted, Work, CopyIn, Program, Start, Wait,
             CopyOut, SubgraphOp, SubgraphWait, DmaSubmit, DmaWait, Stub, RegWrite,
             IpFinish, DmaFinish
    <3>2. Inside(q)
      BY <3>1 DEF Unlock, Inside
    <3> QED BY <3>1, <3>2 DEF IInv, MutexDiscipline, Unlock
  <2>3. disturbed[p] # FALSE
    BY <2>1, <2>2 DEF IInv, RestInv
  <2> QED BY <2>3 DEF IInv, TypeOK
<1> QED BY <1>1, Invariant, PTL DEF Spec, RunsEndUnderTheMutex
=============================================================================
