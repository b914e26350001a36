------------------------------ MODULE DriverLoad ------------------------------
(***************************************************************************)
(* Loading and unloading the accelerator driver (nna_init and nna_exit of  *)
(* nnadrv/src/nnadrv.c) while applications open the device and call it.    *)
(*                                                                         *)
(* nna_init acquires resources one after the other; when one cannot be had *)
(* it jumps to a label and runs the releases from there on.  nna_exit      *)
(* releases in an order of its own.  A resource is a name; mutex stands    *)
(* for the mutex having been initialised.                                  *)
(*                                                                         *)
(* MGET and FREE lend DMA memory to the applications, without a lock and   *)
(* without a record of who has what: release() gives nothing back.         *)
(***************************************************************************)
EXTENDS Integers, Sequences, FiniteSets

CONSTANTS
    Apps,      \* the applications
    Lendable,  \* the DMA blocks the kernel has for MGET
    MaxLoads   \* bound on the number of insmods

ASSUME LoadAssumption == MaxLoads \in Nat /\ IsFiniteSet(Lendable)

VARIABLES
    pc,      \* absent, load, rollback, in, unload
    step,    \* which step of that sequence is next
    err,     \* the local err: FALSE is 0, which insmod takes for success
    loads,   \* number of insmods so far
    held,    \* what the driver holds
    app,     \* each application: away, with the device open, inside a call or in MGET
    lent,    \* the lendable blocks: free, being got, held or lost
    failed,  \* history: the resource the current load could not get, or "none"
    leaked,  \* history: what kfree(objId) left behind, with the load it is of
    wrong,   \* history: what was released without being held
    halfDone,   \* history: MGETs that failed between their two copies
    orphans     \* history: blocks that were held by an application that ended

loader == <<pc, step, err, loads, held, failed, leaked, wrong>>
lending == <<lent, halfDone, orphans>>
vars == <<loader, app, lending>>

\* The memory blocks, in the order of allocation.
BlockOrder ==
    << <<"imblk", 0>>, <<"imblk", 1>>, <<"kmblk", 0>>, <<"kmblk", 1>> >>
      \o << <<"omblk", 0>>, <<"omblk", 1>>, <<"omblk", 2>> >>
      \o [i \in 1 .. 10 |-> <<"omblk_extra", i - 1>>]
      \o << <<"bsblk", 0>>, <<"bsblk", 1>>, <<"pmblk", 0>>, <<"pmblk", 1>> >>

Blocks == {BlockOrder[i] : i \in 1 .. Len(BlockOrder)}

One(r) == <<r, 0>>

LoadOrderMutant ==
    <<One("objId")>> \o BlockOrder
      \o <<One("dma"), One("devno"), One("class"), One("cdev"), One("device"),
           One("cra"), One("mutex")>>
LoadOrder ==
    <<One("objId")>> \o BlockOrder
      \o <<One("dma"), One("cra"), One("devno"), One("class"), One("cdev"),
           One("device"), One("mutex")>>

Resources == {LoadOrder[i] : i \in 1 .. Len(LoadOrder)} \cup {One("region")}

\* The blocks the loops of fail_1 and of nna_exit free.
FreedBlocksMutant ==
    ({"imblk", "kmblk", "omblk", "bsblk", "pmblk"} \X (0 .. 1))
      \cup ({"omblk_extra"} \X (0 .. 9))
FreedBlocks ==
    ({"imblk", "kmblk", "omblk", "bsblk", "pmblk"} \X (0 .. 1))
      \cup {<<"omblk", 2>>} \cup ({"omblk_extra"} \X (0 .. 9))

\* fail_6 to fail_0.
Rollback ==
    << {One("cdev")}, {One("class")}, {One("devno")}, {One("cra")}, {One("dma")},
       FreedBlocks, {One("objId")} >>

UnloadOrder ==
    << {One("device")}, {One("class")}, {One("cdev")}, {One("devno")}, {One("cra")},
       {One("region")}, {One("dma")}, FreedBlocks, {One("objId")} >>

\* The place in Rollback of the label nna_init jumps to when it cannot get r.
FailLabel(r) ==
    CASE r = One("device") -> 1 [] r = One("cdev") -> 2 [] r = One("class") -> 3
      [] r = One("devno") -> 4  [] r = One("cra") -> 5  [] r = One("dma") -> 6
      [] r \in Blocks -> 7

\* Where err is left at the 0 of the call before.
SilentFailureMutant(r) == r \in {One("class"), One("cdev"), One("device")}
SilentFailure(r) == r \in {One("class"), One("device")}

Free == <<"free">>
Lost == <<"lost">>
Getting(a) == <<"getting", a>>
Held(a) == <<"held", a>>

Init ==
    /\ pc = "absent" /\ step = 1 /\ err = FALSE /\ loads = 0
    /\ held = {} /\ app = [a \in Apps |-> "away"]
    /\ failed = One("none") /\ leaked = {} /\ wrong = {}
    /\ lent = [b \in Lendable |-> Free] /\ halfDone = 0 /\ orphans = 0

-----------------------------------------------------------------------------
(* nna_init.                                                               *)

Insmod ==
    /\ pc = "absent" /\ loads < MaxLoads
    /\ loads' = loads + 1
    /\ pc' = "load" /\ step' = 1 /\ err' = FALSE
    /\ failed' = One("none")
    /\ UNCHANGED <<held, leaked, wrong>>

Acquire ==
    /\ pc = "load" /\ step <= Len(LoadOrder)
    /\ held' = held \cup {LoadOrder[step]}
    /\ step' = step + 1
    /\ UNCHANGED <<pc, err, loads, failed, leaked, wrong>>

\* Without the kzalloc nna_init returns at once.
NoObject ==
    /\ pc = "load" /\ step = 1
    /\ failed' = LoadOrder[1] /\ err' = TRUE
    /\ pc' = "absent" /\ step' = 1
    /\ UNCHANGED <<loads, held, leaked, wrong>>

CannotAcquire ==
    /\ pc = "load" /\ step \in 2 .. Len(LoadOrder) /\ LoadOrder[step] # One("mutex")
    /\ LET r == LoadOrder[step]
       IN  failed' = r /\ err' = ~SilentFailure(r) /\ step' = FailLabel(r)
    /\ pc' = "rollback"
    /\ UNCHANGED <<loads, held, leaked, wrong>>

Loaded ==
    /\ pc = "load" /\ step > Len(LoadOrder)
    /\ pc' = "in"
    /\ UNCHANGED <<step, err, loads, held, failed, leaked, wrong>>

\* One release; with the object go the things inside it, and what is still held
\* then is lost.
Released(rs) ==
    /\ wrong' = wrong \cup (rs \ held)
    /\ IF One("objId") \in rs
       THEN /\ held' = {}
            /\ leaked' = leaked \cup
                  {<<loads, r>> : r \in held \ (rs \cup {One("mutex")})}
       ELSE held' = held \ rs /\ UNCHANGED leaked

RollBack ==
    /\ pc = "rollback" /\ step <= Len(Rollback)
    /\ Released(Rollback[step])
    /\ step' = step + 1
    /\ UNCHANGED <<pc, err, loads, failed>>

\* return err: the module stays in the kernel if it is 0.
RolledBack ==
    /\ pc = "rollback" /\ step > Len(Rollback)
    /\ pc' = IF err THEN "absent" ELSE "in"
    /\ UNCHANGED <<step, err, loads, held, failed, leaked, wrong>>

-----------------------------------------------------------------------------
(* nna_exit.  The kernel unloads a module only when no file of it is open. *)

Rmmod ==
    /\ pc = "in" /\ \A a \in Apps : app[a] = "away"
    /\ IF One("objId") \in held THEN pc' = "unload" ELSE pc' = "absent"
    /\ step' = 1
    /\ UNCHANGED <<err, loads, held, failed, leaked, wrong>>

Unload ==
    /\ pc = "unload" /\ step <= Len(UnloadOrder)
    /\ Released(UnloadOrder[step])
    /\ step' = step + 1
    /\ UNCHANGED <<pc, err, loads, failed>>

Unloaded ==
    /\ pc = "unload" /\ step > Len(UnloadOrder)
    /\ pc' = "absent"
    /\ UNCHANGED <<step, err, loads, held, failed, leaked, wrong>>

-----------------------------------------------------------------------------
(* Applications.  The device file is there from device_create on, before   *)
(* nna_init has returned; a module on its way out cannot be opened.        *)

Open(a) ==
    /\ app[a] = "away" /\ One("device") \in held /\ pc # "unload"
    /\ app' = [app EXCEPT ![a] = "open"]
    /\ UNCHANGED lending

Enter(a) ==
    /\ app[a] = "open"
    /\ app' = [app EXCEPT ![a] = "call"]
    /\ UNCHANGED lending

Leave(a) ==
    /\ app[a] = "call"
    /\ app' = [app EXCEPT ![a] = "open"]
    /\ UNCHANGED lending

\* NNA_CMD_MGET once its argument is in and there is memory.
MGet(a) ==
    /\ app[a] = "open"
    /\ app' = [app EXCEPT ![a] = "get"]
    /\ \E b \in Lendable : lent[b] = Free /\ lent' = [lent EXCEPT ![b] = Getting(a)]
    /\ UNCHANGED <<halfDone, orphans>>

\* The answer is copied out twice; only after the first failure the block is freed.
MGetReturnMutant(a) ==
    /\ app[a] = "get"
    /\ app' = [app EXCEPT ![a] = "open"]
    /\ \E b \in Lendable :
          /\ lent[b] = Getting(a)
          /\ \/ \E x \in {Held(a), Lost} : lent' = [lent EXCEPT ![b] = x] /\ UNCHANGED halfDone
             \/ lent' = [lent EXCEPT ![b] = Lost] /\ halfDone' = halfDone + 1
    /\ UNCHANGED orphans

MGetReturn(a) ==
    /\ app[a] = "get"
    /\ app' = [app EXCEPT ![a] = "open"]
    /\ \E b \in Lendable :
          /\ lent[b] = Getting(a)
          /\ \/ \E x \in {Held(a), Free} : lent' = [lent EXCEPT ![b] = x] /\ UNCHANGED halfDone
             \/ lent' = [lent EXCEPT ![b] = Lost] /\ halfDone' = halfDone + 1
    /\ UNCHANGED orphans

\* NNA_CMD_FREE.  The driver frees whatever block the argument names; that it is one the
\* application holds is assumed of the applications.
GiveBack(a) ==
    /\ app[a] = "open"
    /\ \E b \in Lendable : lent[b] = Held(a) /\ lent' = [lent EXCEPT ![b] = Free]
    /\ UNCHANGED <<app, halfDone, orphans>>

\* close(), after which the application goes on, or the end of the application.
Close(a) ==
    /\ app[a] = "open"
    /\ app' = [app EXCEPT ![a] = "away"]
    /\ \/ UNCHANGED lending
       \/ /\ lent' = [b \in Lendable |-> IF lent[b] = Held(a) THEN Lost ELSE lent[b]]
          /\ orphans' = orphans + Cardinality({b \in Lendable : lent[b] = Held(a)})
          /\ UNCHANGED halfDone

Loader ==
    \/ Insmod \/ Acquire \/ NoObject \/ CannotAcquire \/ Loaded
    \/ RollBack \/ RolledBack
    \/ Rmmod \/ Unload \/ Unloaded

Application(a) ==
    Open(a) \/ Enter(a) \/ Leave(a) \/ MGet(a) \/ MGetReturn(a) \/ GiveBack(a) \/ Close(a)

Next ==
    \/ Loader /\ UNCHANGED <<app, lending>>
    \/ \E a \in Apps : Application(a) /\ UNCHANGED loader

Spec == Init /\ [][Next]_vars

-----------------------------------------------------------------------------
(* Properties.                                                             *)

TypeOK ==
    /\ pc \in {"absent", "load", "rollback", "in", "unload"}
    /\ step \in 1 .. Len(LoadOrder) + 1
    /\ err \in BOOLEAN /\ loads \in 0 .. MaxLoads
    /\ held \subseteq Resources
    /\ app \in [Apps -> {"away", "open", "call", "get"}]
    /\ lent \in [Lendable -> {Free, Lost} \cup {Getting(a) : a \in Apps} \cup {Held(a) : a \in Apps}]
    /\ halfDone \in Nat /\ orphans \in Nat
    /\ failed \in Resources \cup {One("none")}
    /\ leaked \subseteq (1 .. MaxLoads) \X Resources
    /\ wrong \subseteq Resources

\* A call inside the driver finds the object, every memory block, the DMA channel
\* and the registers there, whatever the loader is doing meanwhile, and once
\* nna_init has returned it finds pdata->mutex initialised: before that, with the
\* device file already there, it need not.
CallsHaveTheirResources ==
    \A a \in Apps : app[a] = "call" =>
        /\ Blocks \cup {One("objId"), One("dma"), One("cra")} \subseteq held
        /\ pc # "load" => One("mutex") \in held

\* A module that insmod reports as loaded drives the device, except after a failed
\* class_create or device_create: nna_init has then released everything and
\* returns the 0 of the call before.
LoadedIsUsable ==
    pc = "in" =>
        IF failed \in {One("class"), One("device")} THEN held = {}
        ELSE held = Resources \ {One("region")}

\* nna_init gives back what it took, except when a memory block cannot be had: the
\* blocks before it are lost.  nna_exit loses nothing.
LeaksOnlyBlocks ==
    pc = "absent" =>
        /\ held = {}
        /\ {l[2] : l \in {x \in leaked : x[1] = loads}} =
              IF failed \in Blocks
              THEN {BlockOrder[i] : i \in {k \in 1 .. Len(BlockOrder) :
                        \E j \in (k + 1) .. Len(BlockOrder) : BlockOrder[j] = failed}}
              ELSE {}

\* Nothing is released that is not held, on any path, apart from the register
\* region: nna_exit releases it but the request in nna_init is commented out.
ReleasesOnlyHeld == wrong \subseteq {One("region")}

\* Lent memory is lost for good in exactly two ways: an MGET that fails at its second
\* copy tells the caller nothing and frees nothing, and an application that ends
\* takes with it what it held.  Nothing is lost by a call in progress, by close or by
\* unloading the driver meanwhile.
LentMemoryAccounted ==
    /\ Cardinality({b \in Lendable : lent[b] = Lost}) = halfDone + orphans
    /\ \A a \in Apps :
          Cardinality({b \in Lendable : lent[b] = Getting(a)}) = IF app[a] = "get" THEN 1 ELSE 0
=============================================================================
