------------------------- MODULE SubgraphEngine_proofs -------------------------
(***************************************************************************)
(* Theorems about SubgraphEngine, for any shapes, sizes, addresses and     *)
(* number of inferences.  A program is built at the first inference of its *)
(* shape; the argument follows, from there on, whether its two pointers    *)
(* are still the tensors' or a larger tensor has come since.               *)
(***************************************************************************)
EXTENDS SubgraphEngine, TLAPS

Built(s) == programs[s] # NoProgram
Is1st(sq, k) == \A j \in 1 .. (k - 1) : sq[j] # sq[k]
FirstAt(sq, n, k, s) == k \in 1 .. n /\ sq[k] = s /\ \A j \in 1 .. (k - 1) : sq[j] # s

\* A later inference than the k-th was larger than the first k.
Larger(sq, k, j) ==
    \/ \A i \in 1 .. k : InSize[sq[i]] < InSize[sq[j]]
    \/ \A i \in 1 .. k : OutSize[sq[i]] < OutSize[sq[j]]
Outgrew(sq, n, k) == \E j \in (k + 1) .. n : Larger(sq, k, j)

\* How many inferences have had their program looked up or built.
Done == IF pc \in {"run", "build"} THEN run - 1 ELSE run

CurrentInv ==
    /\ pc # "before" => run >= 1 /\ input.dims = seen[run] /\ input.data = <<run, seen[run]>>
    /\ pc \in {"build", "launch", "after"} => idims = seen[run]
    /\ idims # NoShape /\ pc # "build" => Built(idims)

\* The tensors are as large as anything so far needed.
SpaceInv ==
    /\ \A i \in 1 .. run : InSize[seen[i]] <= input.space
    /\ \A i \in 1 .. Done : OutSize[seen[i]] <= output.space

ProgramsInv ==
    /\ \A s \in Shapes : ~Built(s) => \A i \in 1 .. Done : seen[i] # s
    /\ \A s \in Shapes : Built(s) =>
          \E k \in 1 .. Done :
              /\ FirstAt(seen, run, k, s)
              /\ (programs[s].din = input.buf \/ Outgrew(seen, run, k))
              /\ (programs[s].oa = output.buf \/ Outgrew(seen, run, k))

WildInv == wild => \E k \in 1 .. run : FirstAt(seen, run, k, seen[k]) /\ Outgrew(seen, run, k)

DataInv ==
    pc = "after" /\ ok /\ ~wild =>
        output.data = <<run, idims>> \/ \E k \in 1 .. run : FirstAt(seen, run, k, idims) /\ Outgrew(seen, run, k)

GoodInv ==
    /\ ~wild => output.data = Junk \/ (good \in 1 .. run /\ output.data = <<good, seen[good]>>)
    /\ pc \in {"run", "build", "launch"} \/ (pc = "after" /\ ~ok) => good < run

DimsInv ==
    Done >= 1 =>
        \E i \in 1 .. Done :
            /\ Is1st(seen, i)
            /\ \A j \in (i + 1) .. Done : ~Is1st(seen, j)
            /\ output.dims = OutDims[seen[i]]

\* Memory that is there is at an address.
MemoryInv ==
    /\ input.space > 0 => input.buf \in Addresses
    /\ output.space > 0 => output.buf \in Addresses

EngineInv == MemoryInv /\ CurrentInv /\ SpaceInv /\ ProgramsInv /\ WildInv /\ DataInv /\ GoodInv /\ DimsInv

LEMMA ReshapedIs ==
    ASSUME NEW D, NEW Z \in SUBSET Nat, NEW x \in Tensors(D, Z), NEW d \in D, NEW size \in Z, size > 0,
           x.space > 0 => x.buf \in Addresses, NEW t \in Reshaped(x, d, size)
    PROVE  /\ t \in Tensors(D, Z) /\ t.dims = d /\ t.space >= size /\ t.space >= x.space /\ t.buf \in Addresses
           /\ \/ t.space = x.space /\ t.buf = x.buf /\ t.data = x.data
              \/ x.space < size /\ t.data = Junk
<1>1. x.space \in Nat
  <2>1. x.space \in {0} \cup Z
    BY Zenon DEF Tensors
  <2>2. \A n \in {0} \cup Z : n \in Nat
    OBVIOUS
  <2> QED
    BY <2>1, <2>2, Zenon
<1>2. CASE x.space < size
  <2>1. PICK a \in Addresses : t = [dims |-> d, buf |-> a, space |-> size, data |-> Junk]
    BY <1>2 DEF Reshaped, Reallocated
  <2> QED
    BY <1>1, <1>2, <2>1 DEF Tensors
<1>3. CASE ~(x.space < size)
  <2>1. t = [x EXCEPT !.dims = d]
    BY <1>3 DEF Reshaped
  <2>2. /\ t.dims = d /\ t.buf = x.buf /\ t.space = x.space /\ t.data = x.data
        /\ t = [dims |-> d, buf |-> x.buf, space |-> x.space, data |-> x.data]
    BY <2>1 DEF Tensors
  <2> QED
    BY <1>1, <1>3, <2>2 DEF Tensors
<1> QED
  BY <1>2, <1>3

LEMMA ValuesAre == /\ \A s \in Shapes : InSize[s] \in Nat /\ InSize[s] > 0 /\ OutSize[s] \in Nat /\ OutSize[s] > 0
                   /\ \A s \in Shapes : InSize[s] \in ValuesOf(InSize) /\ OutSize[s] \in ValuesOf(OutSize)
                                       /\ OutDims[s] \in ValuesOf(OutDims)
                   /\ ValuesOf(InSize) \in SUBSET Nat /\ ValuesOf(OutSize) \in SUBSET Nat
BY EngineAssumption DEF ValuesOf

LEMMA Types ==
    ASSUME TypeOK
    PROVE  /\ run \in Nat /\ input.space \in Nat /\ output.space \in Nat /\ good \in 0 .. run
           /\ \A i \in 1 .. run : seen[i] \in Shapes
           /\ pc \in {"before", "run", "build", "launch", "after"} /\ ok \in BOOLEAN /\ wild \in BOOLEAN
<1>1. run \in Nat /\ input.space \in Nat /\ output.space \in Nat /\ good \in 0 .. run
  BY ValuesAre DEF TypeOK, Tensors
<1>2. \A i \in 1 .. run : seen[i] \in Shapes
  BY DEF TypeOK
<1>3. pc \in {"before", "run", "build", "launch", "after"} /\ ok \in BOOLEAN /\ wild \in BOOLEAN
  BY Zenon DEF TypeOK
<1> QED
  BY <1>1, <1>2, <1>3

\* A further inference leaves the earlier ones what they were.
LEMMA PastGrows ==
    ASSUME TypeOK, NEW s \in Shapes, run' = run + 1, seen' = Append(seen, s)
    PROVE  /\ seen'[run + 1] = s /\ \A i \in 1 .. run : seen'[i] = seen[i]
           /\ \A k \in 1 .. run, r \in Shapes : FirstAt(seen, run, k, r) => FirstAt(seen', run', k, r)
           /\ \A k \in 1 .. run : Outgrew(seen, run, k) => Outgrew(seen', run', k)
           /\ \A k \in 1 .. run, j \in {run + 1} : Larger(seen', k, j) => Outgrew(seen', run', k)
           /\ \A k \in 1 .. run : Is1st(seen', k) <=> Is1st(seen, k)
<1>1. run \in Nat /\ seen \in Seq(Shapes) /\ Len(seen) = run
  BY Types DEF TypeOK
<1>2. seen'[run + 1] = s /\ \A i \in 1 .. run : seen'[i] = seen[i]
  BY <1>1
<1>3. ASSUME NEW k \in 1 .. run, NEW r \in Shapes, FirstAt(seen, run, k, r) PROVE FirstAt(seen', run', k, r)
  <2>1. seen'[k] = r /\ k \in 1 .. run'
    BY <1>1, <1>2, <1>3 DEF FirstAt
  <2>2. \A j \in 1 .. (k - 1) : j \in 1 .. run /\ seen'[j] # r
    <3> SUFFICES ASSUME NEW j \in 1 .. (k - 1) PROVE j \in 1 .. run /\ seen'[j] # r
      OBVIOUS
    <3>1. j \in 1 .. run
      BY <1>1
    <3>2. seen[j] # r
      BY <1>3 DEF FirstAt
    <3> QED
      BY <1>2, <3>1, <3>2
  <2> QED
    BY <2>1, <2>2 DEF FirstAt
<1>4. ASSUME NEW k \in 1 .. run, NEW j \in 1 .. run PROVE Larger(seen', k, j) <=> Larger(seen, k, j)
  <2>1. \A i \in 1 .. k : i \in 1 .. run
    BY <1>1
  <2>2. seen'[j] = seen[j] /\ \A i \in 1 .. k : seen'[i] = seen[i]
    BY <1>2, <2>1
  <2> QED
    BY <2>2 DEF Larger
<1>5. ASSUME NEW k \in 1 .. run, Outgrew(seen, run, k) PROVE Outgrew(seen', run', k)
  <2>1. PICK j \in (k + 1) .. run : Larger(seen, k, j)
    BY <1>5 DEF Outgrew
  <2>2. j \in 1 .. run /\ j \in (k + 1) .. run'
    BY <1>1
  <2>3. Larger(seen', k, j)
    BY <1>4, <2>1, <2>2
  <2> QED
    BY <2>2, <2>3 DEF Outgrew
<1>6. ASSUME NEW k \in 1 .. run, NEW j \in {run + 1}, Larger(seen', k, j) PROVE Outgrew(seen', run', k)
  <2>1. j \in (k + 1) .. run'
    BY <1>1
  <2> QED
    BY <1>6, <2>1 DEF Outgrew
<1>7. ASSUME NEW k \in 1 .. run PROVE Is1st(seen', k) <=> Is1st(seen, k)
  <2>1. \A j \in 1 .. (k - 1) : j \in 1 .. run
    BY <1>1
  <2>2. seen'[k] = seen[k] /\ \A j \in 1 .. (k - 1) : seen'[j] = seen[j]
    BY <1>2, <2>1
  <2> QED
    BY <2>2 DEF Is1st
<1> QED
  BY <1>2, <1>3, <1>5, <1>6, <1>7

LEMMA InvParts ==
    EngineInv => MemoryInv /\ CurrentInv /\ SpaceInv /\ ProgramsInv /\ WildInv /\ DataInv /\ GoodInv /\ DimsInv
BY DEF EngineInv

LEMMA InitHolds == Init => TypeOK /\ EngineInv
<1> SUFFICES ASSUME Init PROVE TypeOK /\ EngineInv
  OBVIOUS
<1>1. ok \in BOOLEAN /\ wild \in BOOLEAN /\ ~wild
  BY Zenon DEF Init
<1>2. /\ pc = "before" /\ run = 0 /\ input = Empty /\ output = Empty /\ idims = NoShape
      /\ programs = [s \in Shapes |-> NoProgram] /\ good = 0 /\ seen = <<>>
  BY Zenon DEF Init
<1>3. TypeOK
  <2>1. input \in Tensors(Shapes, ValuesOf(InSize)) /\ output \in Tensors(ValuesOf(OutDims), ValuesOf(OutSize))
    BY <1>2 DEF Empty, Tensors
  <2>2. programs \in [Shapes -> [din : Addresses, oa : Addresses] \cup {NoProgram}] /\ seen \in Seq(Shapes) /\ Len(seen) = run
    BY <1>2
  <2>3. run \in 0 .. MaxRuns /\ good \in 0 .. run /\ idims \in Shapes \cup {NoShape}
    BY <1>2, EngineAssumption
  <2> QED
    BY <1>1, <1>2, <2>1, <2>2, <2>3, Zenon DEF TypeOK
<1>4. Done = 0 /\ input.space = 0 /\ output.space = 0 /\ output.data = Junk
  BY <1>2 DEF Done, Empty
<1>5. \A s \in Shapes : ~Built(s)
  BY <1>2 DEF Built
<1>6. MemoryInv /\ SpaceInv /\ ProgramsInv /\ DimsInv
  BY <1>2, <1>4, <1>5 DEF MemoryInv, SpaceInv, ProgramsInv, DimsInv
<1>7. CurrentInv /\ WildInv /\ DataInv
  BY <1>1, <1>2, Zenon DEF CurrentInv, WildInv, DataInv
<1>8. GoodInv
  BY <1>2, <1>4 DEF GoodInv
<1> QED
  BY <1>3, <1>6, <1>7, <1>8 DEF EngineInv

LEMMA FeedKeeps ==
    ASSUME TypeOK, EngineInv, NEW s \in Shapes, Feed(s)
    PROVE  TypeOK' /\ EngineInv'
<1>1. /\ pc = "before" /\ pc' = "run" /\ run < MaxRuns /\ run' = run + 1 /\ seen' = Append(seen, s)
      /\ output' = output /\ idims' = idims /\ programs' = programs /\ good' = good
  BY Zenon DEF Feed
<1>2. ok' = ok /\ wild' = wild
  BY Zenon DEF Feed
<1>3. PICK t \in Reshaped(input, s, InSize[s]) : input' = [t EXCEPT !.data = <<run', s>>]
  BY DEF Feed
<1>4. /\ run \in Nat /\ run' \in 1 .. MaxRuns /\ input.space \in Nat /\ output.space \in Nat /\ good \in 0 .. run
      /\ \A i \in 1 .. run : seen[i] \in Shapes
  BY <1>1, Types, EngineAssumption
<1>5. InSize[s] \in Nat /\ InSize[s] > 0 /\ InSize[s] \in ValuesOf(InSize) /\ ValuesOf(InSize) \in SUBSET Nat
  BY ValuesAre
<1>6. /\ t \in Tensors(Shapes, ValuesOf(InSize)) /\ t.dims = s /\ t.space >= InSize[s] /\ t.space >= input.space
      /\ t.buf \in Addresses
      /\ \/ t.space = input.space /\ t.buf = input.buf /\ t.data = input.data
         \/ input.space < InSize[s] /\ t.data = Junk
  <2>1. input \in Tensors(Shapes, ValuesOf(InSize)) /\ (input.space > 0 => input.buf \in Addresses)
    BY InvParts DEF TypeOK, MemoryInv
  <2> QED
    BY <1>5, <2>1, ReshapedIs
<1>7. /\ input'.dims = s /\ input'.buf = t.buf /\ input'.space = t.space /\ input'.data = <<run', s>>
      /\ input' \in Tensors(Shapes, ValuesOf(InSize))
  <2>1. input' = [dims |-> t.dims, buf |-> t.buf, space |-> t.space, data |-> <<run', s>>]
    BY <1>3, <1>6 DEF Tensors
  <2> QED
    BY <1>4, <1>6, <2>1 DEF Tensors
<1>8. seen'[run + 1] = s /\ \A i \in 1 .. run : seen'[i] = seen[i]
  BY <1>1, PastGrows
<1>9. \A k \in 1 .. run, r \in Shapes : FirstAt(seen, run, k, r) => FirstAt(seen', run', k, r)
  BY <1>1, PastGrows
<1>10. \A k \in 1 .. run : Outgrew(seen, run, k) => Outgrew(seen', run', k)
  BY <1>1, PastGrows
<1>11. \A k \in 1 .. run, j \in {run + 1} : Larger(seen', k, j) => Outgrew(seen', run', k)
  BY <1>1, PastGrows
<1>12. \A k \in 1 .. run : Is1st(seen', k) <=> Is1st(seen, k)
  BY <1>1, PastGrows
<1>13. Done = run /\ Done' = run /\ \A r \in Shapes : (programs'[r] # NoProgram) <=> Built(r)
  BY <1>1, <1>4 DEF Done, Built
<1>14. TypeOK'
  <2>1. seen' \in Seq(Shapes) /\ Len(seen') = run'
    BY <1>1 DEF TypeOK
  <2>2. good' \in 0 .. run' /\ run' \in 0 .. MaxRuns
    BY <1>1, <1>4
  <2> QED
    BY <1>1, <1>2, <1>7, <2>1, <2>2, Zenon DEF TypeOK
<1>15. MemoryInv'
  BY <1>1, <1>6, <1>7, InvParts DEF MemoryInv
<1>16. CurrentInv'
  <2>1. run' >= 1 /\ input'.dims = seen'[run'] /\ input'.data = <<run', seen'[run']>>
    BY <1>1, <1>4, <1>7, <1>8
  <2>2. idims' # NoShape => idims \in Shapes /\ Built(idims)
    BY <1>1, InvParts DEF CurrentInv, TypeOK
  <2> QED
    BY <1>1, <2>1, <2>2 DEF CurrentInv, Built
<1>17. \A i \in 1 .. run : InSize[seen[i]] <= input.space /\ OutSize[seen[i]] <= output.space
  BY <1>13, InvParts DEF SpaceInv
<1>18. SpaceInv'
  <2>1. ASSUME NEW i \in 1 .. run' PROVE InSize[seen'[i]] <= input'.space
    <3>1. i = run + 1 \/ i \in 1 .. run
      BY <1>1, <1>4
    <3>2. CASE i = run + 1
      BY <1>6, <1>7, <1>8, <3>2
    <3>3. CASE i \in 1 .. run
      <4>1. InSize[seen[i]] <= input.space /\ seen'[i] = seen[i] /\ input.space <= input'.space
        BY <1>6, <1>7, <1>8, <1>17, <3>3
      <4>2. InSize[seen[i]] \in Nat /\ input'.space \in Nat
        BY <1>4, <1>14, <3>3, ValuesAre DEF TypeOK, Tensors
      <4> QED
        BY <1>4, <4>1, <4>2
    <3> QED
      BY <3>1, <3>2, <3>3
  <2>2. \A i \in 1 .. Done' : OutSize[seen'[i]] <= output'.space
    BY <1>1, <1>8, <1>13, <1>17
  <2> QED
    BY <2>1, <2>2 DEF SpaceInv
<1>19. ProgramsInv'
  <2>1. ASSUME NEW r \in Shapes, ~(programs'[r] # NoProgram) PROVE \A i \in 1 .. Done' : seen'[i] # r
    BY <1>8, <1>13, <2>1, InvParts DEF ProgramsInv
  <2>2. ASSUME NEW r \in Shapes, programs'[r] # NoProgram
        PROVE  \E k \in 1 .. Done' : /\ FirstAt(seen', run', k, r)
                                      /\ (programs'[r].din = input'.buf \/ Outgrew(seen', run', k))
                                      /\ (programs'[r].oa = output'.buf \/ Outgrew(seen', run', k))
    <3>1. PICK k \in 1 .. run : /\ FirstAt(seen, run, k, r)
                                /\ (programs[r].din = input.buf \/ Outgrew(seen, run, k))
                                /\ (programs[r].oa = output.buf \/ Outgrew(seen, run, k))
      BY <1>13, <2>2, InvParts DEF ProgramsInv
    <3>2. FirstAt(seen', run', k, r) /\ (Outgrew(seen, run, k) => Outgrew(seen', run', k))
      BY <1>9, <1>10, <3>1
    <3>3. input'.buf = input.buf \/ Outgrew(seen', run', k)
      <4>1. ASSUME input.space < InSize[s] PROVE Outgrew(seen', run', k)
        <5>1. ASSUME NEW i \in 1 .. k PROVE i \in 1 .. run /\ InSize[seen'[i]] < InSize[s]
          <6>1. i \in 1 .. run
            BY <1>4
          <6>2. InSize[seen[i]] <= input.space /\ InSize[seen[i]] \in Nat
            BY <1>4, <1>17, <6>1, ValuesAre
          <6> QED
            BY <1>4, <1>5, <1>8, <4>1, <6>1, <6>2
        <5>2. \A j \in {run + 1} : Larger(seen', k, j)
          BY <1>8, <5>1 DEF Larger
        <5> QED
          BY <1>11, <5>2
      <4> QED
        BY <1>6, <1>7, <4>1
    <3> QED
      BY <1>1, <1>13, <3>1, <3>2, <3>3
  <2> QED
    BY <2>1, <2>2 DEF ProgramsInv, Built
<1>20. WildInv'
  <2> SUFFICES ASSUME wild' PROVE \E k \in 1 .. run' : FirstAt(seen', run', k, seen'[k]) /\ Outgrew(seen', run', k)
    BY Zenon DEF WildInv
  <2>1. wild
    BY <1>2, Zenon
  <2>2. PICK k \in 1 .. run : FirstAt(seen, run, k, seen[k]) /\ Outgrew(seen, run, k)
    BY <2>1, InvParts, Zenon DEF WildInv
  <2>3. k \in 1 .. run' /\ seen[k] \in Shapes /\ seen'[k] = seen[k]
    <3>1. \A g \in 1 .. run : g \in 1 .. run'
      BY <1>1, <1>4
    <3> QED
      BY <1>4, <1>8, <3>1, Zenon
  <2>4. FirstAt(seen, run, k, seen[k])
    BY <2>2
  <2>5. FirstAt(seen', run', k, seen'[k])
    BY <1>9, <2>3, <2>4
  <2>6. Outgrew(seen', run', k)
    BY <1>10, <2>2
  <2> QED
    BY <2>3, <2>5, <2>6, Zenon
<1>21. DataInv'
  BY <1>1, Zenon DEF DataInv
<1>22. GoodInv'
  <2>1. ~wild => output.data = Junk \/ (good \in 1 .. run /\ output.data = <<good, seen[good]>>)
    BY InvParts, Zenon DEF GoodInv
  <2>2. ~wild' => output'.data = Junk \/ (good' \in 1 .. run' /\ output'.data = <<good', seen'[good']>>)
    <3>1. \A g \in 1 .. run : g \in 1 .. run' /\ seen'[g] = seen[g]
      <4>1. \A g \in 1 .. run : g \in 1 .. run'
        BY <1>1, <1>4
      <4> QED
        BY <4>1, <1>8, Zenon
    <3> QED
      BY <1>1, <1>2, <2>1, <3>1, Zenon
  <2>3. good' < run'
    BY <1>1, <1>4
  <2> QED
    BY <2>2, <2>3, Zenon DEF GoodInv
<1>23. DimsInv'
  <2> SUFFICES ASSUME run >= 1
               PROVE  \E i \in 1 .. run : /\ Is1st(seen', i)
                                          /\ \A j \in (i + 1) .. run : ~Is1st(seen', j)
                                          /\ output'.dims = OutDims[seen'[i]]
    BY <1>13 DEF DimsInv
  <2>1. PICK i \in 1 .. run : /\ Is1st(seen, i)
                              /\ \A j \in (i + 1) .. run : ~Is1st(seen, j)
                              /\ output.dims = OutDims[seen[i]]
    BY <1>13, InvParts DEF DimsInv
  <2>2. \A j \in (i + 1) .. run : j \in 1 .. run
    BY <1>4
  <2> QED
    BY <1>1, <1>8, <1>12, <2>1, <2>2
<1> QED
  BY <1>14, <1>15, <1>16, <1>18, <1>19, <1>20, <1>21, <1>22, <1>23 DEF EngineInv

\* An inference whose shape has a program needs nothing more: its program is the one
\* of an earlier inference with the same shape.
LEMMA AnotherOfAShape ==
    ASSUME TypeOK, EngineInv, pc \in {"run", "build"}, Built(seen[run])
    PROVE  /\ run >= 2 /\ Done = run - 1
           /\ OutSize[seen[run]] <= output.space
           /\ ~Is1st(seen, run)
<1>1. /\ run \in Nat /\ \A i \in 1 .. run : seen[i] \in Shapes
      /\ pc \in {"before", "run", "build", "launch", "after"}
  BY Types
<1>2. run >= 1
  BY <1>1, InvParts DEF CurrentInv
<1>3. Done = run - 1
  BY DEF Done
<1>4. PICK k \in 1 .. run - 1 : FirstAt(seen, run, k, seen[run])
  BY <1>1, <1>2, <1>3, InvParts DEF ProgramsInv
<1>5. seen[k] = seen[run]
  BY <1>4 DEF FirstAt
<1>6. OutSize[seen[k]] <= output.space
  BY <1>1, <1>2, <1>3, InvParts DEF SpaceInv
<1>7. ~Is1st(seen, run)
  BY <1>1, <1>2, <1>5 DEF Is1st
<1> QED
  BY <1>1, <1>2, <1>3, <1>5, <1>6, <1>7

\* What a step that looks the program up, or builds none, leaves as it was.
LEMMA LookedUp ==
    ASSUME TypeOK, EngineInv, pc \in {"run", "build"}, Built(seen[run]), Done' = run,
           UNCHANGED <<run, input, output, programs, seen>>
    PROVE  SpaceInv' /\ ProgramsInv' /\ DimsInv'
<1>1. run \in Nat /\ \A i \in 1 .. run : seen[i] \in Shapes
  BY Types
<1>2. run >= 2 /\ Done = run - 1 /\ OutSize[seen[run]] <= output.space /\ ~Is1st(seen, run)
  BY AnotherOfAShape
<1>3. \A i \in 1 .. run : i = run \/ i \in 1 .. run - 1
  BY <1>1
<1>4. SpaceInv'
  BY <1>1, <1>2, <1>3, InvParts DEF SpaceInv
<1>5. ProgramsInv'
  <2>1. ASSUME NEW s \in Shapes, ~Built(s) PROVE \A i \in 1 .. run : seen[i] # s
    BY <1>1, <1>2, <1>3, <2>1, InvParts DEF ProgramsInv
  <2>2. ASSUME NEW s \in Shapes, Built(s)
        PROVE  \E k \in 1 .. run : /\ FirstAt(seen, run, k, s)
                                   /\ (programs[s].din = input.buf \/ Outgrew(seen, run, k))
                                   /\ (programs[s].oa = output.buf \/ Outgrew(seen, run, k))
    <3>1. PICK k \in 1 .. run - 1 : /\ FirstAt(seen, run, k, s)
                                    /\ (programs[s].din = input.buf \/ Outgrew(seen, run, k))
                                    /\ (programs[s].oa = output.buf \/ Outgrew(seen, run, k))
      BY <1>2, <2>2, InvParts DEF ProgramsInv
    <3>2. k \in 1 .. run
      BY <1>1
    <3> QED
      BY <3>1, <3>2, Zenon
  <2> QED
    BY <2>1, <2>2 DEF ProgramsInv, Built
<1>6. DimsInv'
  <2>1. PICK i \in 1 .. run - 1 : /\ Is1st(seen, i)
                                  /\ \A j \in (i + 1) .. run - 1 : ~Is1st(seen, j)
                                  /\ output.dims = OutDims[seen[i]]
    BY <1>1, <1>2, InvParts DEF DimsInv
  <2>2. i \in 1 .. run /\ \A j \in (i + 1) .. run : j = run \/ j \in (i + 1) .. run - 1
    BY <1>1
  <2>3. \A j \in (i + 1) .. run : ~Is1st(seen, j)
    BY <1>2, <2>1, <2>2
  <2> QED
    BY <2>1, <2>2, <2>3 DEF DimsInv
<1> QED
  BY <1>4, <1>5, <1>6

LEMMA RunKeeps ==
    ASSUME TypeOK, EngineInv, Run
    PROVE  TypeOK' /\ EngineInv'
<1>1. /\ pc = "run" /\ idims' = input.dims /\ UNCHANGED <<run, input, output, programs, good, seen>>
      /\ pc' = IF input.dims # idims THEN "build" ELSE "launch"
  BY Zenon DEF Run
<1>2. ok' = ok /\ wild' = wild
  BY Zenon DEF Run
<1>3. pc' \in {"build", "launch"} /\ pc' \in {"before", "run", "build", "launch", "after"}
  BY <1>1
<1>4. run \in Nat /\ good \in 0 .. run /\ \A i \in 1 .. run : seen[i] \in Shapes
  BY Types
<1>5. run >= 1 /\ input.dims = seen[run] /\ input.data = <<run, seen[run]>>
  BY <1>1, InvParts DEF CurrentInv
<1>6. idims' \in Shapes /\ idims' = seen[run]
  BY <1>1, <1>4, <1>5
<1>7. TypeOK'
  BY <1>1, <1>2, <1>3, <1>6, Zenon DEF TypeOK
<1>8. MemoryInv'
  BY <1>1, InvParts DEF MemoryInv
<1>9. CurrentInv'
  <2>1. pc' # "build" => Built(seen[run])
    BY <1>1, <1>5, <1>6, InvParts, EngineAssumption DEF CurrentInv
  <2> QED
    BY <1>1, <1>3, <1>5, <1>6, <2>1 DEF CurrentInv, Built
<1>10. SpaceInv' /\ ProgramsInv' /\ DimsInv'
  <2>1. CASE pc' = "build"
    <3>1. Done = run - 1 /\ Done' = run - 1
      BY <1>1, <2>1 DEF Done
    <3>2. SpaceInv'
      BY <1>1, <3>1, InvParts DEF SpaceInv
    <3>3. ProgramsInv'
      BY <1>1, <3>1, InvParts DEF ProgramsInv, Built
    <3>4. DimsInv'
      BY <1>1, <3>1, InvParts DEF DimsInv
    <3> QED
      BY <3>2, <3>3, <3>4
  <2>2. CASE pc' = "launch"
    <3>1. Done' = run /\ pc \in {"run", "build"}
      BY <1>1, <2>2 DEF Done
    <3>2. Built(seen[run])
      BY <1>1, <1>5, <1>6, <2>2, InvParts, EngineAssumption DEF CurrentInv
    <3> QED
      BY <1>1, <3>1, <3>2, LookedUp
  <2> QED
    BY <1>3, <2>1, <2>2
<1>11. WildInv'
  BY <1>1, <1>2, InvParts, Zenon DEF WildInv
<1>12. DataInv'
  BY <1>3 DEF DataInv
<1>13. GoodInv'
  <2>1. good' < run'
    BY <1>1, InvParts DEF GoodInv
  <2>2. ~wild' => output'.data = Junk \/ (good' \in 1 .. run' /\ output'.data = <<good', seen'[good']>>)
    BY <1>1, <1>2, InvParts, Zenon DEF GoodInv
  <2> QED
    BY <2>1, <2>2, Zenon DEF GoodInv
<1> QED
  BY <1>7, <1>8, <1>9, <1>10, <1>11, <1>12, <1>13 DEF EngineInv

LEMMA BuildKeeps ==
    ASSUME TypeOK, EngineInv, Build
    PROVE  TypeOK' /\ EngineInv'
<1>1. /\ pc = "build" /\ pc' = "launch" /\ UNCHANGED <<run, input, idims, good, seen>>
      /\ IF programs[idims] = NoProgram
         THEN /\ output' \in Reshaped(output, OutDims[idims], OutSize[idims])
              /\ programs' = [programs EXCEPT ![idims] = NewProgram]
         ELSE UNCHANGED <<output, programs>>
  BY Zenon DEF Build
<1>2. ok' = ok /\ wild' = wild
  BY Zenon DEF Build
<1>3. /\ run \in Nat /\ good \in 0 .. run /\ \A i \in 1 .. run : seen[i] \in Shapes
      /\ input.space \in Nat /\ output.space \in Nat
  BY Types
<1>4. /\ run >= 1 /\ input.dims = seen[run] /\ input.data = <<run, seen[run]>> /\ idims = seen[run]
      /\ idims \in Shapes /\ input.buf \in Addresses
  <2>1. run >= 1 /\ input.dims = seen[run] /\ input.data = <<run, seen[run]>> /\ idims = seen[run]
    BY <1>1, InvParts DEF CurrentInv
  <2>2. InSize[seen[run]] <= input.space /\ InSize[seen[run]] \in Nat /\ InSize[seen[run]] > 0
    BY <1>3, <2>1, InvParts, ValuesAre DEF SpaceInv
  <2>3. input.space > 0 => input.buf \in Addresses
    BY InvParts DEF MemoryInv
  <2> QED
    BY <1>3, <2>1, <2>2, <2>3
<1>5. Done = run - 1 /\ Done' = run
  BY <1>1 DEF Done
<1>6. WildInv'
  BY <1>1, <1>2, InvParts, Zenon DEF WildInv
<1>7. DataInv'
  BY <1>1 DEF DataInv
<1>8. good' < run'
  BY <1>1, InvParts DEF GoodInv
<1>9. CASE programs[idims] # NoProgram
  <2>1. UNCHANGED <<run, input, output, programs, seen>>
    BY <1>1, <1>9
  <2>2. TypeOK'
    BY <1>1, <1>2, <2>1, Zenon DEF TypeOK
  <2>3. MemoryInv'
    BY <2>1, InvParts DEF MemoryInv
  <2>4. CurrentInv'
    BY <1>1, <1>4, <1>9, <2>1 DEF CurrentInv, Built
  <2>5. SpaceInv' /\ ProgramsInv' /\ DimsInv'
    BY <1>1, <1>4, <1>5, <1>9, <2>1, LookedUp DEF Built
  <2>6. GoodInv'
    <3>1. ~wild' => output'.data = Junk \/ (good' \in 1 .. run' /\ output'.data = <<good', seen'[good']>>)
      BY <1>1, <1>2, <2>1, InvParts, Zenon DEF GoodInv
    <3> QED
      BY <1>8, <3>1, Zenon DEF GoodInv
  <2> QED
    BY <1>6, <1>7, <2>2, <2>3, <2>4, <2>5, <2>6 DEF EngineInv
<1>10. CASE programs[idims] = NoProgram
  <2>1. output' \in Reshaped(output, OutDims[idims], OutSize[idims]) /\ programs' = [programs EXCEPT ![idims] = NewProgram]
    BY <1>1, <1>10
  <2>2. /\ output' \in Tensors(ValuesOf(OutDims), ValuesOf(OutSize)) /\ output'.dims = OutDims[idims]
        /\ output'.space >= OutSize[idims] /\ output'.space >= output.space /\ output'.buf \in Addresses
        /\ \/ output'.space = output.space /\ output'.buf = output.buf /\ output'.data = output.data
           \/ output.space < OutSize[idims] /\ output'.data = Junk
    <3>1. /\ OutSize[idims] \in ValuesOf(OutSize) /\ OutDims[idims] \in ValuesOf(OutDims) /\ OutSize[idims] > 0
          /\ ValuesOf(OutSize) \in SUBSET Nat
      BY <1>4, ValuesAre
    <3>2. output \in Tensors(ValuesOf(OutDims), ValuesOf(OutSize)) /\ (output.space > 0 => output.buf \in Addresses)
      BY InvParts DEF TypeOK, MemoryInv
    <3> QED
      BY <2>1, <3>1, <3>2, ReshapedIs
  <2>3. /\ programs'[idims] = [din |-> input.buf, oa |-> output'.buf]
        /\ \A s \in Shapes \ {idims} : programs'[s] = programs[s]
        /\ programs' \in [Shapes -> [din : Addresses, oa : Addresses] \cup {NoProgram}]
    BY <1>4, <2>1, <2>2 DEF TypeOK, NewProgram
  <2>4. programs'[idims] # NoProgram
    BY <1>4, <2>3, EngineAssumption DEF NoProgram
  <2>5. TypeOK'
    BY <1>1, <1>2, <2>2, <2>3, Zenon DEF TypeOK
  <2>6. MemoryInv'
    BY <1>1, <2>2, InvParts DEF MemoryInv
  <2>7. CurrentInv'
    BY <1>1, <1>4, <2>4 DEF CurrentInv, Built
  <2>8. \A i \in 1 .. run - 1 : /\ OutSize[seen[i]] <= output.space /\ OutSize[seen[i]] \in Nat
                                /\ seen[i] # idims
    BY <1>3, <1>4, <1>5, <1>10, InvParts, ValuesAre DEF SpaceInv, ProgramsInv, Built
  <2>9. \A i \in 1 .. run : i = run \/ i \in 1 .. run - 1
    BY <1>3
  <2>10. SpaceInv'
    <3>1. ASSUME NEW i \in 1 .. run PROVE OutSize[seen[i]] <= output'.space
      <4>1. output'.space \in Nat
        BY <2>5, <1>3, ValuesAre DEF TypeOK, Tensors
      <4> QED
        BY <1>3, <1>4, <2>2, <2>8, <2>9, <4>1
    <3>2. \A i \in 1 .. run : InSize[seen[i]] <= input.space
      BY InvParts DEF SpaceInv
    <3> QED
      BY <1>1, <1>5, <3>1, <3>2 DEF SpaceInv
  <2>11. Is1st(seen, run) /\ FirstAt(seen, run, run, idims)
    BY <1>3, <1>4, <2>8 DEF Is1st, FirstAt
  <2>12. ProgramsInv'
    <3>1. ASSUME NEW s \in Shapes, programs'[s] = NoProgram PROVE \A i \in 1 .. run : seen[i] # s
      <4>1. s # idims /\ ~Built(s)
        BY <2>3, <2>4, <3>1 DEF Built
      <4>2. \A i \in 1 .. run - 1 : seen[i] # s
        BY <1>5, <4>1, InvParts DEF ProgramsInv
      <4> QED
        BY <1>4, <2>9, <4>1, <4>2
    <3>2. ASSUME NEW s \in Shapes, programs'[s] # NoProgram
          PROVE  \E k \in 1 .. run : /\ FirstAt(seen, run, k, s)
                                     /\ (programs'[s].din = input.buf \/ Outgrew(seen, run, k))
                                     /\ (programs'[s].oa = output'.buf \/ Outgrew(seen, run, k))
      <4>1. CASE s = idims
        BY <1>3, <1>4, <2>3, <2>11, <4>1
      <4>2. CASE s # idims
        <5>1. programs'[s] = programs[s] /\ Built(s)
          BY <2>3, <3>2, <4>2 DEF Built
        <5>2. PICK k \in 1 .. run - 1 : /\ FirstAt(seen, run, k, s)
                                        /\ (programs[s].din = input.buf \/ Outgrew(seen, run, k))
                                        /\ (programs[s].oa = output.buf \/ Outgrew(seen, run, k))
          BY <1>5, <5>1, InvParts DEF ProgramsInv
        <5>3. k \in 1 .. run
          BY <1>3
        <5>4. ASSUME output.space < OutSize[idims] PROVE Outgrew(seen, run, k)
          <6>1. ASSUME NEW i \in 1 .. k PROVE OutSize[seen[i]] < OutSize[seen[run]]
            <7>1. i \in 1 .. run - 1
              BY <1>3
            <7>2. OutSize[seen[i]] <= output.space /\ OutSize[seen[i]] \in Nat /\ OutSize[idims] \in Nat
              BY <1>4, <2>8, <7>1, ValuesAre
            <7> QED
              BY <1>3, <1>4, <5>4, <7>2
          <6>2. Larger(seen, k, run)
            BY <6>1 DEF Larger
          <6>3. run \in (k + 1) .. run
            BY <1>3
          <6> QED
            BY <6>2, <6>3 DEF Outgrew
        <5>5. output'.buf = output.buf \/ Outgrew(seen, run, k)
          BY <2>2, <5>4
        <5> QED
          BY <5>1, <5>2, <5>3, <5>5, Zenon
      <4> QED
        BY <4>1, <4>2
    <3> QED
      BY <1>1, <1>5, <3>1, <3>2 DEF ProgramsInv, Built
  <2>13. DimsInv'
    <3>1. run \in 1 .. run /\ \A j \in (run + 1) .. run : ~Is1st(seen, j)
      BY <1>3, <1>4
    <3> QED
      BY <1>1, <1>4, <1>5, <2>2, <2>11, <3>1 DEF DimsInv
  <2>14. GoodInv'
    <3>1. ~wild' => output'.data = Junk \/ (good' \in 1 .. run' /\ output'.data = <<good', seen'[good']>>)
      <4>1. output'.data = output.data \/ output'.data = Junk
        BY <2>2
      <4> QED
        BY <1>1, <1>2, <4>1, InvParts, Zenon DEF GoodInv
    <3> QED
      BY <1>8, <3>1, Zenon DEF GoodInv
  <2> QED
    BY <1>6, <1>7, <2>5, <2>6, <2>7, <2>10, <2>12, <2>13, <2>14 DEF EngineInv
<1> QED
  BY <1>9, <1>10

LEMMA LaunchOkKeeps ==
    ASSUME TypeOK, EngineInv, LaunchOk
    PROVE  TypeOK' /\ EngineInv'
<1> DEFINE p == programs[idims]
           lost == p.oa # output.buf
           result == IF p.din = input.buf THEN input.data ELSE Junk
<1>1. /\ pc = "launch" /\ pc' = "after" /\ UNCHANGED <<run, input, idims, programs, seen>> /\ good' = run
      /\ output' = IF lost THEN output ELSE [output EXCEPT !.data = result]
  BY Zenon DEF LaunchOk
<1>2. ok' = TRUE /\ wild' = (wild \/ lost)
  BY Zenon DEF LaunchOk
<1>3. run \in Nat /\ \A i \in 1 .. run : seen[i] \in Shapes
  BY Types
<1>4. /\ run >= 1 /\ input.dims = seen[run] /\ input.data = <<run, seen[run]>> /\ idims = seen[run]
      /\ idims \in Shapes /\ Built(idims)
  <2>1. run >= 1 /\ input.dims = seen[run] /\ input.data = <<run, seen[run]>> /\ idims = seen[run]
    BY <1>1, InvParts DEF CurrentInv
  <2>2. idims \in Shapes
    BY <1>3, <2>1
  <2> QED
    BY <1>1, <2>1, <2>2, InvParts, EngineAssumption DEF CurrentInv
<1>5. Done = run /\ Done' = run
  BY <1>1 DEF Done
<1>6. PICK k \in 1 .. run : /\ FirstAt(seen, run, k, idims)
                            /\ (p.din = input.buf \/ Outgrew(seen, run, k))
                            /\ (p.oa = output.buf \/ Outgrew(seen, run, k))
  BY <1>4, <1>5, InvParts DEF ProgramsInv
<1>7. seen[k] = idims
  BY <1>6 DEF FirstAt
<1>8. result = <<run, seen[run]>> \/ (result = Junk /\ Outgrew(seen, run, k))
  BY <1>4, <1>6
<1>9. output.buf = output'.buf /\ output.space = output'.space /\ output.dims = output'.dims
      /\ (~lost => output'.data = result) /\ output' \in Tensors(ValuesOf(OutDims), ValuesOf(OutSize))
  <2>1. output \in Tensors(ValuesOf(OutDims), ValuesOf(OutSize)) /\ run \in 1 .. MaxRuns
    BY <1>3, <1>4 DEF TypeOK
  <2>2. result \in {Junk} \cup ((1 .. MaxRuns) \X Shapes)
    BY <1>3, <1>4, <1>8, <2>1
  <2> HIDE DEF lost, result
  <2>3. CASE lost
    BY <1>1, <2>1, <2>3
  <2>4. CASE ~lost
    <3>1. output' = [dims |-> output.dims, buf |-> output.buf, space |-> output.space, data |-> result]
      BY <1>1, <2>1, <2>4 DEF Tensors
    <3> QED
      BY <2>1, <2>2, <3>1 DEF Tensors
  <2> QED
    BY <2>3, <2>4
<1> HIDE DEF lost, result, p
<1>10. TypeOK'
  <2>1. wild' \in BOOLEAN /\ ok' \in BOOLEAN
    BY <1>2, Zenon
  <2>2. good' \in 0 .. run'
    BY <1>1, <1>3
  <2>3. pc' \in {"before", "run", "build", "launch", "after"}
    BY <1>1
  <2> QED
    BY <1>1, <1>9, <2>1, <2>2, <2>3, Zenon DEF TypeOK
<1>11. MemoryInv'
  BY <1>1, <1>9, InvParts DEF MemoryInv
<1>12. CurrentInv'
  BY <1>1, <1>4 DEF CurrentInv, Built
<1>13. SpaceInv'
  BY <1>1, <1>5, <1>9, InvParts DEF SpaceInv
<1>14. ProgramsInv'
  BY <1>1, <1>5, <1>9, InvParts DEF ProgramsInv, Built
<1>15. WildInv'
  <2> SUFFICES ASSUME wild' PROVE \E j \in 1 .. run : FirstAt(seen, run, j, seen[j]) /\ Outgrew(seen, run, j)
    BY <1>1, Zenon DEF WildInv
  <2>1. CASE wild
    BY <2>1, InvParts, Zenon DEF WildInv
  <2>2. CASE lost
    <3>1. Outgrew(seen, run, k)
      BY <1>6, <2>2, Zenon DEF lost
    <3> QED
      BY <1>6, <1>7, <3>1
  <2> QED
    BY <1>2, <2>1, <2>2, Zenon
<1>16. ~wild' => output'.data = <<run, seen[run]>> \/ (output'.data = Junk /\ Outgrew(seen, run, k))
  <2>1. ~wild' => ~lost
    BY <1>2, Zenon
  <2> QED
    BY <1>8, <1>9, <2>1, Zenon
<1>17. DataInv'
  <2>1. FirstAt(seen, run, k, idims)
    BY <1>6
  <2> QED
    BY <1>1, <1>4, <1>16, <2>1, Zenon DEF DataInv
<1>18. GoodInv'
  <2>1. run \in 1 .. run
    BY <1>3, <1>4
  <2>2. ~wild' => output'.data = Junk \/ (good' \in 1 .. run' /\ output'.data = <<good', seen'[good']>>)
    BY <1>1, <1>16, <2>1, Zenon
  <2>3. ~(pc' \in {"run", "build", "launch"})
    BY <1>1
  <2> QED
    BY <1>2, <2>2, <2>3, Zenon DEF GoodInv
<1>19. DimsInv'
  BY <1>1, <1>5, <1>9, InvParts DEF DimsInv
<1> QED
  BY <1>10, <1>11, <1>12, <1>13, <1>14, <1>15, <1>17, <1>18, <1>19 DEF EngineInv

LEMMA LaunchFailsKeeps ==
    ASSUME TypeOK, EngineInv, LaunchFails
    PROVE  TypeOK' /\ EngineInv'
<1>1. /\ pc = "launch" /\ pc' = "after"
      /\ UNCHANGED <<run, input, output, idims, programs, good, seen>>
  BY Zenon DEF LaunchFails
<1>2. ok' = FALSE /\ wild' = wild
  BY Zenon DEF LaunchFails
<1>3. Done' = Done
  BY <1>1 DEF Done
<1>4. pc' \in {"before", "run", "build", "launch", "after"} /\ ok' \in BOOLEAN
  BY <1>1, <1>2
<1>5. TypeOK'
  BY <1>1, <1>2, <1>4, Zenon DEF TypeOK
<1>6. MemoryInv'
  BY <1>1, InvParts DEF MemoryInv
<1>7. CurrentInv'
  BY <1>1, InvParts DEF CurrentInv, Built
<1>8. SpaceInv'
  BY <1>1, <1>3, InvParts DEF SpaceInv
<1>9. ProgramsInv'
  BY <1>1, <1>3, InvParts DEF ProgramsInv, Built
<1>10. WildInv'
  BY <1>1, <1>2, InvParts, Zenon DEF WildInv
<1>11. DataInv'
  BY <1>2, Zenon DEF DataInv
<1>12. DimsInv'
  BY <1>1, <1>3, InvParts DEF DimsInv
<1>13. GoodInv'
  <2>1. good' < run'
    BY <1>1, InvParts DEF GoodInv
  <2>2. ~wild' => output'.data = Junk \/ (good' \in 1 .. run' /\ output'.data = <<good', seen'[good']>>)
    BY <1>1, <1>2, InvParts, Zenon DEF GoodInv
  <2> QED
    BY <2>1, <2>2, Zenon DEF GoodInv
<1> QED
  BY <1>5, <1>6, <1>7, <1>8, <1>9, <1>10, <1>11, <1>12, <1>13 DEF EngineInv

LEMMA ReadKeeps ==
    ASSUME TypeOK, EngineInv, Read
    PROVE  TypeOK' /\ EngineInv'
<1>1. /\ pc = "after" /\ pc' = "before"
      /\ UNCHANGED <<run, input, output, idims, programs, good, seen>>
  BY Zenon DEF Read
<1>2. ok' = ok /\ wild' = wild
  BY Zenon DEF Read
<1>3. Done' = Done
  BY <1>1 DEF Done
<1>4. pc' \in {"before", "run", "build", "launch", "after"}
  BY <1>1
<1>5. TypeOK'
  BY <1>1, <1>2, <1>4, Zenon DEF TypeOK
<1>6. MemoryInv'
  BY <1>1, InvParts DEF MemoryInv
<1>7. CurrentInv'
  BY <1>1, InvParts DEF CurrentInv, Built
<1>8. SpaceInv'
  BY <1>1, <1>3, InvParts DEF SpaceInv
<1>9. ProgramsInv'
  BY <1>1, <1>3, InvParts DEF ProgramsInv, Built
<1>10. WildInv'
  BY <1>1, <1>2, InvParts, Zenon DEF WildInv
<1>11. DataInv'
  BY <1>1 DEF DataInv
<1>12. DimsInv'
  BY <1>1, <1>3, InvParts DEF DimsInv
<1>13. GoodInv'
  <2>1. ~(pc' \in {"run", "build", "launch"}) /\ pc' # "after"
    BY <1>1
  <2>2. ~wild' => output'.data = Junk \/ (good' \in 1 .. run' /\ output'.data = <<good', seen'[good']>>)
    BY <1>1, <1>2, InvParts, Zenon DEF GoodInv
  <2> QED
    BY <2>1, <2>2, Zenon DEF GoodInv
<1> QED
  BY <1>5, <1>6, <1>7, <1>8, <1>9, <1>10, <1>11, <1>12, <1>13 DEF EngineInv

LEMMA NextKeeps ==
    ASSUME TypeOK, EngineInv, [Next]_vars
    PROVE  TypeOK' /\ EngineInv'
<1>1. CASE UNCHANGED vars
  <2>1. UNCHANGED <<pc, run, input, output, idims, programs, good, seen>>
    BY <1>1, Zenon DEF vars
  <2>2. ok' = ok /\ wild' = wild
    BY <1>1, Zenon DEF vars
  <2>3. Done' = Done
    BY <2>1 DEF Done
  <2>4. TypeOK' /\ WildInv' /\ DataInv' /\ GoodInv'
    BY <2>1, <2>2, InvParts, Zenon DEF TypeOK, WildInv, DataInv, GoodInv
  <2>5. MemoryInv' /\ CurrentInv' /\ SpaceInv'
    BY <2>1, <2>3, InvParts DEF MemoryInv, CurrentInv, SpaceInv, Built
  <2>6. ProgramsInv' /\ DimsInv'
    BY <2>1, <2>3, InvParts DEF ProgramsInv, DimsInv, Built
  <2> QED
    BY <2>4, <2>5, <2>6 DEF EngineInv
<1>2. CASE \E s \in Shapes : Feed(s)
  BY <1>2, FeedKeeps, Zenon
<1>3. CASE Run
  BY <1>3, RunKeeps, Zenon
<1>4. CASE Build
  BY <1>4, BuildKeeps, Zenon
<1>5. CASE LaunchOk
  BY <1>5, LaunchOkKeeps, Zenon
<1>6. CASE LaunchFails
  BY <1>6, LaunchFailsKeeps, Zenon
<1>7. CASE Read
  BY <1>7, ReadKeeps, Zenon
<1> QED
  BY <1>1, <1>2, <1>3, <1>4, <1>5, <1>6, <1>7, Zenon DEF Next

LEMMA Invariants == Spec => [](TypeOK /\ EngineInv)
<1>1. Init => TypeOK /\ EngineInv
  BY InitHolds
<1>2. TypeOK /\ EngineInv /\ [Next]_vars => (TypeOK /\ EngineInv)'
  BY NextKeeps, Zenon
<1> QED
  BY <1>1, <1>2, PTL DEF Spec

-----------------------------------------------------------------------------
(* What the invariant says in the words of the properties.                 *)

\* A shape whose first inference was the k-th has been outgrown if the k-th was.
LEMMA OutgrownIs ==
    ASSUME TypeOK, NEW s, NEW k \in 1 .. run, FirstAt(seen, run, k, s), Outgrew(seen, run, k)
    PROVE  Outgrown(s)
<1>1. run \in Nat /\ Len(seen) = run
  BY Types DEF TypeOK
<1>2. First(s) = k
  <2>1. seen[k] = s /\ \A j \in 1 .. (k - 1) : seen[j] # s
    BY DEF FirstAt
  <2>2. ASSUME NEW i \in 1 .. run, seen[i] = s /\ \A j \in 1 .. (i - 1) : seen[j] # s PROVE i = k
    <3>1. ~(i \in 1 .. (k - 1)) /\ ~(k \in 1 .. (i - 1))
      BY <2>1, <2>2
    <3> QED
      BY <1>1, <3>1
  <2> QED
    BY <1>1, <2>1, <2>2 DEF First
<1>3. PICK j \in (k + 1) .. run : Larger(seen, k, j)
  BY DEF Outgrew
<1> QED
  BY <1>1, <1>2, <1>3 DEF Outgrown, Larger

\* The program built last is that of the last inference that was its shape's first.
LEMMA LastBuiltIs ==
    ASSUME TypeOK, NEW k \in 1 .. run, Is1st(seen, k), \A j \in (k + 1) .. run : ~Is1st(seen, j)
    PROVE  LastBuilt = seen[k]
<1>1. run \in Nat /\ Len(seen) = run
  BY Types DEF TypeOK
<1>2. \A i \in 1 .. run : IsFirst(i) <=> Is1st(seen, i)
  BY DEF IsFirst, Is1st
<1>3. \A j \in (k + 1) .. run : j \in 1 .. run
  BY <1>1
<1>4. IsFirst(k) /\ \A j \in (k + 1) .. run : ~IsFirst(j)
  BY <1>2, <1>3
<1>5. ASSUME NEW i \in 1 .. run, IsFirst(i), \A j \in (i + 1) .. run : ~IsFirst(j) PROVE i = k
  <2>1. ~(i \in (k + 1) .. run) /\ ~(k \in (i + 1) .. run)
    BY <1>4, <1>5
  <2> QED
    BY <1>1, <2>1
<1> QED
  BY <1>1, <1>4, <1>5 DEF LastBuilt

LEMMA SaysData == TypeOK /\ EngineInv => DataRightUnlessOutgrown
<1> SUFFICES ASSUME TypeOK, EngineInv PROVE DataRightUnlessOutgrown
  OBVIOUS
<1>1. ASSUME Delivered PROVE output.data = <<run, idims>> \/ Outgrown(idims)
  <2>1. output.data = <<run, idims>> \/ \E k \in 1 .. run : FirstAt(seen, run, k, idims) /\ Outgrew(seen, run, k)
    BY <1>1, InvParts, Zenon DEF Delivered, DataInv
  <2> QED
    BY <2>1, OutgrownIs, Zenon
<1>2. ASSUME wild PROVE \E i \in 1 .. Len(seen) : Outgrown(seen[i])
  <2>1. PICK k \in 1 .. run : FirstAt(seen, run, k, seen[k]) /\ Outgrew(seen, run, k)
    BY <1>2, InvParts, Zenon DEF WildInv
  <2>2. Outgrown(seen[k])
    BY <2>1, OutgrownIs, Zenon
  <2>3. Len(seen) = run
    BY DEF TypeOK
  <2> QED
    BY <2>2, <2>3, Zenon
<1> QED
  BY <1>1, <1>2, Zenon DEF DataRightUnlessOutgrown

LEMMA SaysDims == TypeOK /\ EngineInv => DimsRightUnlessOtherBuilt
<1> SUFFICES ASSUME TypeOK, EngineInv, Delivered
             PROVE  output.dims = OutDims[idims] <=> OutDims[LastBuilt] = OutDims[idims]
  BY DEF DimsRightUnlessOtherBuilt
<1>1. pc = "after"
  BY Zenon DEF Delivered
<1>2. Done = run /\ run >= 1
  BY <1>1, Types, InvParts DEF Done, CurrentInv
<1>3. PICK k \in 1 .. run : /\ Is1st(seen, k)
                            /\ \A j \in (k + 1) .. run : ~Is1st(seen, j)
                            /\ output.dims = OutDims[seen[k]]
  BY <1>2, InvParts DEF DimsInv
<1>4. LastBuilt = seen[k]
  BY <1>3, LastBuiltIs
<1> QED
  BY <1>3, <1>4

LEMMA SaysFailed == TypeOK /\ EngineInv => FailedLaunchShowsTheLastGood
<1> SUFFICES ASSUME TypeOK, EngineInv, pc = "after" /\ ~ok /\ ~wild
             PROVE  output.data = Junk \/ (good \in 1 .. run - 1 /\ output.data = <<good, seen[good]>>)
  BY Zenon DEF FailedLaunchShowsTheLastGood
<1>1. output.data = Junk \/ (good \in 1 .. run /\ output.data = <<good, seen[good]>>)
  BY InvParts, Zenon DEF GoodInv
<1>2. good < run
  BY InvParts, Zenon DEF GoodInv
<1>3. good \in 1 .. run => good \in 1 .. run - 1
  BY <1>2, Types
<1> QED
  BY <1>1, <1>3, Zenon

LEMMA SaysProgram == TypeOK /\ EngineInv => LaunchHasProgram
<1> SUFFICES ASSUME TypeOK, EngineInv, pc = "launch" PROVE idims = input.dims /\ programs[idims] # NoProgram
  BY DEF LaunchHasProgram
<1>1. run \in Nat /\ \A i \in 1 .. run : seen[i] \in Shapes
  BY Types
<1>2. run >= 1 /\ input.dims = seen[run] /\ idims = seen[run]
  BY InvParts DEF CurrentInv
<1>3. idims \in Shapes
  BY <1>1, <1>2
<1> QED
  BY <1>2, <1>3, InvParts, EngineAssumption DEF CurrentInv, Built

-----------------------------------------------------------------------------

\* The tensors, the programs and the histories have their types, whatever the sizes.
THEOREM EngineTypes == Spec => []TypeOK
BY Invariants, PTL

\* A device program delivers this inference's data, and writes only memory that is
\* the output's, until a tensor has outgrown the pointers it was built with
\* (BuildDeviceProgram keeps them, Buffer::ResetLazy moves the tensor).
THEOREM DataIsRightUntilOutgrown == Spec => []DataRightUnlessOutgrown
<1>1. TypeOK /\ EngineInv => DataRightUnlessOutgrown
  BY SaysData
<1> QED
  BY <1>1, Invariants, PTL

\* The output has the dimensions of the shape whose program was built last, so they
\* are right exactly if those are this inference's: a cached program resizes nothing.
THEOREM DimensionsAreTheLastBuilt == Spec => []DimsRightUnlessOtherBuilt
<1>1. TypeOK /\ EngineInv => DimsRightUnlessOtherBuilt
  BY SaysDims
<1> QED
  BY <1>1, Invariants, PTL

\* What a launch that failed leaves to the operators after it is the last good
\* launch's result: SubgraphCompute::Run does not tell them.
THEOREM FailedLaunchesAreStale == Spec => []FailedLaunchShowsTheLastGood
<1>1. TypeOK /\ EngineInv => FailedLaunchShowsTheLastGood
  BY SaysFailed
<1> QED
  BY <1>1, Invariants, PTL

\* Every launch has a program, the one of the shape the input has now.
THEOREM EveryLaunchHasAProgram == Spec => []LaunchHasProgram
<1>1. TypeOK /\ EngineInv => LaunchHasProgram
  BY SaysProgram
<1> QED
  BY <1>1, Invariants, PTL
================================================================================
