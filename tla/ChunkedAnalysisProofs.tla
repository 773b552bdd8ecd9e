----------------------- MODULE ChunkedAnalysisProofs -----------------------
(***************************************************************************)
(* Proofs about ChunkedAnalysis for any number of chunks and any bound on  *)
(* parallel sessions, in both modes, with factories, prompts and whole     *)
(* runs that fail or are cancelled at any step.                            *)
(***************************************************************************)
EXTENDS ChunkedAnalysis, FiniteSetTheorems, SequenceTheorems, TLAPS

-----------------------------------------------------------------------------
(* The order of things.                                                    *)

\* Sequential mode comes to a chunk when those before it are done and well.
Ordered ==
  mode = "sequential" =>
    \A c, d \in Chunks : d < c /\ pc[c] # "idle" =>
      pc[d] = "done" /\ outcome[d] \notin Aborting

\* Nothing of Phase 1 moves when RunChunks is past it.
Resting ==
  /\ main # "phase1" => \A c \in Chunks : pc[c] \in {"idle", "done"}
  /\ closed <=> main = "returned"

\* A chunk has a session in hand from the end of Acquire to Release.
Handed ==
  \A c \in Chunks : held[c] # NoSession <=> pc[c] \in {"run", "release"}

\* What the result rests on is settled when it is made.
Honest ==
  /\ result = "none" <=> main \in {"phase1", "phase2", "phase2run"}
  /\ main \in {"phase2", "phase2run"} => \A c \in Chunks : outcome[c] # "ratelimit"
  /\ result = "complete" => \A c \in Chunks : outcome[c] = "clean"
  /\ result # "none" /\ (\E c \in Chunks : outcome[c] = "ratelimit") => result = "error"

\* The processes are those of the sessions the pool knows and of those made
\* but not yet handed over; each is named after a chunk that is past making it.
Past == {"run", "release", "return", "done"}
Processes ==
  /\ main # "returned" => open \ {Phase2Session} = all \cup {c \in Chunks : pc[c] = "made"}
  /\ main = "returned" => open = {}
  /\ Phase2Session \in open => main = "phase2run"
  /\ \A c \in all : pc[c] \in Past

\* The free sessions are all different.
Distinct == \A i, j \in 1 .. Len(free) : free[i] = free[j] => i = j

Inv == /\ TypeOK /\ Ordered /\ Resting /\ Handed /\ Honest /\ Processes /\ Distinct
       /\ PoolAccounting /\ NoStrandedWaiter

-----------------------------------------------------------------------------
\* The reserved names are not those of chunks.
LEMMA Names == Phase2Session \notin Chunks /\ NoSession \notin Chunks /\ Chunks \subseteq Nat
  BY DEF Phase2Session, NoSession, Chunks

\* The capacity is a number, and at least one.
LEMMA CapType == TypeOK => PoolCap \in Nat \ {0}
  BY ChunksAssumption DEF TypeOK, PoolCap

\* The sets that are counted are finite.
LEMMA Finite ==
  ASSUME TypeOK
  PROVE  /\ IsFiniteSet(Chunks) /\ Cardinality(Chunks) = NChunks
         /\ \A S \in SUBSET Chunks : IsFiniteSet(S) /\ Cardinality(S) \in Nat
<1>1. IsFiniteSet(Chunks) /\ Cardinality(Chunks) = NChunks
  BY ChunksAssumption, FS_Interval DEF Chunks
<1> QED
  BY <1>1, FS_Subset, FS_CardinalityType

\* When Phase 1 is over every chunk is done or was never begun.
LEMMA OverMeansStill ==
  ASSUME TypeOK, Ordered, Phase1Over
  PROVE  \A c \in Chunks : pc[c] \in {"idle", "done"}
<1>1. CASE \A c \in Chunks : pc[c] = "done"
  BY <1>1
<1>2. CASE mode = "sequential" /\ \E c \in Chunks : pc[c] = "done" /\ outcome[c] \in Aborting
  <2>1. PICK c \in Chunks : pc[c] = "done" /\ outcome[c] \in Aborting
    BY <1>2
  <2>2. TAKE d \in Chunks
  <2>3. CASE d < c
    BY <1>2, <2>1, <2>3 DEF Ordered
  <2>4. CASE c < d
    BY <1>2, <2>1, <2>4 DEF Ordered
  <2> QED BY <2>1, <2>3, <2>4 DEF Chunks
<1> QED BY <1>1, <1>2 DEF Phase1Over

-----------------------------------------------------------------------------
\* The books are right before anything has begun.
LEMMA InitInv == Init => Inv
<1> SUFFICES ASSUME Init PROVE Inv
  OBVIOUS
<1>1. TypeOK
  BY EmptySeq, Names DEF Init, TypeOK
<1>2. Making = {} /\ FreeSet = {} /\ HeldSet = {}
  BY DEF Init, Making, FreeSet, HeldSet
<1>3. PoolAccounting
  BY <1>1, <1>2, CapType, FS_EmptySet DEF Init, PoolAccounting
<1> QED
  BY <1>1, <1>3 DEF Init, Inv, Ordered, Resting, Handed, Honest, Processes, Distinct,
                    NoStrandedWaiter

\* Every step keeps the types.
LEMMA TypeStep ==
  ASSUME Inv, [Next]_vars
  PROVE  TypeOK'
<1> USE DEF Inv, TypeOK, Go, Fail, Woken
<1>1. CASE UNCHANGED vars
  BY <1>1 DEF vars, poolVars, mainVars
<1>2. ASSUME NEW c \in Chunks, Call(c) PROVE TypeOK'
  <2>1. CASE Enter(c) \/ Refuse(c)
    BY <2>1 DEF Enter, Refuse, poolVars, mainVars
  <2>2. CASE TakeFree(c)
    <3>1. free[Len(free)] \in Chunks /\ SubSeq(free, 1, Len(free) - 1) \in Seq(Chunks)
      BY <2>2, EmptySeq, SubSeqProperties, LenProperties, ElementOfSeq DEF TakeFree
    <3> QED BY <2>2, <3>1 DEF TakeFree, mainVars
  <2>3. CASE TakeSlot(c) \/ Wait(c) \/ CallFactory(c)
    BY <2>3 DEF TakeSlot, Wait, CallFactory, poolVars, mainVars
  <2>4. CASE FactoryReturns(c) \/ RunReturns(c) \/ Return(c)
    <3>1. CASE FactoryReturns(c)
      BY <3>1 DEF FactoryReturns, poolVars, mainVars
    <3>2. CASE RunReturns(c)
      BY <3>2 DEF RunReturns, poolVars, mainVars
    <3>3. CASE Return(c)
      <4>1. group' \in BOOLEAN
        BY <3>3 DEF Return
      <4> QED BY <3>3, <4>1 DEF Return, poolVars, mainVars
    <3> QED BY <2>4, <3>1, <3>2, <3>3
  <2>5. CASE Unmade(c) \/ Made(c)
    <3>1. ~closed
      BY <2>5 DEF Resting, Unmade, Made
    <3>2. live > 0
      <4>1. c \in Making /\ Making \in SUBSET Chunks
        BY <2>5 DEF Making, Unmade, Made
      <4>2. Cardinality(Making) \in Nat /\ Cardinality(Making) # 0
        BY <4>1, Finite, FS_EmptySet
      <4> QED BY <3>1, <4>2, Finite DEF PoolAccounting
    <3> QED BY <2>5, <3>2 DEF Unmade, Made, GiveSlotBack, mainVars
  <2>6. CASE Release(c)
    <3>1. ~closed /\ held[c] \in Chunks
      BY <2>6 DEF Resting, Handed, Release
    <3>2. held[c] \in all
      BY <3>1, Names DEF PoolAccounting, HeldSet
    <3>3. live > 0
      <4>1. Cardinality(all) \in Nat /\ Cardinality(all) # 0
        BY <3>2, Finite, FS_EmptySet
      <4>2. Cardinality(Making) \in Nat
        BY Finite DEF Making
      <4> QED BY <3>1, <4>1, <4>2 DEF PoolAccounting
    <3>4. Append(free, held[c]) \in Seq(Chunks)
      BY <3>1, AppendProperties
    <3>5. live - 1 \in Nat
      BY <3>3
    <3> QED BY <2>6, <3>1, <3>4, <3>5 DEF Release, mainVars
  <2> QED BY <1>2, <2>1, <2>2, <2>3, <2>4, <2>5, <2>6 DEF Call
<1>3. ASSUME NEW c \in Chunks, Watchdog(c) PROVE TypeOK'
  BY <1>3 DEF Watchdog, poolVars, mainVars
<1>4. CASE RunChunks
  <2>1. <<>> \in Seq(Chunks)
    BY EmptySeq
  <2> QED
    BY <1>4, <2>1 DEF RunChunks, Gather, Phase2Begin, Phase2Returns, ClosePool, Verdict,
                      poolVars, mainVars
<1>5. CASE Cancel
  BY <1>5 DEF Cancel, poolVars, mainVars
<1> QED BY <1>1, <1>2, <1>3, <1>4, <1>5 DEF Next
-----------------------------------------------------------------------------
(* What every call has in common.                                          *)

\* A step of chunk c is a step of Phase 1; it disturbs another chunk only to wake it.
LEMMA CallShape ==
  ASSUME Inv, NEW c \in Chunks, Call(c)
  PROVE  /\ mode' = mode /\ main = "phase1" /\ main' = main /\ result' = result
         /\ ~closed /\ closed' = closed
         /\ pc[c] # "done" /\ pc'[c] # "idle" /\ (pc[c] = "idle" => MayStart(c))
         /\ \A d \in Chunks \ {c} :
              /\ outcome'[d] = outcome[d] /\ held'[d] = held[d]
              /\ pc'[d] = pc[d] \/ (pc[d] = "wait" /\ pc'[d] = "acquire")
<1> USE DEF Inv, TypeOK, Resting, Go, Fail, Woken
<1>1. CASE Enter(c) \/ Refuse(c)
  BY <1>1 DEF Enter, Refuse, poolVars, mainVars
<1>2. CASE TakeFree(c) \/ TakeSlot(c) \/ Wait(c)
  BY <1>2 DEF TakeFree, TakeSlot, Wait, poolVars, mainVars
<1>3. CASE CallFactory(c) \/ FactoryReturns(c)
  BY <1>3 DEF CallFactory, FactoryReturns, poolVars, mainVars
<1>4. CASE Unmade(c) \/ Made(c)
  BY <1>4 DEF Unmade, Made, GiveSlotBack, mainVars
<1>5. CASE RunReturns(c) \/ Release(c) \/ Return(c)
  BY <1>5 DEF RunReturns, Release, Return, poolVars, mainVars
<1> QED
  BY <1>1, <1>2, <1>3, <1>4, <1>5 DEF Call

\* The parts of the invariant the shape of a call alone preserves.
LEMMA ShapeStep ==
  ASSUME Inv, NEW c \in Chunks, Call(c)
  PROVE  Ordered' /\ Resting' /\ Honest'
<1>1. Ordered'
  <2> SUFFICES ASSUME mode' = "sequential", NEW e \in Chunks, NEW d \in Chunks,
                      d < e, pc'[e] # "idle"
               PROVE  pc'[d] = "done" /\ outcome'[d] \notin Aborting
    BY DEF Ordered
  <2>1. CASE pc[e] # "idle"
    <3>1. pc[d] = "done" /\ outcome[d] \notin Aborting
      BY <2>1, CallShape DEF Inv, Ordered
    <3> QED BY <3>1, CallShape
  <2>2. CASE pc[e] = "idle"
    <3>1. e = c /\ d \in 1 .. c - 1
      BY <2>2, CallShape DEF Chunks
    <3>2. pc[d] = "done" /\ outcome[d] \notin Aborting /\ d # c
      BY <2>2, <3>1, CallShape DEF MayStart
    <3> QED BY <3>2, CallShape
  <2> QED BY <2>1, <2>2
<1>2. Resting'
  BY CallShape DEF Inv, Resting
<1>3. Honest'
  BY CallShape DEF Inv, Honest
<1> QED BY <1>1, <1>2, <1>3

\* A chunk has a session in hand exactly while it runs its prompt.
LEMMA HandedStep ==
  ASSUME Inv, NEW c \in Chunks, Call(c)
  PROVE  Handed'
<1> SUFFICES held'[c] # NoSession <=> pc'[c] \in {"run", "release"}
  BY CallShape DEF Handed, Inv
<1> USE DEF Inv, TypeOK, Handed, Go, Fail, Woken
<1>1. CASE Enter(c) \/ Refuse(c)
  BY <1>1 DEF Enter, Refuse
<1>2. CASE TakeFree(c)
  <2>1. free[Len(free)] \in Chunks
    BY <1>2, EmptySeq, LenProperties, ElementOfSeq DEF TakeFree
  <2> QED BY <1>2, <2>1, Names DEF TakeFree
<1>3. CASE TakeSlot(c) \/ Wait(c) \/ CallFactory(c) \/ FactoryReturns(c)
  BY <1>3 DEF TakeSlot, Wait, CallFactory, FactoryReturns
<1>4. CASE Unmade(c)
  BY <1>4 DEF Unmade, GiveSlotBack
<1>5. CASE Made(c)
  BY <1>5, Names DEF Made, GiveSlotBack
<1>6. CASE RunReturns(c) \/ Release(c) \/ Return(c)
  BY <1>6 DEF RunReturns, Release, Return
<1> QED
  BY <1>1, <1>2, <1>3, <1>4, <1>5, <1>6 DEF Call

-----------------------------------------------------------------------------
(* The processes.                                                          *)

\* A chunk's step leaves exactly the processes of sessions known or just made.
LEMMA ProcessesStep ==
  ASSUME Inv, NEW c \in Chunks, Call(c)
  PROVE  Processes'
<1> DEFINE Fresh == {d \in Chunks : pc[d] = "made"}
<1>1. /\ open \ {Phase2Session} = all \cup Fresh /\ Phase2Session \notin open
      /\ \A d \in all : pc[d] \in Past
  BY CallShape DEF Inv, Processes
<1>2. all \subseteq Chunks
  BY DEF Inv, TypeOK
<1> SUFFICES /\ open' = all' \cup Fresh' /\ Phase2Session \notin open'
             /\ \A d \in all' : pc'[d] \in Past
  BY CallShape DEF Processes
<1>3. \A d \in Chunks \ {c} : /\ pc'[d] = "made" <=> pc[d] = "made"
                              /\ pc[d] \in Past => pc'[d] \in Past
  BY CallShape DEF Past
<1> USE DEF Inv, TypeOK, Go, Fail
<1>4. CASE pc'[c] # "made" /\ pc[c] # "made" /\ UNCHANGED <<open, all>>
           /\ (pc[c] \in Past => pc'[c] \in Past)
  BY <1>1, <1>2, <1>3, <1>4
<1>5. CASE Enter(c) \/ Refuse(c) \/ TakeFree(c)
  BY <1>4, <1>5 DEF Enter, Refuse, TakeFree, poolVars, Past
<1>6. CASE TakeSlot(c) \/ Wait(c) \/ CallFactory(c)
  BY <1>4, <1>6 DEF TakeSlot, Wait, CallFactory, poolVars, Past
<1>7. CASE RunReturns(c) \/ Return(c)
  BY <1>4, <1>7 DEF RunReturns, Return, poolVars, Past
<1>8. CASE Unmade(c)
  BY <1>4, <1>8 DEF Unmade, GiveSlotBack, Woken, Past
<1>9. CASE FactoryReturns(c)
  <2>1. c \notin all
    BY <1>1, <1>9 DEF FactoryReturns, Past
  <2>2. CASE pc'[c] = "unmade" /\ UNCHANGED open
    BY <1>4, <1>9, <2>1, <2>2 DEF FactoryReturns, poolVars, Past
  <2>3. CASE pc'[c] = "made" /\ open' = open \cup {c}
    BY <1>1, <1>2, <1>3, <1>9, <2>1, <2>3, Names DEF FactoryReturns, poolVars
  <2> QED BY <1>9, <2>2, <2>3 DEF FactoryReturns
<1>10. CASE Made(c)
  <2>1. all' = all \cup {c} /\ pc[c] = "made" /\ pc'[c] = "run" /\ UNCHANGED open
    BY <1>10, CallShape DEF Made
  <2> QED BY <1>1, <1>2, <1>3, <2>1 DEF Past
<1>11. CASE Release(c)
  <2>1. pc[c] = "release" /\ pc'[c] = "return" /\ ~closed
    BY <1>11, CallShape DEF Release, Woken
  <2>2. CASE UNCHANGED <<open, all>>
    BY <1>4, <2>1, <2>2 DEF Past
  <2>3. CASE open' = open \ {held[c]} /\ all' = all \ {held[c]}
    <3>1. held[c] \in HeldSet
      BY <2>1 DEF Handed, HeldSet
    <3>2. held[c] \in all
      BY <3>1, <2>1 DEF PoolAccounting
    <3>3. held[c] \notin Fresh
      BY <1>1, <3>2 DEF Past
    <3> QED BY <1>1, <1>2, <1>3, <2>1, <2>3, <3>3 DEF Past
  <2> QED BY <1>11, <2>2, <2>3 DEF Release
<1> QED
  BY <1>5, <1>6, <1>7, <1>8, <1>9, <1>10, <1>11 DEF Call

-----------------------------------------------------------------------------
(* The books of the pool.                                                  *)

\* A step that touches neither the pool, nor a hand, nor who is making a session.
LEMMA QuietStep ==
  ASSUME Inv, NEW c \in Chunks, Call(c), UNCHANGED <<live, free, all, held>>,
         c \in Making <=> c \in Making'
  PROVE  PoolAccounting' /\ Distinct'
<1>1. Making' = Making
  <2>1. \A d \in Chunks \ {c} : d \in Making <=> d \in Making'
    BY CallShape DEF Making
  <2> QED BY <2>1 DEF Making
<1>2. FreeSet' = FreeSet /\ HeldSet' = HeldSet /\ PoolCap' = PoolCap
  BY CallShape DEF FreeSet, HeldSet, PoolCap
<1>3. Processes' /\ ~closed /\ main' # "returned"
  BY ProcessesStep, CallShape
<1>4. all' \subseteq open'
  BY <1>3 DEF Processes
<1>5. PoolAccounting'
  BY <1>1, <1>2, <1>3, <1>4 DEF Inv, PoolAccounting
<1> QED BY <1>5 DEF Inv, Distinct

\* The pool's books stay right when a free session is handed out.
LEMMA TakeFreeStep ==
  ASSUME Inv, NEW c \in Chunks, TakeFree(c)
  PROVE  PoolAccounting' /\ Distinct'
<1> DEFINE n == Len(free)  s == free[n]
<1>0. Call(c)
  BY DEF Call
<1>1. /\ free \in Seq(Chunks) /\ n \in Nat /\ n > 0 /\ s \in Chunks
      /\ free' = SubSeq(free, 1, n - 1)
  BY EmptySeq, LenProperties, ElementOfSeq DEF TakeFree, Inv, TypeOK
<1>2. Len(free') = n - 1 /\ \A i \in 1 .. n - 1 : free'[i] = free[i]
  <2>1. \A i \in 1 .. n - 1 : free[i] \in Chunks
    BY <1>1, LenProperties, ElementOfSeq
  <2>2. n - 1 \in Int /\ 1 \in Int /\ n - 1 - 1 + 1 = n - 1
    BY <1>1
  <2>3. /\ Len(free') = IF 1 <= n - 1 THEN n - 1 ELSE 0
        /\ \A i \in 1 .. n - 1 : free'[i] = free[1 + i - 1]
    <3> HIDE DEF n
    <3> QED BY <1>1, <2>1, <2>2, SubSeqProperties
  <2>4. n \in Nat /\ n > 0
    BY <1>1
  <2>5. Len(free') = n - 1
    <3> HIDE DEF n
    <3> QED BY <2>3, <2>4
  <2>6. \A i \in 1 .. n - 1 : free'[i] = free[i]
    <3> HIDE DEF n
    <3> QED BY <2>3, <2>4
  <2> QED BY <2>5, <2>6
<1>3. FreeSet' = FreeSet \ {s} /\ s \in FreeSet
  BY <1>1, <1>2 DEF Inv, Distinct, FreeSet
<1>4. held' = [held EXCEPT ![c] = s] /\ held[c] = NoSession /\ held \in [Chunks -> Chunks \cup {NoSession}]
  BY DEF TakeFree, Inv, TypeOK, Handed
<1>5. HeldSet' = HeldSet \cup {s}
  BY <1>1, <1>4, Names DEF HeldSet
<1>6. Making' = Making /\ PoolCap' = PoolCap /\ UNCHANGED <<live, all, closed>> /\ ~closed
  BY <1>0, CallShape DEF TakeFree, Making, Go, Inv, TypeOK, PoolCap
<1>7. Cardinality(FreeSet') = Len(free')
  <2>1. FreeSet \in SUBSET Chunks
    BY <1>1, LenProperties, ElementOfSeq DEF FreeSet
  <2>2. Cardinality(FreeSet') = Cardinality(FreeSet) - 1
    BY <1>3, <2>1, Finite, FS_RemoveElement DEF Inv
  <2> QED BY <1>2, <1>6, <2>2 DEF Inv, PoolAccounting
<1>8. \A d \in Chunks : held[d] # s
  BY <1>1, <1>3, <1>6, Names DEF HeldSet, Inv, PoolAccounting
<1>9. \A d, e \in Chunks : d # e /\ held'[d] = held'[e] => held'[d] = NoSession
  BY <1>4, <1>6, <1>8 DEF Inv, PoolAccounting
<1>10. all' \subseteq open'
  BY <1>0, ProcessesStep, CallShape DEF Processes
<1>11. /\ all' = FreeSet' \cup HeldSet' /\ FreeSet' \cap HeldSet' = {}
  BY <1>3, <1>5, <1>6 DEF Inv, PoolAccounting
<1>12. live' = Cardinality(all') + Cardinality(Making') /\ live' <= PoolCap'
  BY <1>6 DEF Inv, PoolAccounting
<1>13. PoolAccounting'
  BY <1>7, <1>9, <1>10, <1>11, <1>12 DEF PoolAccounting
<1>14. Distinct'
  BY <1>1, <1>2 DEF Inv, Distinct
<1> QED BY <1>13, <1>14

\* The pool's books stay right when a slot is taken, given back or filled.
LEMMA MakingStep ==
  ASSUME Inv, NEW c \in Chunks, TakeSlot(c) \/ Unmade(c) \/ Made(c)
  PROVE  PoolAccounting' /\ Distinct'
<1>0. Call(c)
  BY DEF Call
<1>1. /\ PoolCap' = PoolCap /\ ~closed /\ ~closed' /\ free' = free /\ FreeSet' = FreeSet
      /\ \A d \in Chunks \ {c} : (d \in Making' <=> d \in Making) /\ held'[d] = held[d]
  BY <1>0, CallShape DEF TakeSlot, Unmade, Made, GiveSlotBack, PoolCap, Making, FreeSet
<1>2. /\ IsFiniteSet(Making) /\ IsFiniteSet(all) /\ Making \subseteq Chunks /\ all \subseteq Chunks
      /\ Cardinality(Making) \in Nat /\ Cardinality(all) \in Nat
  BY Finite DEF Inv, TypeOK, Making
<1>3. all' \subseteq open'
  BY <1>0, ProcessesStep, CallShape DEF Processes
<1>4. held \in [Chunks -> Chunks \cup {NoSession}]
  BY DEF Inv, TypeOK
<1>5. /\ live = Cardinality(all) + Cardinality(Making) /\ live <= PoolCap
      /\ all = FreeSet \cup HeldSet /\ FreeSet \cap HeldSet = {}
      /\ Cardinality(FreeSet) = Len(free)
      /\ \A d, e \in Chunks : d # e /\ held[d] = held[e] => held[d] = NoSession
  BY <1>1 DEF Inv, PoolAccounting
<1>c. /\ live \in Nat /\ PoolCap \in Nat /\ Cardinality(Making) \in Nat
      /\ Cardinality(all) \in Nat /\ PoolCap' = PoolCap
      /\ live = Cardinality(all) + Cardinality(Making) /\ live <= PoolCap
  BY <1>1, <1>2, <1>5, CapType DEF Inv, TypeOK
<1>6. Distinct'
  BY <1>1 DEF Inv, Distinct
<1> USE DEF Go, Woken
<1>7. CASE TakeSlot(c)
  <2>1. c \notin Making /\ c \in Making' /\ live' = live + 1 /\ live < PoolCap
        /\ UNCHANGED <<all, held>>
    BY <1>7 DEF TakeSlot, Making, Inv, TypeOK
  <2>2. Making' = Making \cup {c}
    BY <1>1, <2>1 DEF Making
  <2>3. Cardinality(Making') = Cardinality(Making) + 1
    BY <1>2, <2>1, <2>2, FS_AddElement
  <2>4. HeldSet' = HeldSet
    BY <2>1 DEF HeldSet
  <2>5. live' = Cardinality(all') + Cardinality(Making') /\ live' <= PoolCap'
    BY <1>c, <2>1, <2>3
  <2>6. PoolAccounting'
    BY <1>1, <1>3, <1>5, <2>1, <2>4, <2>5 DEF PoolAccounting
  <2> QED BY <1>6, <2>6
<1>8. CASE Unmade(c)
  <2>1. c \in Making /\ c \notin Making' /\ live' = live - 1 /\ UNCHANGED <<all, held>>
    BY <1>8 DEF Unmade, GiveSlotBack, Making, Inv, TypeOK
  <2>2. Making' = Making \ {c}
    BY <1>1, <2>1 DEF Making
  <2>3. Cardinality(Making') = Cardinality(Making) - 1
    BY <1>2, <2>1, <2>2, FS_RemoveElement
  <2>4. HeldSet' = HeldSet
    BY <2>1 DEF HeldSet
  <2>5. live' = Cardinality(all') + Cardinality(Making') /\ live' <= PoolCap'
    BY <1>c, <2>1, <2>3
  <2>6. PoolAccounting'
    BY <1>1, <1>3, <1>5, <2>1, <2>4, <2>5 DEF PoolAccounting
  <2> QED BY <1>6, <2>6
<1>9. CASE Made(c)
  <2>1. /\ c \in Making /\ c \notin Making' /\ live' = live /\ all' = all \cup {c}
        /\ held' = [held EXCEPT ![c] = c] /\ pc[c] = "made"
    BY <1>1, <1>9 DEF Made, Making, Inv, TypeOK
  <2>2. Making' = Making \ {c}
    BY <1>1, <2>1 DEF Making
  <2>3. c \notin all /\ held[c] = NoSession
    BY <1>0, <2>1, CallShape DEF Processes, Past, Handed, Inv
  <2>4. /\ Cardinality(Making') = Cardinality(Making) - 1
        /\ Cardinality(all') = Cardinality(all) + 1
    BY <1>2, <2>1, <2>2, <2>3, FS_RemoveElement, FS_AddElement
  <2>5. HeldSet' = HeldSet \cup {c}
    BY <1>4, <2>1, <2>3, Names DEF HeldSet
  <2>6. live' = Cardinality(all') + Cardinality(Making') /\ live' <= PoolCap'
    BY <1>c, <2>1, <2>4
  <2>7. \A d \in Chunks : held[d] # c
    BY <1>5, <2>3, Names DEF HeldSet
  <2>8. \A d, e \in Chunks : d # e /\ held'[d] = held'[e] => held'[d] = NoSession
    BY <1>4, <1>5, <2>1, <2>7
  <2>9. all' = FreeSet' \cup HeldSet' /\ FreeSet' \cap HeldSet' = {}
    BY <1>1, <1>5, <2>1, <2>3, <2>5
  <2>10. PoolAccounting'
    BY <1>1, <1>3, <1>5, <2>6, <2>8, <2>9 DEF PoolAccounting
  <2> QED BY <1>6, <2>10
<1> QED BY <1>7, <1>8, <1>9

\* The pool's books stay right when a session is given back.
LEMMA ReleaseStep ==
  ASSUME Inv, NEW c \in Chunks, Release(c)
  PROVE  PoolAccounting' /\ Distinct'
<1> DEFINE s == held[c]
<1>0. Call(c)
  BY DEF Call
<1>1. PoolCap' = PoolCap /\ ~closed /\ ~closed' /\ Making' = Making
  BY <1>0, CallShape DEF Release, Go, Woken, Inv, TypeOK, PoolCap, Making
<1>2. /\ held' = [held EXCEPT ![c] = NoSession] /\ s # NoSession /\ s \in Chunks
      /\ held \in [Chunks -> Chunks \cup {NoSession}] /\ free \in Seq(Chunks)
  BY DEF Release, Inv, TypeOK, Handed
<1>3. /\ live = Cardinality(all) + Cardinality(Making) /\ live <= PoolCap
      /\ all = FreeSet \cup HeldSet /\ FreeSet \cap HeldSet = {}
      /\ Cardinality(FreeSet) = Len(free)
      /\ \A d, e \in Chunks : d # e /\ held[d] = held[e] => held[d] = NoSession
  BY <1>1 DEF Inv, PoolAccounting
<1>4. s \in HeldSet /\ s \in all /\ s \notin FreeSet
  BY <1>2, <1>3 DEF HeldSet
<1>5. HeldSet' = HeldSet \ {s}
  BY <1>2, <1>3 DEF HeldSet
<1>6. \A d, e \in Chunks : d # e /\ held'[d] = held'[e] => held'[d] = NoSession
  BY <1>2, <1>3
<1>7. all' \subseteq open'
  BY <1>0, ProcessesStep, CallShape DEF Processes
<1>8. live \in Nat /\ PoolCap \in Nat /\ Cardinality(Making) \in Nat /\ Cardinality(all) \in Nat
      /\ IsFiniteSet(all) /\ IsFiniteSet(FreeSet)
  <2>1. FreeSet \in SUBSET Chunks /\ all \in SUBSET Chunks /\ Making \in SUBSET Chunks
    BY <1>3 DEF Inv, TypeOK, Making
  <2> QED BY <2>1, CapType, Finite DEF Inv, TypeOK
<1>c. /\ live \in Nat /\ PoolCap \in Nat /\ Cardinality(Making) \in Nat
      /\ Cardinality(all) \in Nat /\ PoolCap' = PoolCap /\ Making' = Making
      /\ live = Cardinality(all) + Cardinality(Making) /\ live <= PoolCap
  BY <1>1, <1>3, <1>8
<1>9. CASE all' = all \ {s} /\ live' = live - 1 /\ UNCHANGED free
  <2>1. Cardinality(all') = Cardinality(all) - 1
    BY <1>4, <1>8, <1>9, FS_RemoveElement
  <2>2. FreeSet' = FreeSet
    BY <1>9 DEF FreeSet
  <2>3. live' = Cardinality(all') + Cardinality(Making') /\ live' <= PoolCap'
    BY <1>c, <1>9, <2>1
  <2>4. PoolAccounting'
    BY <1>3, <1>4, <1>5, <1>6, <1>7, <1>9, <2>2, <2>3 DEF PoolAccounting
  <2> QED BY <1>9, <2>4 DEF Inv, Distinct
<1>10. CASE free' = Append(free, s) /\ UNCHANGED <<all, live>>
  <2>1. /\ Len(free) \in Nat /\ Len(free') = Len(free) + 1 /\ free'[Len(free) + 1] = s
        /\ \A i \in 1 .. Len(free) : free'[i] = free[i]
    BY <1>2, <1>10, AppendProperties, LenProperties
  <2>2. FreeSet' = FreeSet \cup {s}
    BY <2>1 DEF FreeSet
  <2>3. Cardinality(FreeSet') = Len(free')
    <3>1. Cardinality(FreeSet') = Cardinality(FreeSet) + 1
      BY <1>4, <1>8, <2>2, FS_AddElement
    <3> QED BY <1>3, <2>1, <3>1
  <2>4. all' = FreeSet' \cup HeldSet' /\ FreeSet' \cap HeldSet' = {}
    BY <1>3, <1>4, <1>5, <1>10, <2>2
  <2>5. PoolAccounting'
    BY <1>1, <1>3, <1>6, <1>7, <1>10, <2>3, <2>4 DEF PoolAccounting
  <2>6. \A i \in 1 .. Len(free) : free'[i] # s
    BY <1>4, <2>1 DEF FreeSet
  <2>7. Distinct'
    BY <2>1, <2>6 DEF Inv, Distinct
  <2> QED BY <2>5, <2>7
<1> QED BY <1>9, <1>10 DEF Release

\* The pool's books stay right at every step of a chunk.
LEMMA BooksStep ==
  ASSUME Inv, NEW c \in Chunks, Call(c)
  PROVE  PoolAccounting' /\ Distinct'
<1> USE DEF Inv, TypeOK, Go, Fail
<1>1. CASE Enter(c) \/ Refuse(c) \/ Wait(c)
  <2>1. UNCHANGED <<live, free, all, held>> /\ (c \in Making <=> c \in Making')
    BY <1>1 DEF Enter, Refuse, Wait, poolVars, Making
  <2> QED BY <2>1, QuietStep
<1>2. CASE CallFactory(c) \/ FactoryReturns(c)
  <2>1. UNCHANGED <<live, free, all, held>> /\ (c \in Making <=> c \in Making')
    BY <1>2 DEF CallFactory, FactoryReturns, poolVars, Making
  <2> QED BY <2>1, QuietStep
<1>3. CASE RunReturns(c) \/ Return(c)
  <2>1. UNCHANGED <<live, free, all, held>> /\ (c \in Making <=> c \in Making')
    BY <1>3 DEF RunReturns, Return, poolVars, Making
  <2> QED BY <2>1, QuietStep
<1> QED
  BY <1>1, <1>2, <1>3, TakeFreeStep, MakingStep, ReleaseStep DEF Call

\* A chunk's step leaves nobody asleep beside a free session or a free slot.
LEMMA WaiterStep ==
  ASSUME Inv, NEW c \in Chunks, Call(c)
  PROVE  NoStrandedWaiter'
<1> SUFFICES ASSUME NEW d \in Chunks, pc'[d] = "wait"
             PROVE  free' = <<>> /\ live' = PoolCap' /\ ~closed'
  BY DEF NoStrandedWaiter
<1>1. PoolCap' = PoolCap /\ ~closed /\ ~closed' /\ (d # c => pc[d] = "wait")
  BY CallShape DEF PoolCap
<1>2. d # c => free = <<>> /\ live = PoolCap
  BY <1>1 DEF Inv, NoStrandedWaiter
<1>3. live <= PoolCap /\ live \in Nat /\ PoolCap \in Nat
  BY <1>1, CapType DEF Inv, PoolAccounting, TypeOK
<1> USE DEF Inv, TypeOK, Go, Fail
<1>4. CASE Enter(c) \/ Refuse(c) \/ TakeFree(c) \/ TakeSlot(c)
  BY <1>1, <1>2, <1>3, <1>4 DEF Enter, Refuse, TakeFree, TakeSlot, poolVars
<1>5. CASE Wait(c)
  BY <1>1, <1>3, <1>5 DEF Wait, poolVars
<1>6. CASE CallFactory(c) \/ FactoryReturns(c) \/ RunReturns(c) \/ Return(c)
  BY <1>1, <1>2, <1>6 DEF CallFactory, FactoryReturns, RunReturns, Return, poolVars
<1>7. CASE Unmade(c) \/ Made(c)
  BY <1>1, <1>2, <1>7 DEF Unmade, Made, GiveSlotBack, Woken
<1>8. CASE Release(c)
  BY <1>8 DEF Release, Woken
<1> QED
  BY <1>4, <1>5, <1>6, <1>7, <1>8 DEF Call

-----------------------------------------------------------------------------
(* The steps of RunChunks.                                                 *)

\* RunChunks settles the result by what its chunks came to, and closes the pool.
LEMMA RunChunksStep ==
  ASSUME Inv, RunChunks
  PROVE  /\ Ordered' /\ Resting' /\ Handed' /\ Honest' /\ Processes' /\ Distinct'
         /\ PoolAccounting' /\ NoStrandedWaiter'
<1>1. UNCHANGED <<mode, pc, held, outcome, live>>
  BY DEF RunChunks, Gather, Phase2Begin, Phase2Returns, ClosePool, poolVars
<1>2. Ordered' /\ Handed'
  BY <1>1 DEF Inv, Ordered, Handed
<1>3. \A c \in Chunks : pc[c] \in {"idle", "done"}
  BY OverMeansStill DEF Inv, Resting, RunChunks, Gather, Phase2Begin, Phase2Returns, ClosePool
<1>4. Resting'
  BY <1>1, <1>3 DEF Inv, Resting, RunChunks, Gather, Phase2Begin, Phase2Returns, ClosePool,
                    poolVars
<1>5. NoStrandedWaiter'
  BY <1>1, <1>3 DEF NoStrandedWaiter
<1>6. {c \in Chunks : pc[c] = "made"} = {}
  BY <1>3
<1>7. Verdict = "complete" => \A c \in Chunks : outcome[c] = "clean"
  <2> SUFFICES ASSUME Phase1Complete PROVE Counted = Chunks
    BY DEF Verdict, Counted
  <2>1. Counted \in SUBSET Chunks
    BY DEF Counted
  <2> QED BY <2>1, Finite, FS_Subset DEF Inv, Phase1Complete
<1>8. Verdict \in {"complete", "partial"}
  BY DEF Verdict
<1>9. Honest'
  <2>1. CASE Gather
    <3>1. (\E c \in Chunks : outcome[c] = "ratelimit") => Phase1Err
      BY DEF Phase1Err, Aborting
    <3> QED BY <1>1, <1>7, <1>8, <2>1, <3>1 DEF Inv, Honest, Gather
  <2>2. CASE Phase2Begin \/ Phase2Returns
    BY <1>1, <1>7, <1>8, <2>2 DEF Inv, Honest, Phase2Begin, Phase2Returns
  <2>3. CASE ClosePool
    BY <1>1, <2>3 DEF Inv, Honest, ClosePool
  <2> QED BY <2>1, <2>2, <2>3 DEF RunChunks
<1>10. CASE Gather \/ Phase2Begin \/ Phase2Returns
  <2>1. UNCHANGED <<free, all, closed>> /\ ~closed /\ main' # "returned" /\ main # "returned"
    BY <1>10 DEF Inv, Resting, Gather, Phase2Begin, Phase2Returns, poolVars
  <2>2. Processes'
    BY <1>1, <1>10, <2>1, Names DEF Inv, TypeOK, Processes, Gather, Phase2Begin, Phase2Returns
  <2>3. all' \subseteq open'
    BY <2>1, <2>2 DEF Processes
  <2>4. Making' = Making /\ FreeSet' = FreeSet /\ HeldSet' = HeldSet /\ PoolCap' = PoolCap
    BY <1>1, <2>1 DEF Making, FreeSet, HeldSet, PoolCap
  <2>5. PoolAccounting'
    BY <1>1, <2>1, <2>3, <2>4 DEF Inv, PoolAccounting
  <2>6. Distinct'
    BY <2>1 DEF Inv, Distinct
  <2> QED BY <1>2, <1>4, <1>5, <1>9, <2>2, <2>5, <2>6
<1>11. CASE ClosePool
  <2>1. open' = {} /\ all' = {} /\ main' = "returned" /\ closed' /\ free' = <<>>
    BY <1>6, <1>11 DEF Inv, Processes, ClosePool
  <2>2. Processes' /\ PoolAccounting' /\ Distinct'
    BY <2>1 DEF Processes, PoolAccounting, Distinct
  <2> QED BY <1>2, <1>4, <1>5, <1>9, <2>2
<1> QED BY <1>10, <1>11 DEF RunChunks

\* A watchdog wakes waiters and nothing else.
LEMMA WatchdogStep ==
  ASSUME Inv, NEW c \in Chunks, Watchdog(c)
  PROVE  /\ Ordered' /\ Resting' /\ Handed' /\ Honest' /\ Processes' /\ Distinct'
         /\ PoolAccounting' /\ NoStrandedWaiter'
<1>1. /\ UNCHANGED <<mode, held, outcome, live, free, all, closed, open, main, result>>
      /\ main = "phase1"
      /\ \A d \in Chunks : \/ pc'[d] = pc[d] /\ pc[d] # "wait"
                           \/ pc[d] = "wait" /\ pc'[d] = "acquire"
  BY DEF Watchdog, Woken, Inv, TypeOK, Resting, poolVars, mainVars
<1>2. Making' = Making /\ FreeSet' = FreeSet /\ HeldSet' = HeldSet /\ PoolCap' = PoolCap
  BY <1>1 DEF Making, FreeSet, HeldSet, PoolCap
<1>3. PoolAccounting' /\ Distinct'
  BY <1>1, <1>2 DEF Inv, PoolAccounting, Distinct
<1>4. Ordered' /\ Resting' /\ Handed' /\ Honest'
  BY <1>1 DEF Inv, Ordered, Resting, Handed, Honest
<1>5. {d \in Chunks : pc[d] = "made"}' = {d \in Chunks : pc[d] = "made"}
  BY <1>1
<1>6. Processes'
  BY <1>1, <1>5 DEF Inv, TypeOK, Processes, Past
<1>7. NoStrandedWaiter'
  BY <1>1 DEF NoStrandedWaiter
<1> QED BY <1>3, <1>4, <1>6, <1>7

\* Every step keeps the invariant.
LEMMA InvStep ==
  ASSUME Inv, [Next]_vars
  PROVE  Inv'
<1>1. TypeOK'
  BY TypeStep
<1>2. CASE \E c \in Chunks : Call(c)
  BY <1>1, <1>2, ShapeStep, HandedStep, ProcessesStep, BooksStep, WaiterStep DEF Inv
<1>3. CASE \E c \in Chunks : Watchdog(c)
  BY <1>1, <1>3, WatchdogStep DEF Inv
<1>4. CASE RunChunks
  BY <1>1, <1>4, RunChunksStep DEF Inv
<1>5. CASE Cancel \/ UNCHANGED vars
  <2>1. UNCHANGED <<mode, pc, held, outcome, live, free, all, closed, open, main, result>>
    BY <1>5 DEF Cancel, vars, poolVars, mainVars
  <2>2. Making' = Making /\ FreeSet' = FreeSet /\ HeldSet' = HeldSet /\ PoolCap' = PoolCap
    BY <2>1 DEF Making, FreeSet, HeldSet, PoolCap
  <2>3. PoolAccounting' /\ NoStrandedWaiter' /\ Distinct'
    BY <2>1, <2>2 DEF Inv, PoolAccounting, NoStrandedWaiter, Distinct
  <2>4. Ordered' /\ Resting' /\ Handed' /\ Honest' /\ Processes'
    BY <2>1 DEF Inv, Ordered, Resting, Handed, Honest, Processes
  <2> QED BY <1>1, <2>3, <2>4 DEF Inv
<1> QED
  BY <1>2, <1>3, <1>4, <1>5 DEF Next

-----------------------------------------------------------------------------
\* The invariant holds in every reachable state.
LEMMA Inv_always == Spec => []Inv
  BY InitInv, InvStep, PTL DEF Spec

\* The variables keep their types.
THEOREM TypeOK_always == Spec => []TypeOK
<1>1. Inv => TypeOK
  BY DEF Inv
<1> QED BY <1>1, Inv_always, PTL

\* Whatever fails or is cancelled, the pool's count of live sessions is that of
\* the sessions known and being made, within the capacity, and no session is in
\* two hands or both free and in use.
THEOREM PoolAccounting_always == Spec => []PoolAccounting
<1>1. Inv => PoolAccounting
  BY DEF Inv
<1> QED BY <1>1, Inv_always, PTL

\* Nobody sleeps in Acquire while a session or a slot is to be had.
THEOREM NoStrandedWaiter_always == Spec => []NoStrandedWaiter
<1>1. Inv => NoStrandedWaiter
  BY DEF Inv
<1> QED BY <1>1, Inv_always, PTL

\* An analysis that has returned leaves no session process behind.
THEOREM NoSessionLeaks_always == Spec => []NoSessionLeaks
<1>1. Inv => NoSessionLeaks
  BY DEF Inv, Processes, NoSessionLeaks
<1> QED BY <1>1, Inv_always, PTL

\* A complete result rests on every chunk; a rate limit is never passed over.
THEOREM ResultIsHonest_always == Spec => []ResultIsHonest
<1>1. Inv => ResultIsHonest
  <2> SUFFICES ASSUME Inv PROVE ResultIsHonest
    OBVIOUS
  <2>1. main = "returned" => result # "none"
    BY DEF Inv, Honest
  <2> QED BY <2>1 DEF Inv, Honest, ResultIsHonest
<1> QED BY <1>1, Inv_always, PTL
=============================================================================
