-------------------------- MODULE ChunkedAnalysis --------------------------
(***************************************************************************)
(* One analysis: the transcript is cut into chunks, each chunk is one      *)
(* prompt to a language-model session (Phase 1), and one more prompt turns *)
(* the mistakes found into guardrails (Phase 2).  Sessions come from a     *)
(* pool of bounded size; in parallel mode every chunk has a goroutine of   *)
(* its own.  Models internal/analyzer/sessionpool.go and                   *)
(* internal/analyzer/orchestrator_chunked.go.                              *)
(*                                                                         *)
(* An action is one critical section of the pool's mutex, or one call that *)
(* leaves it.  A chunk asks for one session, so the session it may cause   *)
(* to be made is named after it; the session of Phase 2 is Phase2Session.  *)
(***************************************************************************)
EXTENDS Integers, Sequences, FiniteSets

CONSTANTS NChunks,         \* number of chunks of the transcript
          MaxConcurrency   \* configured bound on parallel sessions, 0 for none

ASSUME ChunksAssumption == NChunks \in Nat \ {0} /\ MaxConcurrency \in Nat

Chunks == 1 .. NChunks
Phase2Session == 0
NoSession == -1

VARIABLES
  mode,     \* "parallel" or "sequential"
  pc,       \* where the call of each chunk stands
  held,     \* session each chunk holds
  outcome,  \* how the prompt of each chunk ended
  live,     \* SessionPool.live
  free,     \* SessionPool.free, a stack
  all,      \* SessionPool.all
  closed,   \* SessionPool.closed
  open,     \* sessions whose provider process exists
  ctx,      \* the context of the run is cancelled
  group,    \* the context of the errgroup is cancelled
  main,     \* where RunChunks stands
  result    \* what RunChunks returns

poolVars == <<live, free, all, closed>>
mainVars == <<main, result>>
vars == <<mode, pc, held, outcome, live, free, all, closed, open, ctx, group,
          main, result>>

PoolCap ==
  IF mode = "sequential" THEN 1
  ELSE IF MaxConcurrency = 0 \/ MaxConcurrency > NChunks THEN NChunks
  ELSE MaxConcurrency

(* A single chunk is always analysed in sequential mode. *)
Init == /\ mode \in {"parallel", "sequential"}
        /\ mode = "parallel" => NChunks > 1
        /\ pc = [c \in Chunks |-> "idle"]
        /\ held = [c \in Chunks |-> NoSession]
        /\ outcome = [c \in Chunks |-> "none"]
        /\ live = 0 /\ free = <<>> /\ all = {} /\ closed = FALSE
        /\ open = {}
        /\ ctx = FALSE /\ group = FALSE
        /\ main = "phase1" /\ result = "none"

-----------------------------------------------------------------------------
Cancelled == ctx \/ group

(* cond.Broadcast: every waiter runs the loop of Acquire again. *)
FaultWoken(p) == p   \* a broadcast forgotten
Woken(p) == [c \in Chunks |-> IF p[c] = "wait" THEN "acquire" ELSE p[c]]

Go(c, place) == pc' = [pc EXCEPT ![c] = place]

(* The call of c is over with no session in hand. *)
Fail(c, how) == Go(c, "return") /\ outcome' = [outcome EXCEPT ![c] = how]

(* Outcomes after which the loop over the chunks in sequential mode stops. *)
Aborting == {"error", "ratelimit", "nosummary"}

(* Sequential mode comes to c when all chunks before it let it go on; in   *)
(* parallel mode every chunk has its goroutine at once.                    *)
MayStart(c) ==
  mode = "sequential" =>
    \A d \in 1 .. c - 1 : pc[d] = "done" /\ outcome[d] \notin Aborting

(* Acquire looks at the context before it takes the lock. *)
Enter(c) ==
  /\ main = "phase1" /\ pc[c] = "idle" /\ MayStart(c)
  /\ IF Cancelled THEN Fail(c, "error")
     ELSE Go(c, "acquire") /\ UNCHANGED outcome
  /\ UNCHANGED <<mode, held, poolVars, open, ctx, group, mainVars>>

Refuse(c) ==
  /\ pc[c] = "acquire" /\ (closed \/ Cancelled)
  /\ Fail(c, "error")
  /\ UNCHANGED <<mode, held, poolVars, open, ctx, group, mainVars>>

TakeFree(c) ==
  /\ pc[c] = "acquire" /\ ~closed /\ ~Cancelled /\ free # <<>>
  /\ held' = [held EXCEPT ![c] = free[Len(free)]]
  /\ free' = SubSeq(free, 1, Len(free) - 1)
  /\ Go(c, "run")
  /\ UNCHANGED <<mode, outcome, live, all, closed, open, ctx, group, mainVars>>

TakeSlot(c) ==
  /\ pc[c] = "acquire" /\ ~closed /\ ~Cancelled /\ free = <<>>
  /\ live < PoolCap
  /\ live' = live + 1
  /\ Go(c, "factory")
  /\ UNCHANGED <<mode, held, outcome, free, all, closed, open, ctx, group,
                 mainVars>>

(* cond.Wait, with a watchdog goroutine on the context of the call. *)
Wait(c) ==
  /\ pc[c] = "acquire" /\ ~closed /\ ~Cancelled /\ free = <<>>
  /\ live >= PoolCap
  /\ Go(c, "wait")
  /\ UNCHANGED <<mode, held, outcome, poolVars, open, ctx, group, mainVars>>

Watchdog(c) ==
  /\ pc[c] = "wait" /\ Cancelled
  /\ pc' = Woken(pc)
  /\ UNCHANGED <<mode, held, outcome, poolVars, open, ctx, group, mainVars>>

(* One factory call at a time. *)
CallFactory(c) ==
  /\ pc[c] = "factory" /\ \A d \in Chunks : pc[d] # "making"
  /\ Go(c, "making")
  /\ UNCHANGED <<mode, held, outcome, poolVars, open, ctx, group, mainVars>>

FactoryReturns(c) ==
  /\ pc[c] = "making"
  /\ \/ Go(c, "unmade") /\ UNCHANGED open
     \/ Go(c, "made") /\ open' = open \cup {c}
  /\ UNCHANGED <<mode, held, outcome, poolVars, ctx, group, mainVars>>

(* The slot of a failed factory call is not given back. *)
FaultGiveSlotBack(c, how) ==
  /\ pc' = Woken([pc EXCEPT ![c] = "return"])
  /\ outcome' = [outcome EXCEPT ![c] = how]
  /\ UNCHANGED <<live, held, free, all>>

GiveSlotBack(c, how) ==
  /\ live' = live - 1
  /\ pc' = Woken([pc EXCEPT ![c] = "return"])
  /\ outcome' = [outcome EXCEPT ![c] = how]
  /\ UNCHANGED <<held, free, all>>

Unmade(c) ==
  /\ pc[c] = "unmade"
  /\ \E how \in {"error", "ratelimit"} : GiveSlotBack(c, how)
  /\ UNCHANGED <<mode, closed, open, ctx, group, mainVars>>

Made(c) ==
  /\ pc[c] = "made"
  /\ IF closed
     THEN GiveSlotBack(c, "error") /\ open' = open \ {c}
     ELSE /\ all' = all \cup {c}
          /\ held' = [held EXCEPT ![c] = c]
          /\ Go(c, "run")
          /\ UNCHANGED <<outcome, live, free, open>>
  /\ UNCHANGED <<mode, closed, ctx, group, mainVars>>

(* The prompt ends: an answer that can be parsed, one that cannot, one     *)
(* without the summary the next chunk needs, an error (a timeout or a      *)
(* cancelled context among them) or the provider's rate limit.             *)
RunReturns(c) ==
  /\ pc[c] = "run"
  /\ \E how \in {"clean", "parse", "nosummary", "error", "ratelimit"} :
       /\ how = "nosummary" => mode = "sequential" /\ c < NChunks
       /\ outcome' = [outcome EXCEPT ![c] = how]
  /\ Go(c, "release")
  /\ UNCHANGED <<mode, held, poolVars, open, ctx, group, mainVars>>

(* A failed session is forgotten but its process is not stopped. *)
FaultRelease(c) ==
  LET s == held[c]
  IN /\ pc[c] = "release"
     /\ IF outcome[c] \in {"error", "ratelimit"} \/ closed
        THEN all' = all \ {s} /\ live' = live - 1 /\ UNCHANGED free
        ELSE free' = Append(free, s) /\ UNCHANGED <<all, live>>
     /\ held' = [held EXCEPT ![c] = NoSession]
     /\ pc' = Woken([pc EXCEPT ![c] = "return"])
     /\ UNCHANGED <<mode, outcome, closed, open, ctx, group, mainVars>>

(* Release(s, ok): a session whose prompt failed is closed and forgotten. *)
Release(c) ==
  LET s == held[c]
  IN /\ pc[c] = "release"
     /\ IF outcome[c] \in {"error", "ratelimit"} \/ closed
        THEN /\ open' = open \ {s}
             /\ all' = all \ {s}
             /\ live' = live - 1
             /\ UNCHANGED free
        ELSE free' = Append(free, s) /\ UNCHANGED <<open, all, live>>
     /\ held' = [held EXCEPT ![c] = NoSession]
     /\ pc' = Woken([pc EXCEPT ![c] = "return"])
     /\ UNCHANGED <<mode, outcome, closed, ctx, group, mainVars>>

(* The goroutine returns; an error it returns cancels its siblings. *)
Return(c) ==
  /\ pc[c] = "return"
  /\ Go(c, "done")
  /\ group' = (group \/ (mode = "parallel" /\ outcome[c] = "ratelimit"))
  /\ UNCHANGED <<mode, held, outcome, poolVars, open, ctx, mainVars>>

-----------------------------------------------------------------------------
(* The deadline of the job, or the shutdown of the daemon. *)
Cancel ==
  /\ ~ctx /\ main # "returned"
  /\ ctx' = TRUE
  /\ UNCHANGED <<mode, pc, held, outcome, poolVars, open, group, mainVars>>

Phase1Over ==
  \/ \A c \in Chunks : pc[c] = "done"
  \/ /\ mode = "sequential"
     /\ \E c \in Chunks : pc[c] = "done" /\ outcome[c] \in Aborting

(* Chunks whose mistakes are in the union. *)
FaultCounted == {c \in Chunks : outcome[c] \in {"clean", "parse"}}
Counted == {c \in Chunks : outcome[c] = "clean"}
Phase1Complete == Cardinality(Counted) = NChunks
Verdict == IF Phase1Complete THEN "complete" ELSE "partial"

Phase1Err ==
  \E c \in Chunks : outcome[c] \in (IF mode = "parallel" THEN {"ratelimit"}
                                                          ELSE Aborting)

Gather ==
  /\ main = "phase1" /\ Phase1Over
  /\ \/ Phase1Err /\ main' = "close" /\ result' = "error"
     \/ ~Phase1Err /\ main' = "close" /\ result' = Verdict
     \/ ~Phase1Err /\ Counted # {} /\ main' = "phase2" /\ UNCHANGED result
  /\ UNCHANGED <<mode, pc, held, outcome, poolVars, open, ctx, group>>

(* Phase 2 has a pool of one session to itself. *)
Phase2Begin ==
  /\ main = "phase2"
  /\ \/ main' = "close" /\ result' = "error" /\ UNCHANGED open
     \/ /\ ~ctx
        /\ open' = open \cup {Phase2Session}
        /\ main' = "phase2run" /\ UNCHANGED result
  /\ UNCHANGED <<mode, pc, held, outcome, poolVars, ctx, group>>

Phase2Returns ==
  /\ main = "phase2run"
  /\ result' \in {"error", Verdict}
  /\ open' = open \ {Phase2Session}
  /\ main' = "close"
  /\ UNCHANGED <<mode, pc, held, outcome, poolVars, ctx, group>>

(* The deferred phase1Pool.Close(). *)
ClosePool ==
  /\ main = "close"
  /\ closed' = TRUE /\ all' = {} /\ free' = <<>>
  /\ open' = open \ all
  /\ main' = "returned"
  /\ UNCHANGED <<mode, pc, held, outcome, live, ctx, group, result>>

Call(c) == \/ Enter(c) \/ Refuse(c) \/ TakeFree(c) \/ TakeSlot(c) \/ Wait(c)
           \/ CallFactory(c) \/ FactoryReturns(c) \/ Unmade(c) \/ Made(c)
           \/ RunReturns(c) \/ Release(c) \/ Return(c)

RunChunks == Gather \/ Phase2Begin \/ Phase2Returns \/ ClosePool

Next == \/ \E c \in Chunks : Call(c) \/ Watchdog(c)
        \/ RunChunks
        \/ Cancel

Spec == Init /\ [][Next]_vars

(* Goroutines run and mutexes are handed on; a cancellation need not come. *)
ProviderCall(c) == FactoryReturns(c) \/ RunReturns(c)
PoolCall(c) == \/ Enter(c) \/ Refuse(c) \/ TakeFree(c) \/ TakeSlot(c) \/ Wait(c)
               \/ CallFactory(c) \/ Unmade(c) \/ Made(c) \/ Release(c) \/ Return(c)

Fairness == /\ \A c \in Chunks : WF_vars(PoolCall(c)) /\ WF_vars(Watchdog(c))
            /\ WF_vars(RunChunks)

(* A premise of one property, not a part of the specification: every call  *)
(* of the provider ends, at the latest with the timeout it is given.       *)
ProviderFairness == \A c \in Chunks : WF_vars(ProviderCall(c))

FairSpec == Spec /\ Fairness

-----------------------------------------------------------------------------
(* Each variable has its type (SessionPool, chunkResult, RunChunks). *)
TypeOK ==
  /\ mode \in {"parallel", "sequential"}
  /\ pc \in [Chunks -> {"idle", "acquire", "wait", "factory", "making", "made",
                        "unmade", "run", "release", "return", "done"}]
  /\ held \in [Chunks -> Chunks \cup {NoSession}]
  /\ outcome \in [Chunks -> {"none", "clean", "parse", "nosummary", "error",
                             "ratelimit"}]
  /\ live \in Nat /\ free \in Seq(Chunks) /\ all \subseteq Chunks
  /\ closed \in BOOLEAN /\ ctx \in BOOLEAN /\ group \in BOOLEAN
  /\ open \subseteq Chunks \cup {Phase2Session}
  /\ main \in {"phase1", "phase2", "phase2run", "close", "returned"}
  /\ result \in {"none", "error", "partial", "complete"}

FreeSet == {free[i] : i \in 1 .. Len(free)}
HeldSet == {held[c] : c \in Chunks} \ {NoSession}
Making == {c \in Chunks : pc[c] \in {"factory", "making", "made", "unmade"}}

(* While the pool is open, its count of live sessions is the number of     *)
(* those it knows and those being made, never above the capacity; a        *)
(* session it knows has a process and is either free, once, or in the      *)
(* hands of one chunk (Acquire lines 64-92, Release).                      *)
PoolAccounting ==
  ~closed =>
    /\ live = Cardinality(all) + Cardinality(Making) /\ live <= PoolCap
    /\ all = FreeSet \cup HeldSet /\ FreeSet \cap HeldSet = {}
    /\ Cardinality(FreeSet) = Len(free)
    /\ \A c, d \in Chunks : c # d /\ held[c] = held[d] => held[c] = NoSession
    /\ all \subseteq open

(* No goroutine sleeps in cond.Wait while a session is free or a slot is   *)
(* left: every change that would let it go on broadcasts.                  *)
NoStrandedWaiter ==
  \A c \in Chunks : pc[c] = "wait" => free = <<>> /\ live = PoolCap /\ ~closed

(* When RunChunks has returned no session process is left, whatever        *)
(* failed, timed out or was cancelled on the way (the deferred Close, and  *)
(* Release with ok=false).                                                 *)
NoSessionLeaks == main = "returned" => open = {}

(* CompletedCategories is set only if no chunk was dropped, and a rate     *)
(* limit is always an error (runPhase1Parallel, runPhase1Sequential).      *)
ResultIsHonest ==
  /\ result = "complete" => \A c \in Chunks : outcome[c] = "clean"
  /\ main = "returned" /\ (\E c \in Chunks : outcome[c] = "ratelimit") => result = "error"

(* Where the provider's calls end, so does the analysis: nobody waits for  *)
(* a session for ever, and errors, discarded sessions and cancellations    *)
(* leave no chunk behind (RunChunks, g.Wait).                              *)
EveryRunReturns == ProviderFairness => <>(main = "returned")
=============================================================================
