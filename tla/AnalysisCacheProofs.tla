------------------------ MODULE AnalysisCacheProofs ------------------------
(***************************************************************************)
(* Where every file can be hashed and read, a run that is skipped passes   *)
(* over nothing in silence, for any number of chats, commits and versions. *)
(***************************************************************************)
EXTENDS AnalysisCache, TLAPS

(* The premise of the theorems on skipping; chunks may be dropped. *)
AllSucceed == ~HashesMayFail /\ ~ReadsMayFail

(* The head is known from the load of the state on. *)
HeadKnown == at \notin {"idle", "discovered"} => run.head \in Heads

(***************************************************************************)
(* The invariant speaks of sets of chat versions: S and T hold pairs       *)
(* <<chat, version>> or keys <<chat, version, head>>, f is the version of  *)
(* each chat now, done the versions accounted for.                         *)
(***************************************************************************)
Within(S, f) == \A s \in S : s[2] <= f[s[1]]

(* A file a run has found exists, so its version is at least 1. *)
Typed == TypeOK /\ HeadKnown /\ Within(run.sources, content)

Accounted(S, done, f) == \A s \in S : <<s[1], s[2]>> \in done \/ s[2] < f[s[1]]

Reaches(S, T) == \A s \in S : \E t \in T : t[1] = s[1] /\ t[2] >= s[2]

(* T has what a run reads of S. *)
InPart(S, T) == \A s \in S : \E t \in T : t[1] = s[1] /\ t[2] >= Cut(s[2])

(* What T knows of the chats in S is no newer, and where it is the same it *)
(* is accounted for.                                                       *)
Settled(S, T, done) ==
  \A s \in S, t \in T :
    t[1] = s[1] => t[2] <= s[2] /\ (t[2] = s[2] => s \in done)

Kept(p, f) == p # Nothing => InPart(Own(p.key.keys), p.covers) /\ Within(p.covers, f)

(* The chat versions that are in a saved result or named beside one. *)
Done == seen \cup told

StatesAccounted ==
  /\ Within(disk.keys, content) /\ Accounted(Own(disk.keys), Done, content)
  /\ Within(run.state.keys, content) /\ Accounted(Own(run.state.keys), Done, content)

DiscoveryAccounted ==
  disc # Nothing =>
    Within(disc.sources, content) /\ Accounted(Own(disc.sources), Done, content)

SourcesSettled ==
  /\ Within(run.sources, content)
  /\ at \in {"discovered", "loaded"} /\ disc # Nothing =>
       Settled(Own(run.sources), Own(disc.sources), Done)
  /\ at = "discovered" => Settled(Own(run.sources), Own(disk.keys), Done)
  /\ at = "loaded" => Settled(Own(run.sources), Own(run.state.keys), Done)

(* What was cut off has been named, and read up to the budget.             *)
ReadInPart ==
  /\ InPart(Own(run.keys), run.read) /\ Within(run.read, content)
  /\ Within(run.warned, content)
  /\ \A k \in Own(run.keys) :
       k[2] > Budget => \E w \in run.warned : w[1] = k[1] /\ w[2] >= k[2]
  /\ \A w \in run.warned : w[2] > Budget /\ <<w[1], Budget>> \in run.read

KeysReach ==
  /\ at \in {"hashed", "read", "analyzed"} =>
       Reaches(run.sources, run.keys) /\ Within(run.keys, content)
  /\ at = "hashed" => \A k \in run.keys : \E s \in run.sources : s[1] = k[1]
  /\ at = "read" => ReadInPart
  /\ at = "analyzed" =>
       /\ Reaches(Own(run.keys), run.clean \cup run.warned)
       /\ Within(run.clean \cup run.warned, content)

Phase1Kept == Kept(disk.phase1, content) /\ Kept(run.state.phase1, content)

ResultAccounted ==
  /\ at = "saved" => Accounted(Own(run.sources), Done, content)
  /\ at = "skipped" => Own(run.sources) \subseteq Done

(* Keys that were computed for the chats in S at commit h. *)
KeysFor(K, S, h) ==
  /\ \A k \in K : k[3] = h /\ \E s \in S : s[1] = k[1] /\ k[2] >= s[2]
  /\ Reaches(S, K)

(* The state still has the keys of the last result, and so has the copy a  *)
(* run loaded: only the run in progress saves.                             *)
KeysOfServed ==
  /\ served # Nothing =>
       disk.ran /\ disk.head = served.head /\ KeysFor(disk.keys, served.sources, served.head)
  /\ at \in {"loaded", "hashed", "read", "analyzed"} =>
       /\ run.state.ran = disk.ran /\ run.state.head = disk.head
       /\ run.state.keys = disk.keys
  /\ at \in {"hashed", "read", "analyzed"} => KeysFor(run.keys, run.sources, run.head)

CacheInv == /\ StatesAccounted /\ DiscoveryAccounted /\ SourcesSettled
            /\ KeysReach /\ Phase1Kept /\ ResultAccounted

USE DEF Versions

-----------------------------------------------------------------------------
(* Chats only grow, and what is accounted for stays so. *)
LEMMA Monotone ==
  ASSUME NEW S, NEW f, NEW g, NEW done, NEW more,
         \A s \in S : f[s[1]] \in Nat /\ g[s[1]] \in Nat /\ s[2] \in Nat,
         \A s \in S : f[s[1]] <= g[s[1]],
         done \subseteq more
  PROVE  /\ Within(S, f) => Within(S, g)
         /\ Accounted(S, done, f) => Accounted(S, more, g)
BY DEF Within, Accounted

(* Through one set to the next, versions only grow.                        *)
LEMMA ReachesTransitive ==
  ASSUME NEW S, NEW T, NEW U, Reaches(S, T), Reaches(T, U),
         \A x \in S \cup T \cup U : x[2] \in Nat
  PROVE  Reaches(S, U)
<1> SUFFICES ASSUME NEW s \in S
             PROVE  \E u \in U : u[1] = s[1] /\ u[2] >= s[2]
  BY DEF Reaches
<1>1. PICK t \in T : t[1] = s[1] /\ t[2] >= s[2]
  BY DEF Reaches
<1>2. PICK u \in U : u[1] = t[1] /\ u[2] >= t[2]
  BY DEF Reaches
<1> QED BY <1>1, <1>2

(* What is read of S, and named where that is not all of it, reaches S.    *)
LEMMA PartsReach ==
  ASSUME NEW S, NEW T, NEW W, InPart(S, T),
         \A x \in S \cup T : x[2] \in Nat,
         \A s \in S : s[2] > Budget => \E w \in W : w[1] = s[1] /\ w[2] >= s[2]
  PROVE  Reaches(S, T \cup W)
<1> SUFFICES ASSUME NEW s \in S
             PROVE  \E t \in T \cup W : t[1] = s[1] /\ t[2] >= s[2]
  BY DEF Reaches
<1>1. CASE s[2] > Budget
  BY <1>1
<1>2. CASE ~(s[2] > Budget)
  BY <1>2 DEF InPart, Cut
<1> QED BY <1>1, <1>2

(* What reaches S is accounted for once a result that covers T is saved. *)
LEMMA ReachedIsAccounted ==
  ASSUME NEW S, NEW T, NEW f, NEW done, Reaches(S, T), Within(T, f),
         T \subseteq Chats \X Nat, T \subseteq done,
         \A s \in S : s[2] \in Nat, \A t \in T : f[t[1]] \in Nat
  PROVE  Accounted(S, done, f)
<1> SUFFICES ASSUME NEW s \in S
             PROVE  <<s[1], s[2]>> \in done \/ s[2] < f[s[1]]
  BY DEF Accounted
<1>1. PICK t \in T : t[1] = s[1] /\ t[2] >= s[2]
  BY DEF Reaches
<1>2. t[2] <= f[s[1]] /\ t = <<t[1], t[2]>> /\ t[2] \in Nat /\ f[s[1]] \in Nat
  BY <1>1 DEF Within
<1>3. CASE t[2] = s[2]
  BY <1>1, <1>2, <1>3
<1>4. CASE t[2] > s[2]
  BY <1>1, <1>2, <1>4
<1> QED BY <1>1, <1>2, <1>3, <1>4

(* What is there before the first run, and between runs, is well typed.    *)
LEMMA NothingTyped ==
  /\ EmptyState \in States /\ Nothing \in Entries
  /\ NoRun.sources = {} /\ NoRun.state = EmptyState /\ NoRun.keys = {}
  /\ EmptyState.keys = {} /\ EmptyState.phase1 = Nothing
BY DEF EmptyState, States, NoRun, Entries, MaybeHead

-----------------------------------------------------------------------------
(* What the steps of a run compute has the type of the field it goes to.   *)
LEMMA ComputedTyped ==
  ASSUME Typed, at \notin {"idle", "discovered"}
  PROVE  /\ \A failed :
              ComputeCacheKeys(run.sources, failed, run.state.keys, run.head)
                \in SUBSET Keys
         /\ \A now : now = {<<c, content[c]>> : c \in {s[1] : s \in run.sources} \ Subagents} =>
              /\ now \in SUBSET Sources /\ CutOff(now) \in SUBSET Sources
              /\ \A failed : {<<s[1], Cut(s[2])>> : s \in now \ failed} \in SUBSET Sources
<1> USE CacheAssumption
<1>1. run.sources \subseteq Sources /\ run.state.keys \subseteq Keys /\ run.head \in Heads
  BY DEF Typed, TypeOK, HeadKnown, States
<1>2. ASSUME NEW s \in run.sources
      PROVE  s[1] \in Chats /\ content[s[1]] \in Versions
  <2>1. s[1] \in Chats /\ s[2] \in Versions
    BY <1>1, <1>2 DEF Sources
  <2>2. s[2] <= content[s[1]]
    BY <1>2 DEF Typed, Within
  <2>3. content[s[1]] \in Nat
    BY <2>1 DEF Typed, TypeOK
  <2> QED BY <2>1, <2>2, <2>3
<1>3. ASSUME NEW failed
      PROVE  ComputeCacheKeys(run.sources, failed, run.state.keys, run.head)
               \in SUBSET Keys
  BY <1>1, <1>2 DEF ComputeCacheKeys, ChatCacheKey, Keys
<1>4. ASSUME NEW now,
             now = {<<c, content[c]>> : c \in {s[1] : s \in run.sources} \ Subagents}
      PROVE  /\ now \in SUBSET Sources /\ CutOff(now) \in SUBSET Sources
             /\ \A failed : {<<s[1], Cut(s[2])>> : s \in now \ failed} \in SUBSET Sources
  <2>1. now \in SUBSET Sources
    BY <1>2, <1>4 DEF Sources
  <2>2. \A s \in now : s[1] \in Chats /\ Cut(s[2]) \in Versions
    BY <2>1 DEF Sources, Cut
  <2> QED BY <2>1, <2>2 DEF Sources, CutOff
<1> QED BY <1>3, <1>4

(* So has the Phase 1 a run leaves for the next, and what a replay covers. *)
LEMMA Phase1Typed ==
  ASSUME Typed, at \notin {"idle", "discovered"}
  PROVE  /\ LoadPhase1 \in Phase1s \cup {Nothing}
         /\ \A b \in BOOLEAN : KeptPhase1(b) \in Phase1s \cup {Nothing}
         /\ \A lost : Covered(lost) \in SUBSET Sources
<1>1. /\ run.state.phase1 \in Phase1s \cup {Nothing} /\ run.head \in Heads
      /\ run.keys \in SUBSET Keys /\ run.read \in SUBSET Sources
  BY DEF Typed, TypeOK, HeadKnown, States
<1>2. LoadPhase1 \in Phase1s \cup {Nothing}
  BY <1>1 DEF LoadPhase1
<1>3. [key |-> Phase1Key, covers |-> run.read] \in Phase1s
  BY <1>1 DEF Phase1Key, Phase1s
<1>4. \A b \in BOOLEAN : KeptPhase1(b) \in Phase1s \cup {Nothing}
  BY <1>2, <1>3 DEF KeptPhase1
<1>5. ASSUME NEW lost PROVE Covered(lost) \in SUBSET Sources
  <2>1. CASE Replays
    <3>1. LoadPhase1 \in Phase1s
      BY <2>1, <1>2 DEF Replays
    <3>2. LoadPhase1.covers \in SUBSET Sources
      BY <3>1 DEF Phase1s
    <3> QED BY <2>1, <3>2 DEF Covered
  <2>2. CASE ~Replays
    BY <2>2, <1>1 DEF Covered
  <2> QED BY <2>1, <2>2
<1> QED BY <1>2, <1>4, <1>5

(* Every variable keeps its type: content and HEAD of the repository, the  *)
(* saved state, the discovery cache and the run in progress.               *)
LEMMA Typing == Spec => []Typed
<1> USE CacheAssumption
<1>1. Init => Typed
  BY NothingTyped DEF Init, Typed, TypeOK, HeadKnown, NoRun, MaybeHead, Within
<1>2. Typed /\ [Next]_vars => Typed'
  <2> SUFFICES ASSUME Typed, [Next]_vars PROVE Typed'
    OBVIOUS
  <2>0. NoRun \in [forced : BOOLEAN, daemon : BOOLEAN, sources : SUBSET Sources,
              state : States, head : MaybeHead, keys : SUBSET Keys,
              read : SUBSET Sources, warned : SUBSET Sources,
              clean : SUBSET Sources]
        /\ \A f : Within(NoRun.sources, f)
    BY NothingTyped DEF NoRun, MaybeHead, Within
  <2> USE DEF Typed, TypeOK, HeadKnown
  <2>1. CASE UNCHANGED vars
    BY <2>1 DEF vars, Within
  <2>2. ASSUME NEW c \in Chats, Append(c) PROVE Typed'
    <3>1. content' \in [Chats -> Nat]
          /\ \A d \in Chats : content[d] <= content'[d]
      BY <2>2 DEF Append
    <3>2. \A s \in run.sources : s[1] \in Chats /\ s[2] \in Nat
      BY DEF Sources
    <3>3. Within(run.sources, content')
      BY <3>1, <3>2 DEF Within
    <3> QED BY <2>2, <3>1, <3>3 DEF Append
  <2>3. ASSUME NEW h \in Heads, Checkout(h) PROVE Typed'
    BY <2>3 DEF Checkout, Within
  <2>4. CASE Discover
    <3>1. Found \subseteq Sources /\ Within(Found, content)
      BY DEF Found, Sources, Within
    <3>2. PICK forced \in BOOLEAN, daemon \in BOOLEAN :
            run' = [NoRun EXCEPT !.forced = forced, !.daemon = daemon, !.sources = Found]
      BY <2>4 DEF Discover
    <3>3. run' \in [forced : BOOLEAN, daemon : BOOLEAN, sources : SUBSET Sources,
              state : States, head : MaybeHead, keys : SUBSET Keys,
              read : SUBSET Sources, warned : SUBSET Sources,
              clean : SUBSET Sources]
          /\ run'.sources = Found
      BY <3>1, <3>2, <2>0
    <3> QED BY <2>4, <3>1, <3>3 DEF Discover, worldVars, Within
  <2>5. CASE LoadState
    BY <2>5 DEF LoadState, MaybeHead, worldVars, Within
  <2>6. CASE CheckDiscovery
    BY <2>6 DEF CheckDiscovery, Hit, worldVars, Within
  <2>7. CASE HashSources
    <3>1. PICK failed :
            run' = [run EXCEPT !.keys =
                      ComputeCacheKeys(run.sources, failed, run.state.keys, run.head)]
      BY <2>7 DEF HashSources
    <3>2. run'.sources = run.sources /\ run'.head = run.head
      BY <3>1
    <3>3. at = "loaded" /\ at' \in {"hashed", "skipped"} /\ UNCHANGED <<worldVars, disk, disc, seen, told, served>>
      BY <2>7 DEF HashSources, Hit
    <3>4. run' \in [forced : BOOLEAN, daemon : BOOLEAN, sources : SUBSET Sources,
              state : States, head : MaybeHead, keys : SUBSET Keys,
              read : SUBSET Sources, warned : SUBSET Sources,
              clean : SUBSET Sources]
      BY <3>1, <3>3, ComputedTyped
    <3> QED BY <3>2, <3>3, <3>4 DEF worldVars, Within
  <2>8. CASE ReadTranscripts
    <3> DEFINE now == {<<c, content[c]>> : c \in {s[1] : s \in run.sources} \ Subagents}
    <3>1. PICK failed \in Failing(ReadsMayFail, now) :
            run' = [run EXCEPT !.read = {<<s[1], Cut(s[2])>> : s \in now \ failed},
                               !.warned = failed \cup CutOff(now)]
      BY <2>8 DEF ReadTranscripts
    <3>2. at = "hashed" /\ at' = "read"
          /\ UNCHANGED <<worldVars, disk, disc, seen, told, served>>
      BY <2>8 DEF ReadTranscripts
    <3>3. /\ now \in SUBSET Sources /\ CutOff(now) \in SUBSET Sources
          /\ {<<s[1], Cut(s[2])>> : s \in now \ failed} \in SUBSET Sources
      <4>1. at \notin {"idle", "discovered"}
        BY <3>2
      <4>2. now = {<<c, content[c]>> : c \in {s[1] : s \in run.sources} \ Subagents}
        OBVIOUS
      <4> HIDE DEF now
      <4>3. QED BY <4>1, <4>2, ComputedTyped
    <3> HIDE DEF now
    <3>4. failed \in SUBSET Sources
      BY <3>1, <3>3 DEF Failing
    <3>5. run'.sources = run.sources /\ run'.head = run.head
      BY <3>1
    <3>6. run' \in [forced : BOOLEAN, daemon : BOOLEAN, sources : SUBSET Sources,
              state : States, head : MaybeHead, keys : SUBSET Keys,
              read : SUBSET Sources, warned : SUBSET Sources,
              clean : SUBSET Sources]
      BY <3>1, <3>3, <3>4
    <3> QED BY <3>2, <3>5, <3>6 DEF worldVars, Within
  <2>9. CASE SaveEmpty
    <3>1. at = "read" /\ run.head \in Heads
      BY <2>9 DEF SaveEmpty
    <3>2. disk' \in States
      BY <3>1, <2>9 DEF SaveEmpty, Record, States, MaybeHead
    <3>3. served' \in Entries /\ seen' \subseteq Sources /\ told' \subseteq Sources
      BY <3>1, <2>9 DEF SaveEmpty, Record, Entries
    <3> QED BY <2>9, <3>2, <3>3, <2>0 DEF SaveEmpty, worldVars
  <2>10. CASE Analyze
    <3>1. PICK lost \in Lost :
            run' = [run EXCEPT !.clean = Covered(lost), !.warned = @ \cup lost,
                               !.state.phase1 = Nothing]
      BY <2>10 DEF Analyze
    <3>0. run.warned \cup lost \in SUBSET Sources
      BY <3>1 DEF Lost
    <3>2. at = "read" /\ at' = "analyzed" /\ UNCHANGED <<worldVars, disk, disc, seen, told, served>>
      BY <2>10 DEF Analyze
    <3>3. Covered(lost) \in SUBSET Sources
      BY <3>2, Phase1Typed
    <3>4. [run.state EXCEPT !.phase1 = Nothing] \in States
      BY DEF States
    <3>5. run' = [run EXCEPT !.clean = Covered(lost), !.warned = run.warned \cup lost,
                             !.state = [run.state EXCEPT !.phase1 = Nothing]]
      BY <3>1
    <3>6. run' \in [forced : BOOLEAN, daemon : BOOLEAN, sources : SUBSET Sources,
              state : States, head : MaybeHead, keys : SUBSET Keys,
              read : SUBSET Sources, warned : SUBSET Sources,
              clean : SUBSET Sources]
      BY <3>0, <3>3, <3>4, <3>5
    <3>7. run'.sources = run.sources /\ run'.head = run.head
      BY <3>1
    <3> QED BY <3>2, <3>6, <3>7 DEF worldVars, Within
  <2>11. CASE FailAnalysis
    <3>1. PICK kept \in {run.state.phase1, KeptPhase1(TRUE), KeptPhase1(FALSE)} :
            disk' = [run.state EXCEPT !.phase1 = kept]
      BY <2>11 DEF FailAnalysis
    <3>2. at = "read" /\ run.state.phase1 \in Phase1s \cup {Nothing}
      BY <2>11 DEF FailAnalysis, States
    <3>3. kept \in Phase1s \cup {Nothing}
      BY <3>1, <3>2, Phase1Typed
    <3>4. disk' \in States
      BY <3>1, <3>3 DEF States
    <3> QED BY <2>11, <3>4, <2>0 DEF FailAnalysis, worldVars
  <2>12. CASE SaveResult
    <3>1. at = "analyzed" /\ run.head \in Heads
      BY <2>12 DEF SaveResult
    <3>2. disk' \in States
      BY <3>1, <2>12 DEF SaveResult, Record, States, MaybeHead
    <3>3. served' \in Entries /\ seen' \subseteq Sources /\ told' \subseteq Sources
      BY <3>1, <2>12 DEF SaveResult, Record, Entries
    <3> QED BY <2>12, <3>1, <3>2, <3>3 DEF SaveResult, worldVars, Within
  <2>13. CASE UpdateDiscovery
    <3>1. at = "saved" /\ run.head \in Heads
      BY <2>13 DEF UpdateDiscovery
    <3>2. disc' \in Entries
      BY <3>1, <2>13 DEF UpdateDiscovery, Entries
    <3> QED BY <2>13, <3>2, <2>0 DEF UpdateDiscovery, worldVars
  <2>14. CASE ReportHit \/ Abort
    BY <2>14, <2>0 DEF ReportHit, Abort, worldVars
  <2>15. CASE Restart
    BY <2>15, <2>0, NothingTyped DEF Restart, worldVars
  <2> QED BY <2>1, <2>2, <2>3, <2>4, <2>5, <2>6, <2>7, <2>8, <2>9, <2>10, <2>11,
             <2>12, <2>13, <2>14, <2>15 DEF Next, World, Run
<1> QED BY <1>1, <1>2, PTL DEF Spec

-----------------------------------------------------------------------------
(* No step shrinks a chat or forgets what is accounted for.                *)
LEMMA Grows ==
  ASSUME Typed, Typed', [Next]_vars
  PROVE  /\ \A S : S \subseteq Sources \/ S \subseteq Keys =>
              /\ Within(S, content) => Within(S, content')
              /\ Accounted(S, Done, content) => Accounted(S, Done', content')
         /\ \A p \in Phase1s \cup {Nothing} : Kept(p, content) => Kept(p, content')
<1> USE CacheAssumption
<1>1. \A c \in Chats : content[c] \in Nat /\ content'[c] \in Nat
  BY DEF Typed, TypeOK
<1>2. \A c \in Chats : content[c] <= content'[c]
  <2>1. CASE content' = content
    BY <2>1, <1>1
  <2>2. CASE \E c \in Chats : Append(c)
    BY <2>2, <1>1 DEF Append, Typed, TypeOK
  <2>3. content' = content \/ \E c \in Chats : Append(c)
    BY DEF Next, World, Run, Checkout, Discover, LoadState, CheckDiscovery, HashSources,
           ReadTranscripts, SaveEmpty, Analyze, FailAnalysis, SaveResult,
           UpdateDiscovery, ReportHit, Abort, Restart, vars, worldVars
  <2> QED BY <2>1, <2>2, <2>3
<1>3. Done \subseteq Done'
  BY DEF Done, Next, World, Run, Append, Checkout, Discover, LoadState, CheckDiscovery,
         HashSources, ReadTranscripts, SaveEmpty, Analyze, FailAnalysis, SaveResult,
         UpdateDiscovery, ReportHit, Abort, Restart, Record, vars, worldVars
<1>4. ASSUME NEW S, S \subseteq Sources \/ S \subseteq Keys
      PROVE  \A s \in S : s[1] \in Chats /\ s[2] \in Nat
  BY <1>4 DEF Sources, Keys
<1>5. ASSUME NEW S, S \subseteq Sources \/ S \subseteq Keys
      PROVE  /\ Within(S, content) => Within(S, content')
             /\ Accounted(S, Done, content) => Accounted(S, Done', content')
  <2>1. \A s \in S : s[1] \in Chats /\ s[2] \in Nat
    BY <1>4, <1>5
  <2>2. \A s \in S : /\ content[s[1]] \in Nat /\ content'[s[1]] \in Nat /\ s[2] \in Nat
                     /\ content[s[1]] <= content'[s[1]]
    BY <2>1, <1>1, <1>2
  <2> QED BY ONLY <2>2, <1>3, Monotone
<1>6. ASSUME NEW p \in Phase1s, Kept(p, content) PROVE Kept(p, content')
  BY <1>5, <1>6 DEF Kept, Phase1s
<1> QED BY <1>5, <1>6 DEF Kept

(* Without a run, only the saved state and the discovery cache matter.     *)
LEMMA Ended ==
  ASSUME run' = NoRun, at' = "idle", DiscoveryAccounted',
         Within(disk'.keys, content'), Accounted(Own(disk'.keys), Done', content'),
         Kept(disk'.phase1, content')
  PROVE  CacheInv'
<1>1. StatesAccounted'
  BY NothingTyped DEF StatesAccounted, Within, Accounted, Own
<1>2. SourcesSettled'
  BY NothingTyped DEF SourcesSettled, Within
<1>3. KeysReach' /\ ResultAccounted'
  BY DEF KeysReach, ResultAccounted
<1>4. Phase1Kept'
  BY NothingTyped DEF Phase1Kept, Kept
<1> QED BY <1>1, <1>2, <1>3, <1>4 DEF CacheInv

(* The parts of the invariant that no field a step writes can disturb.     *)
LEMMA Carried ==
  ASSUME Typed, Typed', CacheInv, [Next]_vars
  PROVE  /\ Within(disk.keys, content') /\ Accounted(Own(disk.keys), Done', content')
         /\ Within(run.state.keys, content')
         /\ Accounted(Own(run.state.keys), Done', content')
         /\ disc # Nothing => /\ Within(disc.sources, content')
                              /\ Accounted(Own(disc.sources), Done', content')
         /\ Within(run.sources, content')
         /\ Kept(disk.phase1, content') /\ Kept(run.state.phase1, content')
<1>1. /\ disk.keys \subseteq Keys /\ run.state.keys \subseteq Keys
      /\ Own(disk.keys) \subseteq Keys /\ Own(run.state.keys) \subseteq Keys
      /\ run.sources \subseteq Sources
      /\ disk.phase1 \in Phase1s \cup {Nothing}
      /\ run.state.phase1 \in Phase1s \cup {Nothing}
  BY DEF Typed, TypeOK, States, Own
<1>2. disc # Nothing => disc.sources \subseteq Sources /\ Own(disc.sources) \subseteq Sources
  BY DEF Typed, TypeOK, Entries, Own
<1> QED BY <1>1, <1>2, Grows
        DEF CacheInv, StatesAccounted, DiscoveryAccounted, SourcesSettled, Phase1Kept

-----------------------------------------------------------------------------
(* A run finds every chat as it is, so what is known of a chat is no newer. *)
LEMMA DiscoverKeeps ==
  ASSUME Typed, Typed', CacheInv, [Next]_vars, Discover
  PROVE  CacheInv'
<1> USE CacheAssumption
<1>1. PICK forced \in BOOLEAN, daemon \in BOOLEAN :
        run' = [NoRun EXCEPT !.forced = forced, !.daemon = daemon, !.sources = Found]
  BY DEF Discover
<1>2. run'.sources = Found /\ run'.state = EmptyState
  BY <1>1, NothingTyped DEF NoRun
<1>3. at' = "discovered" /\ UNCHANGED <<content, disk, disc, seen, told>> /\ Done' = Done
  BY DEF Discover, worldVars, Done
<1>4. ASSUME NEW T, T \subseteq Sources \/ T \subseteq Keys,
             Within(T, content), Accounted(Own(T), Done, content)
      PROVE  Settled(Own(Found), Own(T), Done)
  <2> SUFFICES ASSUME NEW s \in Own(Found), NEW t \in Own(T), t[1] = s[1]
               PROVE  t[2] <= s[2] /\ (t[2] = s[2] => s \in Done)
    BY DEF Settled
  <2>1. PICK c \in Chats : s = <<c, content[c]>>
    BY DEF Found, Own
  <2>2. content[c] \in Nat /\ t[2] \in Nat
    BY <1>4 DEF Typed, TypeOK, Own, Sources, Keys
  <2>3. t[2] <= content[c]
    BY <2>1, <1>4 DEF Within, Own
  <2>4. <<t[1], t[2]>> \in Done \/ t[2] < content[c]
    BY <2>1, <1>4 DEF Accounted
  <2> QED BY <2>1, <2>2, <2>3, <2>4
<1>5. /\ Settled(Own(Found), Own(disk.keys), Done)
      /\ disc # Nothing => Settled(Own(Found), Own(disc.sources), Done)
  <2>1. disk.keys \subseteq Keys /\ (disc # Nothing => disc.sources \subseteq Sources)
    BY DEF Typed, TypeOK, States, Entries
  <2> QED BY <1>4, <2>1 DEF CacheInv, StatesAccounted, DiscoveryAccounted
<1>6. Within(Found, content)
  BY DEF Found, Within, Typed, TypeOK
<1>7. StatesAccounted' /\ DiscoveryAccounted'
  BY <1>2, <1>3, Carried, NothingTyped
     DEF StatesAccounted, DiscoveryAccounted, Within, Accounted, Own
<1>8. SourcesSettled'
  BY <1>2, <1>3, <1>5, <1>6 DEF SourcesSettled
<1>9. KeysReach' /\ ResultAccounted'
  BY <1>3 DEF KeysReach, ResultAccounted
<1>10. Phase1Kept'
  BY <1>2, <1>3, Carried, NothingTyped DEF Phase1Kept, Kept, Own
<1> QED BY <1>7, <1>8, <1>9, <1>10 DEF CacheInv

(* The state a run loads is the one it was compared with when it began.    *)
LEMMA LoadKeeps ==
  ASSUME Typed, Typed', CacheInv, [Next]_vars, LoadState
  PROVE  CacheInv'
<1>1. run'.sources = run.sources /\ run'.state = disk
  BY DEF LoadState, Typed, TypeOK
<1>2. /\ at = "discovered" /\ at' = "loaded"
      /\ UNCHANGED <<content, disk, disc, seen, told>> /\ Done' = Done
  BY DEF LoadState, worldVars, Done
<1>3. StatesAccounted' /\ DiscoveryAccounted' /\ Phase1Kept'
  BY <1>1, <1>2, Carried DEF StatesAccounted, DiscoveryAccounted, Phase1Kept
<1>4. SourcesSettled'
  BY <1>1, <1>2 DEF CacheInv, SourcesSettled
<1>5. KeysReach' /\ ResultAccounted'
  BY <1>2 DEF KeysReach, ResultAccounted
<1> QED BY <1>3, <1>4, <1>5 DEF CacheInv

(* The discovery cache has just these versions, so they are accounted for. *)
LEMMA CheckKeeps ==
  ASSUME Typed, Typed', CacheInv, [Next]_vars, CheckDiscovery
  PROVE  CacheInv'
<1>1. /\ at = "loaded" /\ at' = "skipped"
      /\ UNCHANGED <<content, disk, disc, run, seen, told>> /\ Done' = Done
      /\ disc # Nothing /\ disc.sources = run.sources
  BY DEF CheckDiscovery, DiscoveryCheck, Hit, worldVars, Done
<1>2. Own(run.sources) \subseteq Done
  BY <1>1 DEF CacheInv, SourcesSettled, Settled
<1>3. StatesAccounted' /\ DiscoveryAccounted' /\ Phase1Kept'
  BY <1>1, Carried DEF StatesAccounted, DiscoveryAccounted, Phase1Kept
<1>4. SourcesSettled'
  BY <1>1, Carried DEF SourcesSettled
<1>5. KeysReach' /\ ResultAccounted'
  BY <1>1, <1>2 DEF KeysReach, ResultAccounted
<1> QED BY <1>3, <1>4, <1>5 DEF CacheInv

(* Hashes are taken later than the chats were found: a hash that is known  *)
(* is of the version found.                                                *)
LEMMA HashKeeps ==
  ASSUME AllSucceed, Typed, Typed', CacheInv, [Next]_vars, HashSources
  PROVE  CacheInv'
<1> USE CacheAssumption
<1> DEFINE keys == ComputeCacheKeys(run.sources, {}, run.state.keys, run.head)
<1>1. /\ run' = [run EXCEPT !.keys = keys]
      /\ at' = "hashed" \/ (at' = "skipped" /\ keys = run.state.keys)
  BY DEF HashSources, Failing, AllSucceed, Hit, CacheUnchanged
<1>2. at = "loaded" /\ UNCHANGED <<content, disk, disc, seen, told>> /\ Done' = Done
  BY DEF HashSources, worldVars, Done
<1>3. /\ run'.sources = run.sources /\ run'.state = run.state
      /\ run'.keys = keys
  BY <1>1 DEF Typed, TypeOK
<1>4. keys = {<<c, content[c], run.head>> : c \in {s[1] : s \in run.sources}}
  BY DEF ComputeCacheKeys, ChatCacheKey
<1>5. \A s \in run.sources : <<s[1], content[s[1]], run.head>> \in keys
  BY <1>4
<1> HIDE DEF keys
<1>6. \A s \in run.sources : s[1] \in Chats /\ s[2] \in Nat /\ s[2] <= content[s[1]]
                             /\ s = <<s[1], s[2]>> /\ content[s[1]] \in Nat
  BY DEF Typed, TypeOK, Sources, Within
<1>7. /\ Reaches(run.sources, keys) /\ Within(keys, content)
      /\ \A k \in keys : \E s \in run.sources : s[1] = k[1]
  <2>1. Reaches(run.sources, keys)
    <3> SUFFICES ASSUME NEW s \in run.sources
                 PROVE  \E t \in keys : t[1] = s[1] /\ t[2] >= s[2]
      BY DEF Reaches
    <3> DEFINE t == <<s[1], content[s[1]], run.head>>
    <3>1. t \in keys /\ t[1] = s[1] /\ t[2] = content[s[1]]
      BY <1>5
    <3>2. t[2] >= s[2]
      BY <3>1, <1>6
    <3> QED BY <3>1, <3>2
  <2>2. Within(keys, content)
    BY <1>4, <1>6 DEF Within
  <2> QED BY <2>1, <2>2, <1>4
<1>8. ASSUME keys = run.state.keys PROVE Own(run.sources) \subseteq Done
  <2> SUFFICES ASSUME NEW s \in Own(run.sources) PROVE s \in Done
    OBVIOUS
  <2>0. s \in run.sources /\ s[1] \notin Subagents
    BY DEF Own
  <2>1. PICK t \in Own(run.state.keys) : t[1] = s[1] /\ t[2] = content[s[1]]
    <3> DEFINE k == <<s[1], content[s[1]], run.head>>
    <3>1. k \in run.state.keys /\ k[1] = s[1] /\ k[2] = content[s[1]]
      BY <1>5, <1>8, <2>0
    <3>2. k \in Own(run.state.keys)
      BY <3>1, <2>0 DEF Own
    <3> QED BY <3>1, <3>2
  <2>2. Settled(Own(run.sources), Own(run.state.keys), Done)
    BY <1>2 DEF CacheInv, SourcesSettled
  <2>3. t[2] <= s[2] /\ (t[2] = s[2] => s \in Done)
    BY <2>1, <2>2 DEF Settled
  <2> QED BY <1>6, <2>0, <2>1, <2>3
<1>9. StatesAccounted' /\ DiscoveryAccounted' /\ Phase1Kept'
  BY <1>2, <1>3, Carried DEF StatesAccounted, DiscoveryAccounted, Phase1Kept
<1>10. SourcesSettled'
  BY <1>1, <1>2, <1>3, Carried DEF SourcesSettled
<1>11. KeysReach'
  BY <1>1, <1>2, <1>3, <1>7 DEF KeysReach
<1>12. ResultAccounted'
  BY <1>1, <1>2, <1>3, <1>8 DEF ResultAccounted
<1> QED BY <1>9, <1>10, <1>11, <1>12 DEF CacheInv

(* Chats are read later than they were hashed, and named where cut off.    *)
LEMMA ReadKeeps ==
  ASSUME AllSucceed, Typed, Typed', CacheInv, [Next]_vars, ReadTranscripts
  PROVE  CacheInv'
<1> USE CacheAssumption
<1> DEFINE now == {<<c, content[c]>> : c \in {s[1] : s \in run.sources} \ Subagents}
           read == {<<s[1], Cut(s[2])>> : s \in now}
<1>1. run' = [run EXCEPT !.read = read, !.warned = CutOff(now)]
  <2>1. PICK failed \in Failing(ReadsMayFail, now) :
          run' = [run EXCEPT !.read = {<<s[1], Cut(s[2])>> : s \in now \ failed},
                             !.warned = failed \cup CutOff(now)]
    BY DEF ReadTranscripts
  <2>2. failed = {}
    BY <2>1 DEF Failing, AllSucceed
  <2> QED BY <2>1, <2>2
<1>2. /\ at = "hashed" /\ at' = "read"
      /\ UNCHANGED <<content, disk, disc, seen, told>> /\ Done' = Done
  BY DEF ReadTranscripts, worldVars, Done
<1>3. /\ run'.sources = run.sources /\ run'.state = run.state
      /\ run'.keys = run.keys /\ run'.read = read /\ run'.warned = CutOff(now)
  BY <1>1 DEF Typed, TypeOK
<1>4. \A n \in now : /\ n[1] \in Chats /\ n[2] = content[n[1]] /\ n[2] \in Nat
                     /\ Cut(n[2]) \in Nat /\ Cut(n[2]) <= n[2]
  BY DEF Typed, TypeOK, Sources, Cut
<1>5. ASSUME NEW k \in Own(run.keys)
      PROVE  /\ <<k[1], content[k[1]]>> \in now
             /\ k[2] \in Nat /\ content[k[1]] \in Nat /\ k[2] <= content[k[1]]
  <2>1. k \in run.keys /\ k[1] \notin Subagents
    BY DEF Own
  <2>2. PICK s \in run.sources : s[1] = k[1]
    BY <1>2, <2>1 DEF CacheInv, KeysReach
  <2>3. k[2] <= content[k[1]] /\ k[2] \in Nat
    BY <1>2, <2>1 DEF CacheInv, KeysReach, Within, Typed, TypeOK, Keys
  <2>4. content[k[1]] \in Nat
    BY <2>1 DEF Typed, TypeOK, Keys
  <2> QED BY <2>1, <2>2, <2>3, <2>4
<1> HIDE DEF now
<1>6. InPart(Own(run.keys), read)
  <2> SUFFICES ASSUME NEW k \in Own(run.keys)
               PROVE  \E r \in read : r[1] = k[1] /\ r[2] >= Cut(k[2])
    BY DEF InPart
  <2>1. PICK n \in now : n[1] = k[1] /\ n[2] = content[k[1]]
    <3>1. <<k[1], content[k[1]]>>[1] = k[1] /\ <<k[1], content[k[1]]>>[2] = content[k[1]]
      OBVIOUS
    <3> QED BY <3>1, <1>5
  <2>2. n[2] \in Nat /\ k[2] \in Nat /\ k[2] <= n[2]
    BY <2>1, <1>5
  <2>3. \A v, w \in Nat : v <= w => Cut(v) <= Cut(w) /\ Cut(v) \in Nat
    BY DEF Cut
  <2>4. Cut(n[2]) >= Cut(k[2])
    BY <2>2, <2>3
  <2>5. <<n[1], Cut(n[2])>> \in read
    OBVIOUS
  <2>6. <<n[1], Cut(n[2])>>[1] = k[1] /\ <<n[1], Cut(n[2])>>[2] = Cut(n[2])
    BY <2>1
  <2> QED BY <2>4, <2>5, <2>6
<1>7. Within(read, content) /\ Within(CutOff(now), content)
  <2>1. ASSUME NEW r \in read PROVE r[2] <= content[r[1]]
    <3>1. PICK n \in now : r = <<n[1], Cut(n[2])>>
      OBVIOUS
    <3> QED BY <3>1, <1>4
  <2> QED BY <2>1, <1>4 DEF Within, CutOff
<1>8. ASSUME NEW k \in Own(run.keys), k[2] > Budget
      PROVE  \E w \in CutOff(now) : w[1] = k[1] /\ w[2] >= k[2]
  <2> DEFINE w == <<k[1], content[k[1]]>>
  <2>1. w \in CutOff(now) /\ w[1] = k[1] /\ w[2] >= k[2]
    BY <1>5, <1>8 DEF CutOff
  <2> QED BY <2>1
<1>9. ASSUME NEW w \in CutOff(now)
      PROVE  w[2] > Budget /\ <<w[1], Budget>> \in read
  <2>1. w \in now /\ w[2] > Budget
    BY DEF CutOff
  <2>2. Cut(w[2]) = Budget
    BY <2>1 DEF Cut
  <2> QED BY <2>1, <2>2
<1> HIDE DEF read
<1>10. ReadInPart'
  BY <1>2, <1>3, <1>6, <1>7, <1>8, <1>9 DEF ReadInPart
<1>11. StatesAccounted' /\ DiscoveryAccounted' /\ Phase1Kept'
  BY <1>2, <1>3, Carried DEF StatesAccounted, DiscoveryAccounted, Phase1Kept
<1>12. SourcesSettled'
  BY <1>2, <1>3, Carried DEF SourcesSettled
<1>13. KeysReach'
  BY <1>2, <1>3, <1>10 DEF KeysReach, CacheInv
<1>14. ResultAccounted'
  BY <1>2 DEF ResultAccounted
<1> QED BY <1>11, <1>12, <1>13, <1>14 DEF CacheInv

(* A result that covers what was read, but for what is named, reaches the  *)
(* keys saved with it.                                                     *)
LEMMA KeysAccounted ==
  ASSUME Typed, NEW done \in SUBSET Sources, Reaches(Own(run.keys), done),
         Within(done, content), NEW all, done \subseteq all
  PROVE  Accounted(Own(run.keys), all, content)
<1> USE CacheAssumption
<1>1. \A k \in Own(run.keys) : k[2] \in Nat
  BY DEF Typed, TypeOK, Keys, Own
<1>2. done \subseteq Chats \X Nat
  BY DEF Sources
<1>3. \A t \in done : content[t[1]] \in Nat
  BY <1>2 DEF Typed, TypeOK
<1> QED BY <1>1, <1>2, <1>3, ReachedIsAccounted

(* Chats without a message, none of them cut off, are accounted for once   *)
(* they have been read.                                                    *)
LEMMA SaveEmptyKeeps ==
  ASSUME Typed, Typed', CacheInv, [Next]_vars, SaveEmpty
  PROVE  CacheInv'
<1>1. /\ at = "read" /\ UNCHANGED <<content, disc>>
      /\ Done' = Done \cup run.read
      /\ run' = NoRun /\ at' = "idle"
  BY DEF SaveEmpty, Record, worldVars, Done
<1>2. disk'.keys = run.keys /\ disk'.phase1 = run.state.phase1
  BY DEF SaveEmpty, Record, Typed, TypeOK, States
<1>3. ReadInPart /\ Within(run.keys, content)
  BY <1>1 DEF CacheInv, KeysReach
<1>4. run.warned = {}
  BY <1>3 DEF ReadInPart, SaveEmpty, CutOff
<1>5. Within(run.read, content) /\ run.read \in SUBSET Sources /\ run.keys \in SUBSET Keys
  BY <1>3 DEF ReadInPart, Typed, TypeOK
<1>6. Reaches(Own(run.keys), run.read \cup {})
  <2>1. \A x \in Own(run.keys) \cup run.read : x[2] \in Nat
    BY <1>5 DEF Own, Keys, Sources
  <2>2. \A k \in Own(run.keys) :
          k[2] > Budget => \E w \in {} : w[1] = k[1] /\ w[2] >= k[2]
    BY <1>3, <1>4 DEF ReadInPart
  <2>3. InPart(Own(run.keys), run.read)
    BY <1>3 DEF ReadInPart
  <2> QED BY <2>1, <2>2, <2>3, PartsReach
<1>7. Accounted(Own(run.keys), Done', content)
  <2>1. run.read \cup {} = run.read
    OBVIOUS
  <2> QED BY <1>1, <1>5, <1>6, <2>1, KeysAccounted
<1>8. DiscoveryAccounted'
  BY <1>1, Carried DEF DiscoveryAccounted
<1>9. Kept(disk'.phase1, content')
  BY <1>2, Carried
<1> QED BY <1>1, <1>2, <1>3, <1>7, <1>8, <1>9, Ended

(* An answer covers what was read but for the chats whose chunks were      *)
(* dropped, which are named, or what a kept Phase 1 for the same keys      *)
(* covered; this run has named what was cut off.                           *)
LEMMA AnalyzeKeeps ==
  ASSUME AllSucceed, Typed, Typed', CacheInv, [Next]_vars, Analyze
  PROVE  CacheInv'
<1>1. PICK lost \in Lost :
        run' = [run EXCEPT !.clean = Covered(lost), !.warned = @ \cup lost,
                           !.state.phase1 = Nothing]
  BY DEF Analyze
<1>2. /\ at = "read" /\ at' = "analyzed"
      /\ UNCHANGED <<content, disk, disc, seen, told>> /\ Done' = Done
  BY DEF Analyze, worldVars, Done
<1>3. /\ run'.sources = run.sources /\ run'.keys = run.keys
      /\ run'.state.keys = run.state.keys /\ run'.state.phase1 = Nothing
      /\ run'.clean = Covered(lost) /\ run'.warned = run.warned \cup lost
  BY <1>1 DEF Typed, TypeOK, States
<1>4. ReadInPart /\ Within(run.keys, content) /\ Reaches(run.sources, run.keys)
  BY <1>2 DEF CacheInv, KeysReach
<1>5. /\ InPart(Own(run.keys), Covered({})) /\ Within(Covered({}), content)
      /\ Covered(lost) \cup run.warned \cup lost = Covered({}) \cup run.warned
  <2>1. CASE Replays
    <3>1. /\ run.state.phase1 # Nothing /\ LoadPhase1 = run.state.phase1
          /\ run.state.phase1.key = Phase1Key /\ lost = {}
      BY <2>1, <1>1 DEF Replays, LoadPhase1, Lost
    <3>2. run.state.phase1.key.keys = run.keys
      BY <3>1 DEF Phase1Key
    <3>3. /\ InPart(Own(run.keys), run.state.phase1.covers)
          /\ Within(run.state.phase1.covers, content)
      BY <3>1, <3>2 DEF CacheInv, Phase1Kept, Kept
    <3>4. Covered(lost) = run.state.phase1.covers /\ Covered({}) = run.state.phase1.covers
      BY <2>1, <3>1 DEF Covered
    <3> QED BY <3>1, <3>3, <3>4
  <2>2. CASE ~Replays
    <3>1. Covered({}) = run.read /\ Covered(lost) = run.read \ lost /\ lost \subseteq run.read
      BY <2>2, <1>1 DEF Covered, Lost
    <3> QED BY <3>1, <1>4 DEF ReadInPart
  <2> QED BY <2>1, <2>2
<1>6. Covered({}) \in SUBSET Sources /\ run.warned \in SUBSET Sources
      /\ run.keys \in SUBSET Keys
  BY <1>2, Phase1Typed DEF Typed, TypeOK
<1>7. Reaches(Own(run.keys), Covered({}) \cup run.warned)
  <2>1. \A x \in Own(run.keys) \cup Covered({}) : x[2] \in Nat
    BY <1>6 DEF Own, Keys, Sources
  <2>2. \A k \in Own(run.keys) :
          k[2] > Budget => \E w \in run.warned : w[1] = k[1] /\ w[2] >= k[2]
    BY <1>4 DEF ReadInPart
  <2> QED BY <1>5, <2>1, <2>2, PartsReach
<1>8. Within(Covered({}) \cup run.warned, content)
  BY <1>4, <1>5 DEF ReadInPart, Within
<1>9. StatesAccounted' /\ DiscoveryAccounted'
  BY <1>2, <1>3, Carried DEF StatesAccounted, DiscoveryAccounted
<1>10. Phase1Kept'
  BY <1>2, <1>3, Carried DEF Phase1Kept, Kept
<1>11. SourcesSettled'
  BY <1>2, <1>3, Carried DEF SourcesSettled
<1>12. KeysReach'
  <2>1. run'.clean \cup run'.warned = Covered({}) \cup run.warned
    BY <1>3, <1>5
  <2> QED BY <1>2, <1>3, <1>4, <1>7, <1>8, <2>1 DEF KeysReach
<1>13. ResultAccounted'
  BY <1>2 DEF ResultAccounted
<1> QED BY <1>9, <1>10, <1>11, <1>12, <1>13 DEF CacheInv

(* A run that fails keeps at most the Phase 1 of what it read.             *)
LEMMA FailKeeps ==
  ASSUME Typed, Typed', CacheInv, [Next]_vars, FailAnalysis
  PROVE  CacheInv'
<1>1. PICK kept \in {run.state.phase1, KeptPhase1(TRUE), KeptPhase1(FALSE)} :
        disk' = [run.state EXCEPT !.phase1 = kept]
  BY DEF FailAnalysis
<1>2. /\ at = "read" /\ UNCHANGED <<content, disc, seen, told>> /\ Done' = Done
      /\ run' = NoRun /\ at' = "idle"
  BY DEF FailAnalysis, worldVars, Done
<1>3. disk'.keys = run.state.keys /\ disk'.phase1 = kept
  BY <1>1 DEF Typed, TypeOK, States
<1>4. Kept(run.state.phase1, content) /\ Kept(LoadPhase1, content)
  BY DEF LoadPhase1, CacheInv, Phase1Kept, Kept
<1>5. Kept([key |-> Phase1Key, covers |-> run.read], content)
  BY <1>2 DEF CacheInv, KeysReach, ReadInPart, Kept, Phase1Key
<1>6. Kept(kept, content)
  BY <1>4, <1>5 DEF KeptPhase1
<1>7. DiscoveryAccounted'
  BY <1>2, Carried DEF DiscoveryAccounted
<1> QED BY <1>2, <1>3, <1>6, <1>7, Carried, Ended

(* From the chats found, over their keys, to what the answers cover.       *)
LEMMA SaveKeeps ==
  ASSUME Typed, Typed', CacheInv, [Next]_vars, SaveResult
  PROVE  CacheInv'
<1> USE CacheAssumption
<1> DEFINE done == run.clean \cup run.warned
<1>1. /\ at = "analyzed" /\ at' = "saved" /\ UNCHANGED <<content, disc, run>>
      /\ Done' = Done \cup done
  BY DEF SaveResult, Record, worldVars, Done
<1>2. disk'.keys = run.keys /\ disk'.phase1 = run.state.phase1
  BY DEF SaveResult, Record, Typed, TypeOK, States
<1>3. /\ Within(run.keys, content) /\ Reaches(Own(run.keys), done)
      /\ Within(done, content) /\ Reaches(run.sources, run.keys)
  BY <1>1 DEF CacheInv, KeysReach
<1>4. /\ done \in SUBSET Sources /\ run.keys \in SUBSET Keys
      /\ run.sources \in SUBSET Sources
  BY DEF Typed, TypeOK
<1> HIDE DEF done
<1>5. Accounted(Own(run.keys), Done', content)
  BY <1>1, <1>3, <1>4, KeysAccounted
<1>6. Accounted(Own(run.sources), Done', content)
  <2>1. \A x \in Own(run.sources) \cup Own(run.keys) \cup done : x[2] \in Nat
    BY <1>4 DEF Own, Sources, Keys
  <2>2. Reaches(Own(run.sources), Own(run.keys))
    BY <1>3 DEF Reaches, Own
  <2>3. Reaches(Own(run.sources), done)
    BY <1>3, <2>1, <2>2, ReachesTransitive
  <2>4. done \subseteq Chats \X Nat
    BY <1>4 DEF Sources
  <2>5. \A t \in done : content[t[1]] \in Nat
    BY <2>4 DEF Typed, TypeOK
  <2>6. done \subseteq Done'
    BY <1>1
  <2> QED BY <1>3, <2>1, <2>3, <2>4, <2>5, <2>6, ReachedIsAccounted
<1>7. StatesAccounted'
  BY <1>1, <1>2, <1>3, <1>5, Carried DEF StatesAccounted
<1>8. DiscoveryAccounted' /\ Phase1Kept'
  BY <1>1, <1>2, Carried DEF DiscoveryAccounted, Phase1Kept
<1>9. SourcesSettled'
  BY <1>1, Carried DEF SourcesSettled
<1>10. KeysReach' /\ ResultAccounted'
  BY <1>1, <1>6 DEF KeysReach, ResultAccounted
<1> QED BY <1>7, <1>8, <1>9, <1>10 DEF CacheInv

(* The discovery cache gets the chats found, which the result covers.      *)
LEMMA UpdateKeeps ==
  ASSUME Typed, Typed', CacheInv, [Next]_vars, UpdateDiscovery
  PROVE  CacheInv'
<1>1. /\ at = "saved" /\ UNCHANGED <<content, disk, seen, told>> /\ Done' = Done
      /\ run' = NoRun /\ at' = "idle"
      /\ disc' = disc \/ disc' = [sources |-> run.sources, head |-> run.head]
  BY DEF UpdateDiscovery, worldVars, Done
<1>2. Accounted(Own(run.sources), Done, content)
  BY <1>1 DEF CacheInv, ResultAccounted
<1>3. DiscoveryAccounted'
  BY <1>1, <1>2, Carried DEF DiscoveryAccounted
<1> QED BY <1>1, <1>3, Carried, Ended

(* A run that ends early leaves disk and caches, or clears them.           *)
LEMMA OverKeeps ==
  ASSUME Typed, Typed', CacheInv, [Next]_vars, ReportHit \/ Abort \/ Restart
  PROVE  CacheInv'
<1>1. /\ UNCHANGED <<content, disk, seen, told>> /\ Done' = Done /\ run' = NoRun /\ at' = "idle"
      /\ disc' = disc \/ disc' = Nothing
  BY DEF ReportHit, Abort, Restart, worldVars, Done
<1>2. DiscoveryAccounted'
  BY <1>1, Carried DEF DiscoveryAccounted
<1> QED BY <1>1, <1>2, Carried, Ended

(* A chat that grows leaves a run and the caches what they were.           *)
LEMMA WorldKeeps ==
  ASSUME Typed, Typed', CacheInv, [Next]_vars, World \/ UNCHANGED vars
  PROVE  CacheInv'
<1>1. UNCHANGED <<disk, disc, at, run, seen, told>> /\ Done' = Done
  BY DEF World, Append, Checkout, vars, Done
<1>2. StatesAccounted' /\ DiscoveryAccounted' /\ Phase1Kept'
  BY <1>1, Carried DEF StatesAccounted, DiscoveryAccounted, Phase1Kept
<1>3. SourcesSettled'
  BY <1>1, Carried DEF SourcesSettled, CacheInv
<1>4. /\ Within(run.keys, content) => Within(run.keys, content')
      /\ Within(run.read, content) => Within(run.read, content')
      /\ Within(run.warned, content) => Within(run.warned, content')
      /\ Within(run.clean \cup run.warned, content) =>
           Within(run.clean \cup run.warned, content')
      /\ Accounted(Own(run.sources), Done, content) =>
           Accounted(Own(run.sources), Done', content')
  <2>1. /\ run.keys \subseteq Keys /\ run.read \subseteq Sources
        /\ run.warned \subseteq Sources /\ run.clean \cup run.warned \subseteq Sources
        /\ Own(run.sources) \subseteq Sources
    BY DEF Typed, TypeOK, Own
  <2> QED BY <2>1, Grows
<1>5. KeysReach'
  BY <1>1, <1>4 DEF KeysReach, ReadInPart, CacheInv
<1>6. ResultAccounted'
  BY <1>1, <1>4 DEF ResultAccounted, CacheInv
<1> QED BY <1>2, <1>3, <1>5, <1>6 DEF CacheInv

-----------------------------------------------------------------------------
(* The inductive invariant holds, action by action.                        *)
LEMMA CacheInvHolds == ASSUME AllSucceed PROVE Spec => []CacheInv
<1>1. Init => CacheInv
  BY NothingTyped
     DEF Init, CacheInv, StatesAccounted, DiscoveryAccounted, SourcesSettled, KeysReach,
         Phase1Kept, ResultAccounted, Within, Accounted, Kept, Own
<1>2. Typed /\ Typed' /\ CacheInv /\ [Next]_vars => CacheInv'
  BY DiscoverKeeps, LoadKeeps, CheckKeeps, HashKeeps, ReadKeeps, SaveEmptyKeeps,
     AnalyzeKeeps, FailKeeps, SaveKeeps, UpdateKeeps, OverKeeps, WorldKeeps
     DEF Next, Run
<1> QED BY <1>1, <1>2, Typing, PTL DEF Spec

(* The types of the cache fields and of the run in progress, whatever      *)
(* fails (State, discoveryCacheEntry, cachingResult, transcriptResult).    *)
THEOREM TypeOK_always == Spec => []TypeOK
<1>1. Typed => TypeOK
  BY DEF Typed
<1> QED BY <1>1, Typing, PTL

(* A run that is skipped as a cache hit found no chat version that no      *)
(* saved result covers and no warning beside one names, however chats grow *)
(* and runs die in between, and whichever chunks are dropped (runCaching,  *)
(* computeCacheKeys, buildProviderBlocks, DiscoveryCache).                 *)
THEOREM NothingSkippedSilently_always ==
  ASSUME AllSucceed PROVE Spec => []NothingSkippedSilently
<1>1. CacheInv => NothingSkippedSilently
  BY DEF CacheInv, ResultAccounted, NothingSkippedSilently, Done
<1> QED BY <1>1, CacheInvHolds, PTL

(* A Phase 1 kept from a failed run is replayed only for chats it covers   *)
(* as they were hashed, or newer, as far as a run reads them               *)
(* (loadPhase1Cache, phase1CacheKey).                                      *)
THEOREM ReplayIsCurrent_always ==
  ASSUME AllSucceed PROVE Spec => []ReplayIsCurrent
<1>1. CacheInv => ReplayIsCurrent
  <2> SUFFICES ASSUME CacheInv, Replays, NEW k \in Own(run.keys)
               PROVE  \E s \in LoadPhase1.covers : s[1] = k[1] /\ s[2] >= Cut(k[2])
    BY DEF ReplayIsCurrent
  <2>1. /\ run.state.phase1 # Nothing /\ LoadPhase1 = run.state.phase1
        /\ run.state.phase1.key = Phase1Key
    BY DEF Replays, LoadPhase1
  <2>2. run.state.phase1.key.keys = run.keys
    BY <2>1 DEF Phase1Key
  <2>3. InPart(Own(run.keys), run.state.phase1.covers)
    BY <2>1, <2>2 DEF CacheInv, Phase1Kept, Kept
  <2> QED BY <2>1, <2>3 DEF InPart
<1> QED BY <1>1, CacheInvHolds, PTL

-----------------------------------------------------------------------------
(* No result that was served looks like the lack of one.                   *)
LEMMA NothingServed == \A S, h : Nothing # [sources |-> S, head |-> h]
BY DEF Nothing

(* A run that hashes the versions the last result was for, finds the keys  *)
(* that were saved with it.                                                *)
LEMMA HashIsNoOp ==
  ASSUME AllSucceed, Typed, CacheInv, KeysOfServed, HashSources
  PROVE  NoOpRerun'
<1> DEFINE keys == ComputeCacheKeys(run.sources, {}, run.state.keys, run.head)
<1>1. /\ at = "loaded" /\ served' = served
      /\ run' = [run EXCEPT !.keys = keys]
      /\ run.forced \/ ~CacheUnchanged(run.state, keys, run.head) \/ at' = "skipped"
  BY DEF HashSources, Failing, AllSucceed, Hit
<1>2. /\ run'.sources = run.sources /\ run'.head = run.head
      /\ run'.forced = run.forced /\ run'.keys = keys
  BY <1>1 DEF Typed, TypeOK
<1>3. keys = {<<c, content[c], run.head>> : c \in {s[1] : s \in run.sources}}
  BY DEF ComputeCacheKeys, ChatCacheKey
<1> HIDE DEF keys
<1> SUFFICES ASSUME at' # "skipped", ~run.forced,
                    served = [sources |-> run.sources, head |-> run.head],
                    {<<k[1], k[2]>> : k \in keys} = run.sources
             PROVE  FALSE
  BY <1>1, <1>2 DEF NoOpRerun
<1>4. /\ served # Nothing /\ served.sources = run.sources /\ served.head = run.head
  BY NothingServed
<1>5. /\ run.state.ran /\ run.state.head = run.head
      /\ KeysFor(run.state.keys, run.sources, run.head)
  BY <1>1, <1>4 DEF KeysOfServed
<1>6. Within(run.state.keys, content)
  BY DEF CacheInv, StatesAccounted
<1>7. \A k \in run.state.keys : /\ k \in Keys /\ k[1] \in Chats /\ k[2] \in Nat
                                /\ content[k[1]] \in Nat /\ k = <<k[1], k[2], k[3]>>
  BY CacheAssumption DEF Typed, TypeOK, States, Keys
<1>8. ASSUME NEW s \in run.sources PROVE s[2] = content[s[1]]
  <2>1. PICK k \in keys : s = <<k[1], k[2]>>
    OBVIOUS
  <2>2. PICK c \in {t[1] : t \in run.sources} : k = <<c, content[c], run.head>>
    BY <1>3
  <2> QED BY <2>1, <2>2
<1>9. ASSUME NEW k \in run.state.keys PROVE k \in keys
  <2>1. PICK s \in run.sources : s[1] = k[1] /\ k[2] >= s[2] /\ k[3] = run.head
    BY <1>5 DEF KeysFor
  <2>2. s[2] = content[k[1]]
    BY <2>1, <1>8
  <2>3. k[2] <= content[k[1]] /\ k[2] \in Nat /\ content[k[1]] \in Nat
    BY <1>6, <1>7 DEF Within
  <2>4. k = <<k[1], content[k[1]], run.head>>
    BY <2>1, <2>2, <2>3, <1>7
  <2> QED BY <2>1, <2>4, <1>3
<1>10. ASSUME NEW k \in keys PROVE k \in run.state.keys
  <2>1. PICK s \in run.sources : k = <<s[1], content[s[1]], run.head>>
    BY <1>3
  <2>2. PICK t \in run.state.keys : t[1] = s[1] /\ t[2] >= s[2]
    BY <1>5 DEF KeysFor, Reaches
  <2>3. t[3] = run.head
    BY <1>5 DEF KeysFor
  <2>4. t[2] <= content[s[1]] /\ t[2] >= content[s[1]]
        /\ t[2] \in Nat /\ content[s[1]] \in Nat
    BY <2>2, <1>6, <1>7, <1>8 DEF Within
  <2>5. t = <<s[1], content[s[1]], run.head>>
    BY <2>2, <2>3, <2>4, <1>7
  <2> QED BY <2>1, <2>5
<1>11. keys = run.state.keys
  BY <1>9, <1>10
<1> QED BY <1>1, <1>5, <1>11 DEF CacheUnchanged

(* Keys are of the chats found, at the head loaded.                        *)
LEMMA HashedKeys ==
  ASSUME AllSucceed, Typed, HashSources
  PROVE  KeysFor(run.keys, run.sources, run.head)'
<1> DEFINE keys == ComputeCacheKeys(run.sources, {}, run.state.keys, run.head)
<1>1. run' = [run EXCEPT !.keys = keys] /\ content' = content
  BY DEF HashSources, Failing, AllSucceed, worldVars
<1>2. run'.sources = run.sources /\ run'.head = run.head /\ run'.keys = keys
  BY <1>1 DEF Typed, TypeOK
<1>3. keys = {<<c, content[c], run.head>> : c \in {s[1] : s \in run.sources}}
  BY DEF ComputeCacheKeys, ChatCacheKey
<1> HIDE DEF keys
<1>4. \A s \in run.sources : s[2] \in Nat /\ s[2] <= content[s[1]]
                             /\ content[s[1]] \in Nat
  BY CacheAssumption DEF Typed, TypeOK, Sources, Within
<1>5. ASSUME NEW k \in keys
      PROVE  k[3] = run.head /\ \E s \in run.sources : s[1] = k[1] /\ k[2] >= s[2]
  BY <1>3, <1>4
<1>6. ASSUME NEW s \in run.sources
      PROVE  \E t \in keys : t[1] = s[1] /\ t[2] >= s[2]
  <2> DEFINE t == <<s[1], content[s[1]], run.head>>
  <2>1. t \in keys
    BY <1>3
  <2>2. t[1] = s[1] /\ t[2] >= s[2]
    BY <1>4
  <2> QED BY <2>1, <2>2
<1> QED BY <1>2, <1>5, <1>6 DEF KeysFor, Reaches

(* Only saving a result changes the keys, and it changes both.             *)
LEMMA KeysOfServedKept ==
  ASSUME AllSucceed, Typed, Typed', KeysOfServed, [Next]_vars
  PROVE  KeysOfServed'
<1>1. ASSUME SaveEmpty \/ SaveResult PROVE KeysOfServed'
  <2>1. /\ disk'.ran = TRUE /\ disk'.head = run.head /\ disk'.keys = run.keys
        /\ served' = [sources |-> run.sources, head |-> run.head]
        /\ at' \in {"idle", "saved"} /\ at \in {"read", "analyzed"}
    BY <1>1 DEF SaveEmpty, SaveResult, Record, Typed, TypeOK, States
  <2>2. served'.sources = run.sources /\ served'.head = run.head
    BY <2>1
  <2>3. KeysFor(run.keys, run.sources, run.head)
    BY <2>1 DEF KeysOfServed
  <2> QED BY <2>1, <2>2, <2>3 DEF KeysOfServed
<1>2. ASSUME HashSources PROVE KeysOfServed'
  <2>1. /\ UNCHANGED <<disk, served>> /\ at = "loaded" /\ at' \in {"hashed", "skipped"}
        /\ run'.state = run.state
    BY <1>2 DEF HashSources, Hit, Typed, TypeOK
  <2> QED BY <1>2, <2>1, HashedKeys DEF KeysOfServed
<1>3. ASSUME FailAnalysis PROVE KeysOfServed'
  <2>1. /\ UNCHANGED served /\ at = "read" /\ at' = "idle"
        /\ disk'.ran = run.state.ran /\ disk'.head = run.state.head
        /\ disk'.keys = run.state.keys
    BY <1>3 DEF FailAnalysis, Typed, TypeOK, States
  <2> QED BY <2>1 DEF KeysOfServed
<1>4. ASSUME LoadState PROVE KeysOfServed'
  <2>1. /\ UNCHANGED <<disk, served>> /\ at' = "loaded" /\ run'.state = disk
    BY <1>4 DEF LoadState, Typed, TypeOK
  <2> QED BY <2>1 DEF KeysOfServed
<1>5. ASSUME ReadTranscripts \/ Analyze PROVE KeysOfServed'
  <2>1. /\ UNCHANGED <<disk, served>>
        /\ at \in {"hashed", "read"} /\ at' \in {"read", "analyzed"}
        /\ run'.state.ran = run.state.ran /\ run'.state.head = run.state.head
        /\ run'.state.keys = run.state.keys
        /\ run'.keys = run.keys /\ run'.sources = run.sources /\ run'.head = run.head
    <3>1. CASE ReadTranscripts
      BY <3>1 DEF ReadTranscripts, Typed, TypeOK
    <3>2. CASE Analyze
      BY <3>2 DEF Analyze, Typed, TypeOK, States
    <3> QED BY <1>5, <3>1, <3>2
  <2> QED BY <2>1 DEF KeysOfServed
<1>6. ASSUME Discover \/ CheckDiscovery \/ UpdateDiscovery \/ ReportHit \/ Abort \/ Restart
      PROVE  KeysOfServed'
  <2>1. /\ UNCHANGED <<disk, served>> /\ at' \in {"idle", "discovered", "skipped"}
    BY <1>6 DEF Discover, CheckDiscovery, UpdateDiscovery, ReportHit, Abort, Restart, Hit
  <2> QED BY <2>1 DEF KeysOfServed
<1>7. ASSUME World \/ UNCHANGED vars PROVE KeysOfServed'
  <2>1. UNCHANGED <<disk, served, at, run>>
    BY <1>7 DEF World, Append, Checkout, vars
  <2> QED BY <2>1 DEF KeysOfServed
<1> QED BY <1>1, <1>2, <1>3, <1>4, <1>5, <1>6, <1>7 DEF Next, Run

(* Running again with nothing changed makes no provider call: a run past   *)
(* the caches was forced or found something else (cacheUnchanged).         *)
THEOREM NoOpRerun_always ==
  ASSUME AllSucceed PROVE Spec => []NoOpRerun
<1>1. Init => KeysOfServed /\ NoOpRerun
  BY DEF Init, KeysOfServed, NoOpRerun
<1>2. Typed /\ Typed' /\ CacheInv /\ KeysOfServed /\ NoOpRerun /\ [Next]_vars
        => KeysOfServed' /\ NoOpRerun'
  <2> SUFFICES ASSUME Typed, Typed', CacheInv, KeysOfServed, NoOpRerun, [Next]_vars
               PROVE  NoOpRerun'
    BY KeysOfServedKept
  <2>1. CASE HashSources
    BY <2>1, HashIsNoOp
  <2>2. ASSUME ReadTranscripts \/ Analyze PROVE NoOpRerun'
    <3>1. /\ UNCHANGED served /\ at \in {"hashed", "read"}
          /\ run'.keys = run.keys /\ run'.sources = run.sources
          /\ run'.head = run.head /\ run'.forced = run.forced
      BY <2>2 DEF ReadTranscripts, Analyze, Typed, TypeOK
    <3> QED BY <3>1 DEF NoOpRerun
  <2>3. ASSUME World \/ UNCHANGED vars PROVE NoOpRerun'
    <3>1. UNCHANGED <<served, at, run>>
      BY <2>3 DEF World, Append, Checkout, vars
    <3> QED BY <3>1 DEF NoOpRerun
  <2>4. ASSUME ~HashSources, ~ReadTranscripts, ~Analyze, ~World, vars' # vars
        PROVE  NoOpRerun'
    <3>1. at' \notin {"hashed", "read", "analyzed"}
      BY <2>4 DEF Next, Run, Discover, LoadState, CheckDiscovery, SaveEmpty,
         FailAnalysis, SaveResult, UpdateDiscovery, ReportHit, Abort, Restart, Hit
    <3> QED BY <3>1 DEF NoOpRerun
  <2> QED BY <2>1, <2>2, <2>3, <2>4
<1> QED BY <1>1, <1>2, CacheInvHolds, Typing, PTL DEF Spec
=============================================================================
