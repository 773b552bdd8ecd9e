--------------------------- MODULE AnalysisCache ---------------------------
(***************************************************************************)
(* What lets a run of the pipeline skip work: the cache keys of the chats  *)
(* in state.json, the daemon's discovery cache of modification times, and  *)
(* the mistakes of a Phase 1 kept for the next run.  One project, one run  *)
(* of it at a time (JobQueue), while coding assistants append to the chats *)
(* and the repository's HEAD moves.  Models internal/pipeline/cache.go,    *)
(* discovery_cache.go and the stages of Run in pipeline.go.                *)
(*                                                                         *)
(* A chat is its version, which every append raises: it stands for the     *)
(* file's content, its length, its hash and its modification time.  The    *)
(* configuration, which the keys do not cover, is fixed.                   *)
(***************************************************************************)
EXTENDS Naturals, FiniteSets

CONSTANTS Chats, Heads,
          MaxVersion,      \* bound on the versions, chat by chat
          Subagents,       \* transcripts of subagents, which runs leave out
          Budget,          \* how much of a chat a run reads (max_chunk_bytes)
          HashesMayFail,   \* a chat's file may fail to be hashed
          ReadsMayFail     \* a chat may fail to be read

ASSUME CacheAssumption ==
  /\ MaxVersion \in [Chats -> Nat] /\ Budget \in Nat \ {0} /\ Subagents \subseteq Chats
  /\ HashesMayFail \in BOOLEAN /\ ReadsMayFail \in BOOLEAN

Nothing == [absent |-> TRUE]

VARIABLES
  content,   \* version of each chat, 0 before it exists
  head,      \* HEAD of the repository
  disk,      \* cache fields of state.json: ran, head, keys, phase1
  disc,      \* the project's entry in the DiscoveryCache, or Nothing
  at,        \* stage of the run in progress
  run,       \* what the run has read and computed so far
  seen,      \* chat versions whose findings a saved state accounts for
  told,      \* chat versions a warning beside a saved result names
  served     \* sources and head of the last run that saved its result

vars == <<content, head, disk, disc, at, run, seen, told, served>>
worldVars == <<content, head>>

EmptyState == [ran |-> FALSE, head |-> Nothing, keys |-> {}, phase1 |-> Nothing]
NoRun == [forced |-> FALSE, daemon |-> FALSE, sources |-> {}, state |-> EmptyState,
          head |-> Nothing, keys |-> {}, read |-> {}, warned |-> {}, clean |-> {}]

Init == /\ content = [c \in Chats |-> 0]
        /\ head \in Heads
        /\ disk = EmptyState
        /\ disc = Nothing
        /\ at = "idle" /\ run = NoRun
        /\ seen = {} /\ told = {} /\ served = Nothing

-----------------------------------------------------------------------------
(* Chats and repository, which the pipeline only reads. *)
Append(c) ==
  /\ content[c] < MaxVersion[c]
  /\ content' = [content EXCEPT ![c] = @ + 1]
  /\ UNCHANGED <<head, disk, disc, at, run, seen, told, served>>

Checkout(h) ==
  /\ h # head /\ head' = h
  /\ UNCHANGED <<content, disk, disc, at, run, seen, told, served>>

-----------------------------------------------------------------------------
(* What a run reads: the rest of the chats are subagents'. *)
Own(S) == {s \in S : s[1] \notin Subagents}
Found == {<<c, content[c]>> : c \in {d \in Chats : content[d] > 0}}
Failing(may, S) == IF may THEN SUBSET S ELSE {{}}

(* The key of a chat is the hash of its path, its content and the HEAD. *)
ChatCacheKey(source, h) == <<source[1], source[2], h>>

(* Keys of the sources as their files are now; a source whose hash fails   *)
(* keeps the key it had, if it had one.                                    *)
ComputeCacheKeys(sources, failed, prior, h) ==
  LET chats == {s[1] : s \in sources}
  IN {ChatCacheKey(<<c, content[c]>>, h) : c \in chats \ failed}
     \cup {k \in prior : k[1] \in chats \cap failed}

CacheUnchanged(state, keys, h) ==
  state.ran /\ state.head = h /\ keys = state.keys

DiscoveryCheck(sources, h) ==
  disc # Nothing /\ disc.sources = sources /\ disc.head = h

Discover ==
  /\ at = "idle"
  /\ \E forced, daemon \in BOOLEAN :
       run' = [NoRun EXCEPT !.forced = forced, !.daemon = daemon, !.sources = Found]
  /\ at' = "discovered"
  /\ UNCHANGED <<worldVars, disk, disc, seen, told, served>>

LoadState ==
  /\ at = "discovered"
  /\ run' = [run EXCEPT !.state = disk, !.head = head]
  /\ at' = "loaded"
  /\ UNCHANGED <<worldVars, disk, disc, seen, told, served>>

Hit == at' = "skipped"

(* runCaching: the discovery cache first, then the hashes of the files. *)
CheckDiscovery ==
  /\ at = "loaded" /\ ~run.forced /\ run.daemon
  /\ DiscoveryCheck(run.sources, run.head)
  /\ Hit
  /\ UNCHANGED <<worldVars, disk, disc, run, seen, told, served>>

HashSources ==
  /\ at = "loaded"
  /\ run.forced \/ ~run.daemon \/ ~DiscoveryCheck(run.sources, run.head)
  /\ \E failed \in Failing(HashesMayFail, {s[1] : s \in run.sources}) :
       LET keys == ComputeCacheKeys(run.sources, failed, run.state.keys, run.head)
       IN /\ run' = [run EXCEPT !.keys = keys]
          /\ IF ~run.forced /\ CacheUnchanged(run.state, keys, run.head)
             THEN Hit
             ELSE at' = "hashed"
  /\ UNCHANGED <<worldVars, disk, disc, seen, told, served>>

(* A read keeps the oldest messages, up to the budget of a source. *)
Cut(v) == IF v > Budget THEN Budget ELSE v
CutOff(S) == {s \in S : s[2] > Budget}

(* runTranscriptPrep: the transcripts of subagents are left out without a  *)
(* word, what cannot be read or is cut off leaves a warning.               *)
ReadTranscripts ==
  /\ at = "hashed"
  /\ LET now == {<<c, content[c]>> : c \in {s[1] : s \in run.sources} \ Subagents}
     IN \E failed \in Failing(ReadsMayFail, now) :
          run' = [run EXCEPT !.read = {<<s[1], Cut(s[2])>> : s \in now \ failed},
                             !.warned = failed \cup CutOff(now)]
  /\ at' = "read"
  /\ UNCHANGED <<worldVars, disk, disc, seen, told, served>>

(* State of a run that succeeded, and the ghosts that follow it. *)
Record(state, done, named) ==
  /\ disk' = state
  /\ seen' = seen \cup done /\ told' = told \cup named
  /\ served' = [sources |-> run.sources, head |-> run.head]

(* No message in any chat, so in none that was cut off: the keys are saved *)
(* and the run is over.  Its warnings are counted, and named nowhere.      *)
SaveEmpty ==
  /\ at = "read"
  /\ \A s \in CutOff(run.warned) : <<s[1], Budget>> \notin run.read
  /\ Record([run.state EXCEPT !.ran = TRUE, !.head = run.head, !.keys = run.keys],
            run.read, {})
  /\ at' = "idle" /\ run' = NoRun
  /\ UNCHANGED <<worldVars, disc>>

FaultPhase1Key == [keys |-> {}, head |-> run.head]   \* without the chats
Phase1Key == [keys |-> run.keys, head |-> run.head]

(* loadPhase1Cache: an entry for other inputs is dropped. *)
LoadPhase1 ==
  IF run.state.phase1 # Nothing /\ run.state.phase1.key = Phase1Key
  THEN run.state.phase1 ELSE Nothing

Replays == LoadPhase1 # Nothing /\ ~run.forced

(* What the answers cover when Phase 1 leaves out the chats in lost. *)
Covered(lost) == IF Replays THEN LoadPhase1.covers ELSE run.read \ lost
Lost == IF Replays THEN {{}} ELSE SUBSET run.read

(* runAnalysis succeeds, possibly without the chunks of some chats, each   *)
(* of which leaves a warning; a replay has no chunks to lose.              *)
Analyze ==
  /\ at = "read" /\ run.read # {}
  /\ \E lost \in Lost :
       run' = [run EXCEPT !.clean = Covered(lost), !.warned = @ \cup lost,
                          !.state.phase1 = Nothing]
  /\ at' = "analyzed"
  /\ UNCHANGED <<worldVars, disk, disc, seen, told, served>>

(* runAnalysis fails, before it looks at the kept Phase 1 or after.  The   *)
(* mistakes of a Phase 1 that covered every chunk are kept; the rest of    *)
(* the state stays as it was loaded.                                       *)
KeptPhase1(phase1Complete) ==
  IF phase1Complete /\ ~Replays
  THEN [key |-> Phase1Key, covers |-> run.read] ELSE LoadPhase1

FailAnalysis ==
  /\ at = "read" /\ run.read # {}
  /\ \E kept \in {run.state.phase1, KeptPhase1(TRUE), KeptPhase1(FALSE)} :
       disk' = [run.state EXCEPT !.phase1 = kept]
  /\ at' = "idle" /\ run' = NoRun
  /\ UNCHANGED <<worldVars, disc, seen, told, served>>

(* runOutputAndPersist: the findings are written and the state is saved,   *)
(* then the discovery cache is told.                                       *)
(* The HEAD of the run is not saved with its keys. *)
FaultSaveResult ==
  /\ at = "analyzed"
  /\ Record([run.state EXCEPT !.ran = TRUE, !.keys = run.keys], run.clean, run.warned)
  /\ at' = "saved"
  /\ UNCHANGED <<worldVars, disc, run>>

SaveResult ==
  /\ at = "analyzed"
  /\ Record([run.state EXCEPT !.ran = TRUE, !.head = run.head, !.keys = run.keys],
            run.clean, run.warned)
  /\ at' = "saved"
  /\ UNCHANGED <<worldVars, disc, run>>

(* The discovery cache is told the files as they are after the run. *)
FaultUpdateDiscovery ==
  /\ at = "saved"
  /\ disc' = IF run.daemon THEN [sources |-> Found, head |-> run.head] ELSE disc
  /\ at' = "idle" /\ run' = NoRun
  /\ UNCHANGED <<worldVars, disk, seen, told, served>>

UpdateDiscovery ==
  /\ at = "saved"
  /\ disc' = IF run.daemon THEN [sources |-> run.sources, head |-> run.head] ELSE disc
  /\ at' = "idle" /\ run' = NoRun
  /\ UNCHANGED <<worldVars, disk, seen, told, served>>

ReportHit ==
  /\ at = "skipped"
  /\ at' = "idle" /\ run' = NoRun
  /\ UNCHANGED <<worldVars, disk, disc, seen, told, served>>

(* An error that is only returned, a failed save, or a dry run. *)
Abort ==
  /\ at \in {"discovered", "loaded", "hashed", "read", "analyzed"}
  /\ at' = "idle" /\ run' = NoRun
  /\ UNCHANGED <<worldVars, disk, disc, seen, told, served>>

(* The daemon dies; its discovery cache was in memory. *)
Restart ==
  /\ disc' = Nothing
  /\ at' = "idle" /\ run' = NoRun
  /\ UNCHANGED <<worldVars, disk, seen, told, served>>

World == (\E c \in Chats : Append(c)) \/ (\E h \in Heads : Checkout(h))

Run == \/ Discover \/ LoadState \/ CheckDiscovery \/ HashSources \/ ReadTranscripts
       \/ SaveEmpty \/ Analyze \/ FailAnalysis \/ SaveResult \/ UpdateDiscovery
       \/ ReportHit \/ Abort

Next == World \/ Run \/ Restart

Spec == Init /\ [][Next]_vars

-----------------------------------------------------------------------------
Versions == Nat \ {0}
Sources == Chats \X Versions
Keys == Chats \X Versions \X Heads
MaybeHead == Heads \cup {Nothing}
Phase1s == [key : [keys : SUBSET Keys, head : Heads], covers : SUBSET Sources]
States == [ran : BOOLEAN, head : MaybeHead, keys : SUBSET Keys,
           phase1 : Phase1s \cup {Nothing}]
Entries == [sources : SUBSET Sources, head : Heads] \cup {Nothing}

(* The cache fields and the run in progress have their types (State,       *)
(* discoveryCacheEntry, cachingResult, transcriptResult).                  *)
TypeOK ==
  /\ content \in [Chats -> Nat] /\ head \in Heads
  /\ disk \in States /\ disc \in Entries /\ served \in Entries
  /\ at \in {"idle", "discovered", "loaded", "hashed", "read", "analyzed",
             "saved", "skipped"}
  /\ run \in [forced : BOOLEAN, daemon : BOOLEAN, sources : SUBSET Sources,
              state : States, head : MaybeHead, keys : SUBSET Keys,
              read : SUBSET Sources, warned : SUBSET Sources,
              clean : SUBSET Sources]
  /\ seen \subseteq Sources /\ told \subseteq Sources

(* A run that is skipped as a cache hit passes over nothing in silence:    *)
(* every chat it discovered was covered, as it stands, by a result that    *)
(* was saved, or a warning beside one says what was left out of it; chats  *)
(* grow between discovery, hashing and reading, chunks are dropped and     *)
(* runs fail or die at any stage.  The transcripts of subagents are left   *)
(* out by configuration (runCaching, buildProviderBlocks).                 *)
NothingSkippedSilently ==
  at = "skipped" => Own(run.sources) \subseteq seen \cup told

(* The stronger reading of "analyzed chat hashes": what is skipped has     *)
(* been analyzed in full (runOutputAndPersist saves the keys of every      *)
(* source it discovered, the ones it cut off or left out among them).      *)
SkipMeansAnalyzed == at = "skipped" => run.sources \subseteq seen

(* Running again with nothing changed makes no provider call: a run that   *)
(* gets past the caches was forced, or found, or hashed, something else    *)
(* than the last run that saved (cacheUnchanged, computeCacheKeys).        *)
NoOpRerun ==
  at \in {"hashed", "read", "analyzed"} /\ ~run.forced =>
    \/ served # [sources |-> run.sources, head |-> run.head]
    \/ {<<k[1], k[2]>> : k \in run.keys} # run.sources

(* A replayed Phase 1 stands for the chats as this run hashed them, or     *)
(* newer, as far as a run reads them (phase1CacheKey, loadPhase1Cache).    *)
ReplayIsCurrent ==
  at = "read" /\ Replays =>
    \A k \in Own(run.keys) : \E s \in LoadPhase1.covers : s[1] = k[1] /\ s[2] >= Cut(k[2])
=============================================================================
