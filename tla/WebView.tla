------------------------------ MODULE WebView ------------------------------
(***************************************************************************)
(* What the pages of the web server show of one project.  The daemon keeps *)
(* one StateCache over state.json and history.json and one EventBus; the   *)
(* writers of the two files (lifecycle calls of the handlers, runs, chat   *)
(* deletions) save, invalidate the cache and publish an event.  A page     *)
(* begins a load at every event it listens for, whether or not an earlier  *)
(* load is still under way; each load reads the files through the cache,   *)
(* and the answers may arrive in any order, or not at all.  Models         *)
(* internal/state/cache.go, internal/pipeline/events.go, the event stream  *)
(* of internal/web/handlers/events.go, the order in which the writers save,*)
(* invalidate and publish, and the loads of the pages (dashboard.js,       *)
(* findings.html, overview.html).                                          *)
(*                                                                         *)
(* The content of a file is the set of writers whose change it holds.      *)
(* Every save changes the content, so the content also stands for the      *)
(* modification time and size that the cache compares.  What a save keeps  *)
(* of another process's change is the subject of ProjectState; here a save *)
(* adds its own change and loses none.                                     *)
(***************************************************************************)
EXTENDS Naturals, Sequences

CONSTANTS
  Handlers,    \* lifecycle calls: apply, undo, dismiss, resolve and so on
  Runs,        \* runs of the daemon's workers
  Deletions,   \* requests that delete a chat
  Foreign,     \* runs of dreamer analyze, in a process of their own
  Casts,       \* the sets of writers that may take part together
  Pages,       \* pages open in a browser
  Requests,    \* as many loads are under way at a time, of all pages
  Counts,      \* pages show the history as well (only some of them do)
  Reloads,     \* how often a page is opened, reloaded or acted on
  Buffer,      \* capacity of a subscriber's channel (16 in the code)
  CacheHits,   \* a run may find that nothing has changed
  LateReturns, \* a run may succeed after its deadline or a shutdown
  LoadsFail,   \* a load may fail
  NoOne, Nothing

Local   == Handlers \cup Runs \cup Deletions
Writers == Local \cup Foreign
Kinds   == {"state", "history"}

ASSUME WritersAssumption ==
  /\ Handlers \cap Runs = {} /\ (Handlers \cup Runs) \cap Deletions = {}
  /\ Local \cap Foreign = {}
  /\ NoOne \notin Local \cup Requests
ASSUME BoundsAssumption == Buffer \in Nat \ {0} /\ Reloads \in Nat
ASSUME CastsAssumption == Casts \subseteq SUBSET Writers
ASSUME FlagsAssumption ==
  {CacheHits, LateReturns, LoadsFail, Counts} \subseteq BOOLEAN

Content == [Kinds -> SUBSET Writers]
Entry   == [data : SUBSET Writers, stamp : SUBSET Writers]
Event   == [type : {"start", "done", "error", "finding", "unsaved",
                   "deleted"},
            by : Local, about : SUBSET Kinds]

VARIABLES
  file,    \* the two files of the project
  cache,   \* StateCache.items: per file what was read, and the stamp it had
  mu,      \* the request that holds StateCache.mu for writing
  lock,    \* the writer that holds the ProjectLock
  writer,  \* where each writer stands, and what it publishes to whom
  ends,    \* ghost: the outcomes each run has published
  stream,  \* the event stream of each page: its channel, and what has left
           \* the channel and not yet reached the page
  req,     \* the loads under way
  left,    \* how many loads without an event there may still be
  shown,   \* what each page shows
  heard,   \* ghost: the changes each page has heard of
  served   \* ghost: what the cache answered last

webVars == <<stream, req, left, shown, heard, served>>
vars == <<file, cache, mu, lock, writer, ends, webVars>>

NoChange == [k \in Kinds |-> {}]
NoEntry  == [k \in Kinds |-> Nothing]
Closed   == [on |-> FALSE, queue |-> <<>>, wire |-> <<>>]
Free     == [pc |-> "free", page |-> NoOne, kind |-> "state", read |-> {},
             data |-> NoChange, since |-> NoChange]
Fresh    == [pc |-> "idle", event |-> Nothing, todo |-> {}, then |-> "idle",
             how |-> "none"]

Init == /\ file = NoChange /\ cache = NoEntry
        /\ mu = NoOne /\ lock = NoOne
        /\ \E cast \in Casts :
             writer = [w \in Writers |->
                         [Fresh EXCEPT !.pc = IF w \in cast THEN @ ELSE "away"]]
        /\ ends = [r \in Runs |-> {}]
        /\ stream = [p \in Pages |-> Closed]
        /\ req = [q \in Requests |-> Free] /\ left = Reloads
        /\ shown = [p \in Pages |-> NoChange]
        /\ heard = [p \in Pages |-> NoChange] /\ served = NoChange

-----------------------------------------------------------------------------
(* Shared by the writers.                                                  *)

Goto(w, place) == writer' = [writer EXCEPT ![w].pc = place]
At(w, place)   == writer[w].pc = place

Save(k, w) == file' = [file EXCEPT ![k] = @ \cup {w}]

(* Invalidate drops the entry of the project: both files. *)
FaultInvalidate == UNCHANGED cache   \* a save that forgets the cache
Invalidate == mu = NoOne /\ cache' = NoEntry

(* Publishers hold the bus's lock for reading, several at a time, and      *)
(* visit the subscribers of that moment.                                   *)
Publishing == {w \in Local : At(w, "publishing")}

(* The files an event is about; a run without messages changes no finding. *)
About(w, type) == CASE type = "finding" -> {"state"}
                    [] type = "deleted" -> {"state"}
                    [] type = "done" /\ writer[w].how # "empty" -> Kinds
                    [] OTHER -> {}

Announce(w, type, then) ==
  writer' = [writer EXCEPT ![w].pc = "publishing",
                           ![w].event = [type |-> type, by |-> w,
                                         about |-> About(w, type)],
                           ![w].todo = {p \in Pages : stream[p].on},
                           ![w].then = then]

(* A full channel drops the event. *)
Send(w, p) ==
  /\ At(w, "publishing") /\ p \in writer[w].todo
  /\ writer' = [writer EXCEPT ![w].todo = @ \ {p}]
  /\ IF Len(stream[p].queue) < Buffer
     THEN stream' = [stream EXCEPT ![p].queue = Append(@, writer[w].event)]
     ELSE UNCHANGED stream
  /\ UNCHANGED <<file, cache, mu, lock, ends, req, left, shown, heard, served>>

Published(w) ==
  /\ At(w, "publishing") /\ writer[w].todo = {}
  /\ writer' = [writer EXCEPT ![w] = [Fresh EXCEPT !.pc = writer[w].then]]
  /\ UNCHANGED <<file, cache, mu, lock, ends, webVars>>

-----------------------------------------------------------------------------
(* A lifecycle call holds the lock of the project until it returns.        *)

Begin(w) ==
  /\ w \in Handlers /\ At(w, "idle") /\ lock = NoOne
  /\ lock' = w /\ Goto(w, "save")
  /\ UNCHANGED <<file, cache, mu, ends, webVars>>

(* When the save fails, apply says so on the bus; the others do not. *)
SaveFinding(w) ==
  /\ w \in Handlers /\ At(w, "save")
  /\ \/ Save("state", w) /\ Goto(w, "invalidate")
     \/ UNCHANGED file /\ Goto(w, "return")
     \/ UNCHANGED file /\ Announce(w, "unsaved", "return")
  /\ UNCHANGED <<cache, mu, lock, ends, webVars>>

InvalidateFinding(w) ==
  /\ w \in Handlers /\ At(w, "invalidate")
  /\ Invalidate
  /\ \/ Goto(w, "publish")
     \/ Goto(w, "return")   \* undismiss and unresolve publish nothing
  /\ UNCHANGED <<file, mu, lock, ends, webVars>>

PublishFinding(w) ==
  /\ w \in Handlers /\ At(w, "publish")
  /\ Announce(w, "finding", "return")
  /\ UNCHANGED <<file, cache, mu, lock, ends, webVars>>

Return(w) ==
  /\ w \in Handlers \cup Deletions /\ At(w, "return")
  /\ lock' = NoOne /\ Goto(w, "end")
  /\ UNCHANGED <<file, cache, mu, ends, webVars>>

(* The event of a deleted chat leaves before the state is touched. *)
DeleteChat(w) ==
  /\ w \in Deletions /\ At(w, "idle")
  /\ Announce(w, "deleted", "drop")
  /\ UNCHANGED <<file, cache, mu, lock, ends, webVars>>

DropHashes(w) ==
  /\ w \in Deletions /\ At(w, "drop") /\ lock = NoOne
  /\ lock' = w
  /\ \/ Save("state", w) /\ Goto(w, "invalidate")
     \/ UNCHANGED file /\ Goto(w, "return")   \* nothing to drop, or no save
  /\ UNCHANGED <<cache, mu, ends, webVars>>

InvalidateHashes(w) ==
  /\ w \in Deletions /\ At(w, "invalidate")
  /\ Invalidate /\ Goto(w, "return")
  /\ UNCHANGED <<file, mu, lock, ends, webVars>>

-----------------------------------------------------------------------------
(* A run.                                                                  *)

StartRun(r) ==
  /\ r \in Runs /\ At(r, "idle")
  /\ Announce(r, "start", "analyze")
  /\ UNCHANGED <<file, cache, mu, lock, ends, webVars>>

(* Discovery, cache check and analysis: what they come to. *)
Analyze(r) ==
  /\ r \in Runs /\ At(r, "analyze")
  /\ \/ CacheHits /\ Goto(r, "returned")
     \/ Goto(r, "failed")
     \/ \E how \in {"empty", "analyzed", "failed"} :
          writer' = [writer EXCEPT ![r].pc = "merge", ![r].how = how]
  /\ UNCHANGED <<file, cache, mu, lock, ends, webVars>>

(* MergePipelineResult reads, merges and saves under the lock.  A run      *)
(* without messages goes on when the save fails.                           *)
MergeResult(r) ==
  /\ r \in Runs /\ At(r, "merge") /\ lock = NoOne
  /\ \/ Save("state", r) /\ Goto(r, "invalidate")
     \/ /\ UNCHANGED file
        /\ Goto(r, CASE writer[r].how = "empty"    -> "publish"
                     [] writer[r].how = "analyzed" -> "failed"
                     [] writer[r].how = "failed"   -> "invalidate")
  /\ UNCHANGED <<cache, mu, lock, ends, webVars>>

InvalidateResult(r) ==
  /\ r \in Runs /\ At(r, "invalidate")
  /\ Invalidate
  /\ Goto(r, CASE writer[r].how = "empty"    -> "publish"
               [] writer[r].how = "analyzed" -> "history"
               [] writer[r].how = "failed"   -> "failed")
  /\ UNCHANGED <<file, mu, lock, ends, webVars>>

(* UpdateHistoryToday, under the lock; a failed save is only logged, and   *)
(* nothing invalidates the cache.                                          *)
UpdateHistory(r) ==
  /\ r \in Runs /\ At(r, "history") /\ lock = NoOne
  /\ Save("history", r) \/ UNCHANGED file
  /\ Goto(r, "publish")
  /\ UNCHANGED <<cache, mu, lock, ends, webVars>>

PublishDone(r) ==
  /\ r \in Runs /\ At(r, "publish")
  /\ Announce(r, "done", "returned")
  /\ ends' = [ends EXCEPT ![r] = @ \cup {"done"}]
  /\ UNCHANGED <<file, cache, mu, lock, webVars>>

(* The worker asks the job's context first, and the error of Run after it. *)
Conclude(r) ==
  /\ r \in Runs
  /\ \/ At(r, "failed") \/ (At(r, "returned") /\ LateReturns)
  /\ Announce(r, "error", "end")
  /\ ends' = [ends EXCEPT ![r] = @ \cup {"error"}]
  /\ UNCHANGED <<file, cache, mu, lock, webVars>>

Complete(r) ==
  /\ r \in Runs /\ At(r, "returned")
  /\ Goto(r, "end")
  /\ UNCHANGED <<file, cache, mu, lock, ends, webVars>>

(* dreamer analyze has a lock of its own, no cache and no bus.             *)
ForeignRun(f) ==
  /\ f \in Foreign
  /\ \/ At(f, "idle") /\ Save("state", f) /\ Goto(f, "history")
     \/ At(f, "history") /\ Save("history", f) /\ Goto(f, "end")
  /\ UNCHANGED <<cache, mu, lock, ends, webVars>>

-----------------------------------------------------------------------------
(* Pages.                                                                  *)

(* Subscribe and Unsubscribe take the bus's lock for writing. *)
Connect(p) ==
  /\ ~stream[p].on /\ Publishing = {}
  /\ stream' = [stream EXCEPT ![p].on = TRUE]
  /\ UNCHANGED <<file, cache, mu, lock, writer, ends, req, left, shown, heard,
                 served>>

(* What is still in the channel is lost, what has left it is not. *)
Close(p) ==
  /\ stream[p].on
  /\ stream' = [stream EXCEPT ![p].on = FALSE, ![p].queue = <<>>]
  /\ UNCHANGED <<file, cache, mu, lock, writer, ends, req, left, shown, heard,
                 served>>

FaultDisconnect(p) == Close(p)   \* closed under a publisher's hands
Disconnect(p) == Publishing = {} /\ Close(p)

(* The handler of the stream takes an event from the channel and writes it *)
(* to the connection.                                                      *)
Forward(p) ==
  /\ stream[p].queue # <<>>
  /\ stream' = [stream EXCEPT ![p].queue = Tail(@),
                              ![p].wire = Append(@, Head(stream[p].queue))]
  /\ UNCHANGED <<file, cache, mu, lock, writer, ends, req, left, shown, heard,
                 served>>

(* A load begins, beside those under way. *)
Ask(p, known) ==
  \E q \in Requests :
    /\ req[q].pc = "free"
    /\ req' = [req EXCEPT ![q] = [Free EXCEPT !.pc = "look", !.page = p,
                                             !.since = known]]

(* An event the page listens for: it loads, and does not wait for the load *)
(* of an earlier event.  No page loads on run.error or on                  *)
(* apply.state_save_failed.                                                *)
Hear(p) ==
  LET event == Head(stream[p].wire)
      known == [k \in Kinds |-> IF k \in event.about
                                THEN heard[p][k] \cup {event.by}
                                ELSE heard[p][k]] IN
  /\ stream[p].wire # <<>> /\ event.type \notin {"error", "unsaved"}
  /\ stream' = [stream EXCEPT ![p].wire = Tail(@)]
  /\ heard' = [heard EXCEPT ![p] = known]
  /\ Ask(p, known)
  /\ UNCHANGED <<file, cache, mu, lock, writer, ends, left, shown, served>>

(* An event the page does not listen for: each page listens for some types *)
(* only, the dashboard not for finding.undone, the findings not for        *)
(* chat.deleted, and what arrives while the page is away is lost as well.  *)
Ignore(p) ==
  /\ stream[p].wire # <<>>
  /\ stream' = [stream EXCEPT ![p].wire = Tail(@)]
  /\ UNCHANGED <<file, cache, mu, lock, writer, ends, req, left, shown, heard,
                 served>>

(* The page is opened, reloaded by hand, or loads after an action of its   *)
(* own has been answered.                                                  *)
Reload(p) ==
  /\ left > 0 /\ left' = left - 1
  /\ Ask(p, heard[p])
  /\ UNCHANGED <<file, cache, mu, lock, writer, ends, stream, shown, heard,
                 served>>

(* The cache answers with d.  The state is read first, the history after   *)
(* it.                                                                     *)
Answer(q, d) ==
  LET k == req[q].kind
      more == Counts /\ k = "state" IN
  /\ served' = [served EXCEPT ![k] = d]
  /\ req' = [req EXCEPT ![q] =
       [@ EXCEPT !.pc = IF more THEN "look" ELSE "answered",
                 !.kind = IF more THEN "history" ELSE k,
                 !.read = {}, !.data[k] = d]]
  /\ UNCHANGED <<file, lock, writer, ends, stream, left, shown, heard>>

(* The entry is there and the file still has its time and size. *)
Hit(k) == cache[k] # Nothing /\ cache[k].stamp = file[k]

(* GetState, GetHistory: a look under the lock for reading; after a miss   *)
(* the lock for writing and a second look.  The two looks are one step: a  *)
(* hit of the second is a hit of a first look taken then.                  *)
FaultLook(q) ==   \* a miss that goes on without the lock
  LET k == req[q].kind IN
  /\ req[q].pc = "look" /\ mu = NoOne /\ UNCHANGED <<cache, mu>>
  /\ IF Hit(k) THEN Answer(q, cache[k].data)
     ELSE /\ req' = [req EXCEPT ![q].pc = "load"]
          /\ UNCHANGED <<file, lock, writer, ends, stream, left, shown, heard,
                         served>>

Look(q) ==
  LET k == req[q].kind IN
  /\ req[q].pc = "look" /\ mu = NoOne /\ UNCHANGED cache
  /\ IF Hit(k) THEN Answer(q, cache[k].data) /\ UNCHANGED mu
     ELSE /\ mu' = q /\ req' = [req EXCEPT ![q].pc = "load"]
          /\ UNCHANGED <<file, lock, writer, ends, stream, left, shown, heard,
                         served>>

Load(q) ==
  /\ req[q].pc = "load"
  /\ req' = [req EXCEPT ![q].read = file[req[q].kind], ![q].pc = "stat"]
  /\ UNCHANGED <<file, cache, mu, lock, writer, ends, stream, left, shown,
                 heard, served>>

(* The time and size are asked for after the file has been read; a file    *)
(* that is not there is not cached.                                        *)
Stat(q) ==
  LET k == req[q].kind IN
  /\ req[q].pc = "stat"
  /\ \/ cache' = [cache EXCEPT ![k] = [data |-> req[q].read,
                                       stamp |-> file[k]]]
     \/ file[k] = {} /\ UNCHANGED cache
  /\ mu' = NoOne
  /\ Answer(q, req[q].read)

(* The answers reach the pages in any order: what arrives is shown. *)
Arrive(q) ==
  /\ req[q].pc = "answered"
  /\ shown' = [shown EXCEPT ![req[q].page] = req[q].data]
  /\ req' = [req EXCEPT ![q] = Free]
  /\ UNCHANGED <<file, cache, mu, lock, writer, ends, stream, left, heard,
                 served>>

(* The file cannot be read, or the answer is lost or an error.  Nobody     *)
(* loads again: the findings stay as they are, the dashboard shows zeros.  *)
Fail(q) ==
  /\ LoadsFail /\ req[q].pc \in {"load", "answered"}
  /\ mu' = IF req[q].pc = "load" THEN NoOne ELSE mu
  /\ \/ UNCHANGED shown
     \/ shown' = [shown EXCEPT ![req[q].page] = NoChange]
  /\ req' = [req EXCEPT ![q] = Free]
  /\ UNCHANGED <<file, cache, lock, writer, ends, stream, left, heard, served>>

-----------------------------------------------------------------------------
Handler(w) == \/ Begin(w) \/ SaveFinding(w) \/ InvalidateFinding(w)
              \/ PublishFinding(w) \/ Return(w)
Deletion(w) == \/ DeleteChat(w) \/ DropHashes(w) \/ InvalidateHashes(w)
Run(r) == \/ StartRun(r) \/ Analyze(r) \/ MergeResult(r)
          \/ InvalidateResult(r) \/ UpdateHistory(r) \/ PublishDone(r)
          \/ Conclude(r) \/ Complete(r)
Request(q) == Look(q) \/ Load(q) \/ Stat(q) \/ Arrive(q) \/ Fail(q)
Stream(p) == \/ Connect(p) \/ Disconnect(p) \/ Forward(p) \/ Hear(p)
             \/ Ignore(p)

Next == \/ \E w \in Local : \/ Handler(w) \/ Deletion(w) \/ Run(w)
                            \/ Published(w) \/ \E p \in Pages : Send(w, p)
        \/ \E f \in Foreign : ForeignRun(f)
        \/ \E p \in Pages : Reload(p) \/ Stream(p)
        \/ \E q \in Requests : Request(q)

Spec == Init /\ [][Next]_vars

-----------------------------------------------------------------------------
TypeOK ==
  /\ file \in Content
  /\ \A k \in Kinds : cache[k] \in Entry \cup {Nothing}
  /\ mu \in Requests \cup {NoOne} /\ lock \in Local \cup {NoOne}
  /\ \A w \in Local : At(w, "publishing") => writer[w].event \in Event
  /\ \A q \in Requests : /\ req[q].data \in Content /\ req[q].since \in Content
                         /\ req[q].pc # "free" => req[q].page \in Pages
  /\ \A p \in Pages : /\ shown[p] \in Content /\ heard[p] \in Content
                      /\ Len(stream[p].queue) <= Buffer
  /\ served \in Content

Answered(q) == req[q].pc = "answered"

(* A load is answered with every change of state.json that the page had    *)
(* heard of when it began: no answer comes from an entry that is older     *)
(* than the event, although the file is read before its time is asked for  *)
(* (cache.go, GetState; lifecycle.go and pipeline.go save, invalidate and  *)
(* publish in this order).                                                 *)
HeardIsAnswered ==
  \A q \in Requests : Answered(q) =>
    req[q].since["state"] \cap (Handlers \cup Runs) \subseteq
      req[q].data["state"]

(* The same of history.json.  UpdateHistoryToday is not followed by        *)
(* Invalidate, so it does not hold (cache.go asks for it after SaveHistory;*)
(* configuration WebView_unshown).                                         *)
HeardRunIsCounted ==
  \A q \in Requests : Answered(q) /\ Counts =>
    req[q].since["history"] \cap file["history"] \subseteq
      req[q].data["history"]

(* The same of a deleted chat.  The event leaves before the state is saved *)
(* (chats.go, dispatchDelete and dropChatHashEntries), so the page that    *)
(* loads at once is answered without it, and no second event follows       *)
(* (configuration WebView_unshown).                                        *)
HeardDeletionIsAnswered ==
  \A q \in Requests : Answered(q) =>
    req[q].since["state"] \cap Deletions \cap file["state"] \subseteq
      req[q].data["state"]

(* A page with no event and no load under way shows the changes it has     *)
(* heard of.  The pages do not keep this: a load that fails is not         *)
(* repeated, and of two loads the older answer may arrive last             *)
(* (dashboard.js, refresh; findings.html, load and act; configuration      *)
(* WebView_overlap).                                                       *)
HeardIsShown ==
  \A p \in Pages :
    (\A q \in Requests : req[q].page # p) =>
      heard[p]["state"] \cap (Handlers \cup Runs) \subseteq shown[p]["state"]

(* The successive answers of the cache never go back to an older file: an  *)
(* entry read before a save is not put over one read after it, for any     *)
(* number of loads at a time (cache.go holds the lock from Load to the     *)
(* store).                                                                 *)
AnswersNeverGoBack == [][\A k \in Kinds : served[k] \subseteq served'[k]]_vars

(* No event is sent on a closed channel: a page that goes away waits for   *)
(* the publishers that have counted it in (events.go, Publish and          *)
(* Unsubscribe).                                                           *)
NoSendOnClosed ==
  \A w \in Publishing : \A p \in writer[w].todo : stream[p].on

(* A run whose start was published ends in one published outcome.  A run   *)
(* that finds nothing changed publishes none (pipeline.go, Run), a run     *)
(* that succeeds late publishes two (workers.go, runJob; configuration     *)
(* WebView_ends).                                                          *)
StartIsAnswered == \A r \in Runs : At(r, "end") => ends[r] # {}
OneEnd == \A r \in Runs : ~({"done", "error"} \subseteq ends[r])
=============================================================================
