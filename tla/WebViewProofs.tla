--------------------------- MODULE WebViewProofs ----------------------------
(***************************************************************************)
(* Proofs about WebView, for any writers, pages, loads and buffer.         *)
(*                                                                         *)
(* NoSendOnClosed is inductive with the types.  AnswersNeverGoBack needs   *)
(* that whatever the next answer may be taken from is at least what was    *)
(* answered last (NotOlder), for which only one load reads at a time.      *)
(* HeardIsAnswered needs that the change of a writer that has invalidated  *)
(* the cache is in whatever the next answer is taken from (Settled), and   *)
(* that a load has the changes its page had heard of in the answers it     *)
(* already has (Kept).                                                     *)
(***************************************************************************)
EXTENDS WebView, SequenceTheorems, TLAPS

Hows   == {"none", "empty", "analyzed", "failed"}
Places == {"away", "idle", "save", "invalidate", "publish", "publishing",
           "return", "drop", "analyze", "merge", "history", "failed",
           "returned", "end"}
After  == {"idle", "return", "drop", "analyze", "returned", "end"}
Writer == [pc : Places, event : Event \cup {Nothing}, todo : SUBSET Pages,
           then : After, how : Hows]
Req    == [pc : {"free", "look", "load", "stat", "answered"},
           page : Pages \cup {NoOne}, kind : Kinds, read : SUBSET Writers,
           data : Content, since : Content]
Channel == [on : BOOLEAN, queue : Seq(Event), wire : Seq(Event)]

WriterTypes ==
  /\ writer \in [Writers -> Writer]
  /\ \A w \in Local : At(w, "publishing") =>
       writer[w].event \in Event /\ writer[w].event.by = w
  /\ \A r \in Runs : \/ ~At(r, "merge") /\ ~At(r, "invalidate")
                     \/ writer[r].how # "none"
StreamTypes ==
  /\ stream \in [Pages -> Channel]
  /\ \A p \in Pages : Len(stream[p].queue) <= Buffer
LoadTypes ==
  /\ req \in [Requests -> Req] /\ left \in Nat
  /\ \A q \in Requests : req[q].pc # "free" => req[q].page \in Pages
  /\ shown \in [Pages -> Content] /\ heard \in [Pages -> Content]
  /\ served \in Content
FileTypes ==
  /\ file \in Content
  /\ cache \in [Kinds -> Entry \cup {Nothing}]
  /\ mu \in Requests \cup {NoOne} /\ lock \in Local \cup {NoOne}
Types == FileTypes /\ WriterTypes /\ StreamTypes /\ LoadTypes

-----------------------------------------------------------------------------
(* An event is about files of the project.                                 *)
LEMMA AboutKinds == \A w, type : About(w, type) \in SUBSET Kinds
BY DEF About, Kinds

(* The empty values have their types.                                      *)
LEMMA InitTypes == Init => Types
<1> SUFFICES ASSUME Init PROVE Types
    OBVIOUS
<1> USE WritersAssumption, BoundsAssumption DEF Init
<1>1. NoChange \in Content
  BY DEF NoChange, Content
<1>2. cache \in [Kinds -> Entry \cup {Nothing}]
  BY DEF NoEntry
<1>3. ASSUME NEW x \in Places
      PROVE  [Fresh EXCEPT !.pc = x] \in Writer /\ [Fresh EXCEPT !.pc = x].pc = x
  BY DEF Fresh, Writer, Hows, Places, After
<1>4. PICK cast \in Casts :
        writer = [w \in Writers |->
                    [Fresh EXCEPT !.pc = IF w \in cast THEN @ ELSE "away"]]
  OBVIOUS
<1>5. \A w \in Writers : writer[w] \in Writer /\ writer[w].pc \in {"idle", "away"}
  BY <1>3, <1>4 DEF Fresh, Places
<1>6. writer \in [Writers -> Writer]
  BY <1>4, <1>5
<1>7. Closed \in Channel /\ Len(Closed.queue) = 0
  BY DEF Closed, Channel
<1>8. Free \in Req /\ Free.pc = "free"
  BY <1>1 DEF Free, Req, Kinds
<1>9. StreamTypes
  BY <1>7 DEF StreamTypes
<1>10. LoadTypes
  BY <1>1, <1>8 DEF LoadTypes
<1> QED
  BY <1>1, <1>2, <1>5, <1>6, <1>9, <1>10
  DEF Types, FileTypes, WriterTypes, At, Local, Writers

(* A writer that moves on stays a writer.                                  *)
LEMMA GotoTypes ==
  ASSUME WriterTypes, NEW w \in Writers, NEW place \in Places \ {"publishing"},
         Goto(w, place),
         w \in Runs /\ place \in {"merge", "invalidate"} => writer[w].how # "none"
  PROVE  /\ WriterTypes' /\ writer'[w].pc = place
         /\ writer'[w] = [writer[w] EXCEPT !.pc = place]
         /\ \A v \in Writers \ {w} : writer'[v] = writer[v]
<1> USE DEF WriterTypes, Goto, At
<1>1. writer[w] \in Writer
  OBVIOUS
<1>2. [writer[w] EXCEPT !.pc = place] \in Writer
  BY <1>1 DEF Writer
<1>3. /\ writer'[w] = [writer[w] EXCEPT !.pc = place]
      /\ \A v \in Writers \ {w} : writer'[v] = writer[v]
  OBVIOUS
<1>4. writer'[w].pc = place /\ writer'[w].how = writer[w].how
  BY <1>1, <1>3 DEF Writer
<1>5. writer' \in [Writers -> Writer]
  BY <1>2
<1>6. \A v \in Local : At(v, "publishing")' => 
             writer'[v].event \in Event /\ writer'[v].event.by = v
  BY <1>3, <1>4 DEF Writers
<1>7. \A r \in Runs : \/ ~At(r, "merge")' /\ ~At(r, "invalidate")'
                      \/ writer'[r].how # "none"
  BY <1>3, <1>4 DEF Writers, Local
<1> QED
  BY <1>3, <1>4, <1>5, <1>6, <1>7

(* So does one that publishes.                                             *)
LEMMA AnnounceTypes ==
  ASSUME WriterTypes, NEW w \in Local,
         NEW type \in {"start", "done", "error", "finding", "unsaved", "deleted"},
         NEW then \in After, Announce(w, type, then)
  PROVE  /\ WriterTypes' /\ writer'[w].pc = "publishing"
         /\ writer'[w].event = [type |-> type, by |-> w, about |-> About(w, type)]
         /\ writer'[w].todo = {p \in Pages : stream[p].on}
         /\ writer'[w].how = writer[w].how
         /\ \A v \in Writers \ {w} : writer'[v] = writer[v]
<1> USE DEF WriterTypes, Announce, At
<1> DEFINE e == [type |-> type, by |-> w, about |-> About(w, type)]
           ps == {p \in Pages : stream[p].on}
           x == [writer[w] EXCEPT !.pc = "publishing", !.event = e, !.todo = ps,
                                  !.then = then]
<1>1. writer[w] \in Writer
  BY DEF Writers
<1>2. e \in Event /\ e.by = w /\ ps \in SUBSET Pages
  BY AboutKinds DEF Event
<1>3. x = [pc |-> "publishing", event |-> e, todo |-> ps, then |-> then,
           how |-> writer[w].how]
  <2> DEFINE o == writer[w]
             a == [o EXCEPT !.pc = "publishing"]
             b == [a EXCEPT !.event = e]
             c == [b EXCEPT !.todo = ps]
             d == [c EXCEPT !.then = then]
  <2>1. o = [pc |-> o.pc, event |-> o.event, todo |-> o.todo, then |-> o.then,
             how |-> o.how]
    BY <1>1 DEF Writer
  <2> HIDE DEF o, e, ps
  <2>2. a = [pc |-> "publishing", event |-> o.event, todo |-> o.todo,
             then |-> o.then, how |-> o.how]
    BY ONLY <2>1
  <2> HIDE DEF a
  <2>3. b = [pc |-> "publishing", event |-> e, todo |-> o.todo,
             then |-> o.then, how |-> o.how]
    BY ONLY <2>2
  <2> HIDE DEF b
  <2>4. c = [pc |-> "publishing", event |-> e, todo |-> ps,
             then |-> o.then, how |-> o.how]
    BY ONLY <2>3
  <2> HIDE DEF c
  <2>5. d = [pc |-> "publishing", event |-> e, todo |-> ps,
             then |-> then, how |-> o.how]
    BY ONLY <2>4
  <2>6. x = d
    BY DEF o, a, b, c
  <2> QED
    BY <2>5, <2>6 DEF o
<1>4. x \in Writer
  BY <1>1, <1>2, <1>3 DEF Writer, Places
<1>5. /\ writer' = [writer EXCEPT ![w] = x]
      /\ writer'[w] = x /\ \A v \in Writers \ {w} : writer'[v] = writer[v]
  BY DEF Writers
<1>6. writer' \in [Writers -> Writer]
  BY <1>4, <1>5
<1>7. /\ writer'[w].pc = "publishing" /\ writer'[w].event = e
      /\ writer'[w].todo = ps /\ writer'[w].how = writer[w].how
  BY <1>3, <1>5
<1>8. \A v \in Local : At(v, "publishing")' =>
             writer'[v].event \in Event /\ writer'[v].event.by = v
  <2>1. \A v \in Local \ {w} : writer'[v] = writer[v]
    BY <1>5 DEF Writers
  <2> HIDE DEF x, e, ps, Announce
  <2> QED
    BY <1>2, <1>7, <2>1
<1>9. \A r \in Runs : \/ ~At(r, "merge")' /\ ~At(r, "invalidate")'
                      \/ writer'[r].how # "none"
  <2>1. \A r \in Runs \ {w} : writer'[r] = writer[r]
    BY <1>5 DEF Writers, Local
  <2> HIDE DEF x, ps, Announce
  <2> QED
    BY <1>7, <2>1
<1> QED
  BY <1>5, <1>6, <1>7, <1>8, <1>9

(* A channel is replaced by another one.                                   *)
LEMMA ChannelSet ==
  ASSUME StreamTypes, NEW p \in Pages, NEW y \in Channel, Len(y.queue) <= Buffer,
         stream' = [stream EXCEPT ![p] = y]
  PROVE  /\ StreamTypes' /\ stream'[p] = y
         /\ \A o \in Pages \ {p} : stream'[o] = stream[o]
BY DEF StreamTypes

(* What is sent is appended to the channel, or dropped.                    *)
LEMMA SendChannel ==
  ASSUME WriterTypes, StreamTypes, NEW w \in Local, NEW p \in Pages, Send(w, p)
  PROVE  /\ StreamTypes' /\ stream'[p].on = stream[p].on
         /\ stream'[p].wire = stream[p].wire
         /\ \/ stream'[p].queue = stream[p].queue
            \/ stream'[p].queue = Append(stream[p].queue, writer[w].event)
         /\ \A o \in Pages \ {p} : stream'[o] = stream[o]
<1> DEFINE e == writer[w].event
           c == stream[p]
           s == Append(c.queue, e)
           y == [c EXCEPT !.queue = s]
<1>1. e \in Event /\ c \in Channel /\ Len(c.queue) <= Buffer /\ Buffer \in Nat
  BY BoundsAssumption DEF Send, WriterTypes, StreamTypes
<1>2. CASE UNCHANGED stream
  BY <1>2 DEF StreamTypes
<1>3. CASE Len(c.queue) < Buffer /\ stream' = [stream EXCEPT ![p].queue = Append(@, e)]
  <2>1. c.queue \in Seq(Event)
    BY <1>1 DEF Channel
  <2>2. s \in Seq(Event) /\ Len(s) <= Buffer
    BY <1>1, <1>3, <2>1
  <2>3. stream' = [stream EXCEPT ![p] = y]
    BY <1>3
  <2> HIDE DEF e, c, s
  <2>4. y \in Channel /\ y.queue = s /\ y.on = c.on /\ y.wire = c.wire
    BY <1>1, <2>2 DEF Channel
  <2> HIDE DEF y
  <2>5. StreamTypes' /\ stream'[p] = y /\ \A o \in Pages \ {p} : stream'[o] = stream[o]
    BY <2>2, <2>3, <2>4, ChannelSet
  <2> QED
    BY <2>4, <2>5 DEF s, c, e
<1> QED
  BY <1>2, <1>3 DEF Send

(* The effect of each group of steps on the writers: none, one that moves  *)
(* or announces, or one that has sent or published.                        *)
LEMMA SendTypes ==
  ASSUME WriterTypes, NEW w \in Local, NEW p \in Pages, Send(w, p)
  PROVE  /\ WriterTypes'
         /\ \A v \in Writers : /\ writer'[v].pc = writer[v].pc
                               /\ writer'[v].event = writer[v].event
                               /\ writer'[v].how = writer[v].how
                               /\ writer'[v].todo \subseteq writer[v].todo
<1> DEFINE o == writer[w]
           ps == o.todo \ {p}
           d == [o EXCEPT !.todo = ps]
<1>1. w \in Writers /\ o \in Writer
  BY DEF WriterTypes, Writers
<1>2. o = [pc |-> o.pc, event |-> o.event, todo |-> o.todo, then |-> o.then,
           how |-> o.how]
  BY <1>1 DEF Writer
<1>3. writer' = [writer EXCEPT ![w] = d]
  BY DEF Send
<1>4. writer'[w] = d /\ \A v \in Writers \ {w} : writer'[v] = writer[v]
  BY <1>1, <1>3 DEF WriterTypes
<1> HIDE DEF o, ps
<1>5. d = [pc |-> o.pc, event |-> o.event, todo |-> ps, then |-> o.then,
           how |-> o.how]
  BY ONLY <1>2
<1>6. d \in Writer /\ ps \subseteq o.todo
  BY <1>1, <1>5 DEF Writer, ps
<1>7. WriterTypes'
  BY <1>1, <1>3, <1>4, <1>5, <1>6 DEF WriterTypes, At, Writers, Local, o
<1>8. \A v \in Writers : /\ writer'[v].pc = writer[v].pc
                         /\ writer'[v].event = writer[v].event
                         /\ writer'[v].how = writer[v].how
                         /\ writer'[v].todo \subseteq writer[v].todo
  BY <1>4, <1>5, <1>6 DEF o
<1> QED
  BY <1>7, <1>8

(* What has been published leaves the writer where it goes on.            *)
LEMMA PublishedTypes ==
  ASSUME WriterTypes, NEW w \in Local, Published(w)
  PROVE  /\ WriterTypes' /\ writer'[w].pc # "publishing"
         /\ writer'[w].pc = writer[w].then /\ writer'[w].how = "none"
         /\ \A v \in Writers \ {w} : writer'[v] = writer[v]
<1> DEFINE o == writer[w]
           d == [Fresh EXCEPT !.pc = o.then]
<1>1. w \in Writers /\ o \in Writer
  BY DEF WriterTypes, Writers
<1>2. d = [pc |-> o.then, event |-> Nothing, todo |-> {}, then |-> "idle",
           how |-> "none"]
  BY DEF Fresh
<1>3. writer' = [writer EXCEPT ![w] = d]
  BY DEF Published
<1>4. writer'[w] = d /\ \A v \in Writers \ {w} : writer'[v] = writer[v]
  BY <1>1, <1>3 DEF WriterTypes
<1>5. d \in Writer /\ d.pc \in After
  BY <1>1, <1>2 DEF Writer, Places, After, Hows
<1> HIDE DEF o, d
<1>6. WriterTypes'
  BY <1>1, <1>3, <1>4, <1>5 DEF WriterTypes, At, Writers, Local, After
<1> QED
  BY <1>1, <1>2, <1>4, <1>5, <1>6 DEF o, After

(* Every step of a writer keeps the types.                                 *)
LEMMA WriterStepTypes ==
  ASSUME Types, NEW w \in Local,
         Handler(w) \/ Deletion(w) \/ Run(w)
  PROVE  Types'
<1> USE DEF Types
<1>a. w \in Writers /\ w \in Local /\ (w \in Handlers \cup Deletions => w \notin Runs)
  BY WritersAssumption DEF Writers, Local
<1>b. ASSUME NEW k \in Kinds, Save(k, w) PROVE file' \in Content
  BY <1>a, <1>b DEF Save, FileTypes, Content
<1>c. ASSUME Invalidate PROVE cache' \in [Kinds -> Entry \cup {Nothing}]
  BY <1>c DEF Invalidate, NoEntry
<1>d. ASSUME UNCHANGED webVars PROVE StreamTypes' /\ LoadTypes'
  BY <1>d DEF StreamTypes, LoadTypes, webVars
<1>e. "state" \in Kinds /\ "history" \in Kinds
  BY DEF Kinds
<1>1. StreamTypes' /\ LoadTypes'
  BY <1>d DEF Handler, Begin, SaveFinding, InvalidateFinding, PublishFinding, Return,
      Deletion, DeleteChat, DropHashes, InvalidateHashes, Run, StartRun, Analyze,
      MergeResult, InvalidateResult, UpdateHistory, PublishDone, Conclude, Complete
<1>2. FileTypes'
  <2>1. CASE Handler(w)
    BY <1>a, <1>b, <1>c, <1>e, <2>1 DEF FileTypes, Handler, Begin, SaveFinding,
       InvalidateFinding, PublishFinding, Return
  <2>2. CASE Deletion(w)
    BY <1>a, <1>b, <1>c, <1>e, <2>2 DEF FileTypes, Deletion, DeleteChat, DropHashes,
       InvalidateHashes
  <2>3. CASE Run(w)
    BY <1>a, <1>b, <1>c, <1>e, <2>3 DEF FileTypes, Run, StartRun, Analyze, MergeResult,
       InvalidateResult, UpdateHistory, PublishDone, Conclude, Complete
  <2> QED
    BY <2>1, <2>2, <2>3
<1>3. WriterTypes'
  <2>g. ASSUME NEW place \in Places \ {"publishing"}, Goto(w, place),
               w \notin Runs \/ place \notin {"merge", "invalidate"}
                             \/ writer[w].how # "none"
        PROVE  WriterTypes'
    BY <1>a, <2>g, GotoTypes
  <2>h. ASSUME NEW type \in {"start", "done", "error", "finding", "unsaved", "deleted"},
               NEW then \in After, Announce(w, type, then)
        PROVE  WriterTypes'
    BY <2>h, AnnounceTypes
  <2>1. CASE Handler(w)
    BY <1>a, <2>g, <2>h, <2>1 DEF Handler, Begin, SaveFinding, InvalidateFinding,
       PublishFinding, Return, Places, After
  <2>2. CASE Deletion(w)
    BY <1>a, <2>g, <2>h, <2>2 DEF Deletion, DeleteChat, DropHashes, InvalidateHashes,
       Places, After
  <2>3. CASE Run(w)
    <3>1. CASE StartRun(w) \/ PublishDone(w) \/ Conclude(w)
      BY <2>h, <3>1 DEF StartRun, PublishDone, Conclude, After
    <3>2. CASE Complete(w) \/ UpdateHistory(w)
      BY <2>g, <3>2 DEF Complete, UpdateHistory, Places
    <3>3. CASE MergeResult(w)
      <4>1. w \in Runs /\ writer[w].how \in {"empty", "analyzed", "failed"}
        BY <1>a, <3>3 DEF MergeResult, WriterTypes, Writer, Hows
      <4> QED
        BY <2>g, <3>3, <4>1 DEF MergeResult, Places
    <3>4. CASE InvalidateResult(w)
      <4>1. w \in Runs /\ writer[w].how \in {"empty", "analyzed", "failed"}
        BY <1>a, <3>4 DEF InvalidateResult, WriterTypes, Writer, Hows
      <4> QED
        BY <2>g, <3>4, <4>1 DEF InvalidateResult, Places
    <3>5. CASE Analyze(w)
      <4>1. ASSUME NEW how \in {"empty", "analyzed", "failed"},
                   writer' = [writer EXCEPT ![w].pc = "merge", ![w].how = how]
            PROVE  WriterTypes'
        <5>1. [writer[w] EXCEPT !.pc = "merge", !.how = how] \in Writer
          <6>1. writer[w] \in Writer /\ "merge" \in Places /\ how \in Hows
            BY <1>a DEF WriterTypes, Places, Hows
          <6> QED
            BY <6>1 DEF Writer
        <5>2. /\ writer'[w] = [writer[w] EXCEPT !.pc = "merge", !.how = how]
              /\ \A v \in Writers \ {w} : writer'[v] = writer[v]
              /\ writer' \in [Writers -> Writer]
          BY <1>a, <4>1, <5>1 DEF WriterTypes
        <5>3. writer[w] \in Writer
          BY <1>a DEF WriterTypes
        <5>4. writer'[w].pc = "merge" /\ writer'[w].how = how
          BY <5>2, <5>3 DEF Writer
        <5> QED
          BY <5>2, <5>4 DEF WriterTypes, At, Writers, Local
      <4> QED
        BY <2>g, <3>5, <4>1 DEF Analyze, Places
    <3> QED
      BY <2>3, <3>1, <3>2, <3>3, <3>4, <3>5 DEF Run
  <2> QED
    BY <2>1, <2>2, <2>3
<1> QED
  BY <1>1, <1>2, <1>3

(* A load is replaced by another one.                                      *)
LEMMA ReqSet ==
  ASSUME LoadTypes, NEW q \in Requests, NEW y \in Req, y.pc # "free" => y.page \in Pages,
         req' = [req EXCEPT ![q] = y]
  PROVE  /\ req' \in [Requests -> Req] /\ req'[q] = y
         /\ \A r \in Requests : req'[r].pc # "free" => req'[r].page \in Pages
         /\ \A r \in Requests \ {q} : req'[r] = req[r]
BY DEF LoadTypes

(* A load ends.                                                            *)
LEMMA FreeSet ==
  ASSUME LoadTypes, NEW q \in Requests, req' = [req EXCEPT ![q] = Free]
  PROVE  /\ req' \in [Requests -> Req] /\ req'[q] = Free
         /\ \A r \in Requests : req'[r].pc # "free" => req'[r].page \in Pages
         /\ \A r \in Requests \ {q} : req'[r] = req[r]
<1>1. Free \in Req /\ Free.pc = "free"
  BY DEF Free, Req, NoChange, Content, Kinds
<1> QED
  BY <1>1, ReqSet

(* A load begins, and knows what it was given.                             *)
LEMMA AskTypes ==
  ASSUME LoadTypes, NEW p \in Pages, NEW known \in Content, Ask(p, known)
  PROVE  /\ req' \in [Requests -> Req]
         /\ \A r \in Requests : req'[r].pc # "free" => req'[r].page \in Pages
         /\ \E q \in Requests :
              /\ req[q].pc = "free"
              /\ req'[q].pc = "look" /\ req'[q].kind = "state"
              /\ req'[q].since = known
              /\ \A r \in Requests \ {q} : req'[r] = req[r]
<1> DEFINE x == [Free EXCEPT !.pc = "look", !.page = p, !.since = known]
<1>1. PICK q \in Requests : req[q].pc = "free" /\ req' = [req EXCEPT ![q] = x]
  BY DEF Ask
<1>2. x = [pc |-> "look", page |-> p, kind |-> "state", read |-> {},
           data |-> NoChange, since |-> known]
  <2> DEFINE a == [Free EXCEPT !.pc = "look"]
             b == [a EXCEPT !.page = p]
             c == [b EXCEPT !.since = known]
  <2>1. Free = [pc |-> "free", page |-> NoOne, kind |-> "state", read |-> {},
                data |-> NoChange, since |-> NoChange]
    BY DEF Free
  <2>2. a = [pc |-> "look", page |-> NoOne, kind |-> "state", read |-> {},
             data |-> NoChange, since |-> NoChange]
    BY ONLY <2>1
  <2> HIDE DEF a
  <2>3. b = [pc |-> "look", page |-> p, kind |-> "state", read |-> {},
             data |-> NoChange, since |-> NoChange]
    BY ONLY <2>2
  <2> HIDE DEF b
  <2>4. c = [pc |-> "look", page |-> p, kind |-> "state", read |-> {},
             data |-> NoChange, since |-> known]
    BY ONLY <2>3
  <2>5. x = c
    BY DEF a, b
  <2> QED
    BY <2>4, <2>5
<1> HIDE DEF x
<1>3. NoChange \in Content
  BY DEF NoChange, Content
<1>4. x \in Req /\ x.pc = "look" /\ x.page \in Pages /\ x.kind = "state"
      /\ x.since = known
  BY <1>2, <1>3 DEF Req, Kinds
<1> QED
  BY <1>1, <1>4, ReqSet

(* A load that goes on to another place stays a load.                      *)
LEMMA PlaceSet ==
  ASSUME LoadTypes, NEW q \in Requests, NEW place \in {"look", "load", "stat"},
         req[q].pc # "free", req' = [req EXCEPT ![q].pc = place]
  PROVE  /\ req' \in [Requests -> Req]
         /\ \A r \in Requests : req'[r].pc # "free" => req'[r].page \in Pages
         /\ req'[q].pc = place /\ req'[q].kind = req[q].kind
         /\ req'[q].data = req[q].data /\ req'[q].since = req[q].since
         /\ \A r \in Requests \ {q} : req'[r] = req[r]
<1> DEFINE x == [req[q] EXCEPT !.pc = place]
<1>1. req[q] \in Req /\ req[q].page \in Pages
  BY DEF LoadTypes
<1>2. x \in Req /\ x.pc = place /\ x.kind = req[q].kind /\ x.page = req[q].page
      /\ x.data = req[q].data /\ x.since = req[q].since
  BY <1>1 DEF Req
<1>3. req' = [req EXCEPT ![q] = x]
  OBVIOUS
<1> HIDE DEF x
<1> QED
  BY <1>1, <1>2, <1>3, ReqSet

(* The read of a load through the cache.                                   *)
LEMMA LoadStep ==
  ASSUME Types, NEW q \in Requests, Load(q)
  PROVE  /\ req' \in [Requests -> Req]
         /\ \A r \in Requests : req'[r].pc # "free" => req'[r].page \in Pages
         /\ req'[q].pc = "stat" /\ req'[q].kind = req[q].kind /\ req[q].kind \in Kinds
         /\ req'[q].read = file[req[q].kind]
         /\ req'[q].data = req[q].data /\ req'[q].since = req[q].since
         /\ \A r \in Requests \ {q} : req'[r] = req[r]
<1> DEFINE o == req[q]
           d == file[o.kind]
           x == [o EXCEPT !.read = d, !.pc = "stat"]
<1>1. o \in Req /\ o.pc = "load" /\ o.page \in Pages /\ o.kind \in Kinds
  BY DEF Types, LoadTypes, Load, Req
<1>2. d \in SUBSET Writers
  BY <1>1 DEF Types, FileTypes, Content
<1>3. req' = [req EXCEPT ![q] = x]
  BY DEF Load
<1> HIDE DEF d
<1>4. x \in Req /\ x.pc = "stat" /\ x.kind = o.kind /\ x.read = d /\ x.page = o.page
      /\ x.data = o.data /\ x.since = o.since
  BY <1>1, <1>2 DEF Req
<1> HIDE DEF x
<1>5. LoadTypes
  BY DEF Types
<1>6. /\ req' \in [Requests -> Req] /\ req'[q] = x
      /\ \A r \in Requests : req'[r].pc # "free" => req'[r].page \in Pages
      /\ \A r \in Requests \ {q} : req'[r] = req[r]
  BY <1>1, <1>3, <1>4, <1>5, ReqSet
<1> QED
  BY <1>1, <1>4, <1>6 DEF d

(* An answer is of the file the load asked for, and ends the load or goes  *)
(* on to the history.                                                      *)
LEMMA AnswerTypes ==
  ASSUME Types, NEW q \in Requests, NEW d \in SUBSET Writers,
         req[q].pc # "free", Answer(q, d)
  PROVE  /\ LoadTypes' /\ req[q].kind \in Kinds
         /\ served' = [served EXCEPT ![req[q].kind] = d]
         /\ req'[q].pc \in {"look", "answered"}
         /\ req'[q].since = req[q].since
         /\ req'[q].data = [req[q].data EXCEPT ![req[q].kind] = d]
         /\ \A r \in Requests \ {q} : req'[r] = req[r]
         /\ UNCHANGED <<file, lock, writer, ends, stream, left, shown, heard>>
<1> DEFINE o == req[q]
           more == Counts /\ o.kind = "state"
           place == IF more THEN "look" ELSE "answered"
           k == IF more THEN "history" ELSE o.kind
           n == [o.data EXCEPT ![o.kind] = d]
           x == [pc |-> place, page |-> o.page, kind |-> k, read |-> {},
                 data |-> n, since |-> o.since]
<1>1. o \in Req /\ o.kind \in Kinds /\ o.page \in Pages /\ o.data \in Content
      /\ o.since \in Content
  BY DEF Types, LoadTypes, Req
<1>2. place \in {"look", "answered"} /\ k \in Kinds
  BY <1>1 DEF Kinds
<1>3. n \in Content
  BY <1>1 DEF Content
<1>4. req' = [req EXCEPT ![q] = x]
  <2> DEFINE a == [o EXCEPT !.pc = place]
             b == [a EXCEPT !.kind = k]
             c == [b EXCEPT !.read = {}]
             e == [c EXCEPT !.data[o.kind] = d]
  <2> DEFINE z == [o EXCEPT !.pc = place, !.kind = k, !.read = {}, !.data[o.kind] = d]
  <2>0. req' = [req EXCEPT ![q] = z]
    BY DEF Answer
  <2>1. z = e
    OBVIOUS
  <2>2. o = [pc |-> o.pc, page |-> o.page, kind |-> o.kind, read |-> o.read,
             data |-> o.data, since |-> o.since]
    BY <1>1 DEF Req
  <2> HIDE DEF o, place, k
  <2>3. a = [pc |-> place, page |-> o.page, kind |-> o.kind, read |-> o.read,
             data |-> o.data, since |-> o.since]
    BY ONLY <2>2
  <2> HIDE DEF a
  <2>4. b = [pc |-> place, page |-> o.page, kind |-> k, read |-> o.read,
             data |-> o.data, since |-> o.since]
    BY ONLY <2>3
  <2> HIDE DEF b
  <2>5. c = [pc |-> place, page |-> o.page, kind |-> k, read |-> {},
             data |-> o.data, since |-> o.since]
    BY ONLY <2>4
  <2> HIDE DEF c
  <2>6. e = x
    BY ONLY <2>5
  <2> QED
    BY <2>0, <2>1, <2>6
<1> HIDE DEF place, k, n
<1>5. x \in Req /\ x.pc = place /\ x.page = o.page /\ x.data = n /\ x.since = o.since
  BY <1>1, <1>2, <1>3 DEF Req
<1> HIDE DEF x
<1>6. LoadTypes
  BY DEF Types
<1>7. /\ req' \in [Requests -> Req] /\ req'[q] = x
      /\ \A r \in Requests : req'[r].pc # "free" => req'[r].page \in Pages
      /\ \A r \in Requests \ {q} : req'[r] = req[r]
  BY <1>1, <1>4, <1>5, <1>6, ReqSet
<1>8. /\ served' = [served EXCEPT ![o.kind] = d]
      /\ UNCHANGED <<file, lock, writer, ends, stream, left, shown, heard>>
  BY DEF Answer
<1>9. served' \in Content
  BY <1>1, <1>8 DEF Types, LoadTypes, Content
<1>10. LoadTypes'
  BY <1>6, <1>7, <1>8, <1>9 DEF LoadTypes
<1> QED
  BY <1>1, <1>2, <1>5, <1>7, <1>8, <1>10 DEF n

(* What a step of a page does to its channel: it only takes events out of  *)
(* it, and closes it only while nobody publishes.                          *)
LEMMA StreamStep ==
  ASSUME Types, NEW p \in Pages, Stream(p)
  PROVE  /\ StreamTypes'
         /\ stream'[p].on \/ ~stream[p].on \/ Publishing = {}
         /\ \A o \in Pages \ {p} : stream'[o] = stream[o]
<1> DEFINE c == stream[p]
<1>0. StreamTypes /\ Buffer \in Nat /\ Len(c.queue) <= Buffer
  BY BoundsAssumption DEF Types, StreamTypes
<1>1. /\ c \in Channel /\ c.queue \in Seq(Event) /\ c.wire \in Seq(Event)
      /\ c = [on |-> c.on, queue |-> c.queue, wire |-> c.wire]
  BY DEF Types, StreamTypes, Channel
<1>a. ASSUME NEW y \in Channel, Len(y.queue) <= Buffer,
             stream' = [stream EXCEPT ![p] = y],
             y.on \/ ~c.on \/ Publishing = {}
      PROVE  /\ StreamTypes'
             /\ stream'[p].on \/ ~stream[p].on \/ Publishing = {}
             /\ \A o \in Pages \ {p} : stream'[o] = stream[o]
  BY <1>0, <1>a, ChannelSet
<1>2. CASE Connect(p)
  <2> DEFINE y == [c EXCEPT !.on = TRUE]
  <2>1. stream' = [stream EXCEPT ![p] = y]
    BY <1>2 DEF Connect
  <2> HIDE DEF c
  <2>2. y \in Channel /\ y.queue = c.queue /\ y.on
    BY <1>1 DEF Channel
  <2> QED
    BY <1>0, <1>a, <2>1, <2>2
<1>3. CASE Disconnect(p)
  <2> DEFINE y == [c EXCEPT !.on = FALSE, !.queue = <<>>]
  <2>1. stream' = [stream EXCEPT ![p] = y] /\ Publishing = {}
    BY <1>3 DEF Disconnect, Close
  <2> HIDE DEF c
  <2> DEFINE a == [c EXCEPT !.on = FALSE]
             t == <<>>
             b == [a EXCEPT !.queue = t]
  <2>2. a \in Channel
    BY <1>1 DEF Channel
  <2>3. t \in Seq(Event) /\ Len(t) = 0
    OBVIOUS
  <2> HIDE DEF a, t
  <2>4. b \in Channel /\ b.queue = t
    BY <2>2, <2>3 DEF Channel
  <2>5. y = b
    BY DEF a, t
  <2> HIDE DEF b, y
  <2>6. y \in Channel /\ Len(y.queue) <= Buffer
    BY <1>0, <2>3, <2>4, <2>5
  <2> QED
    BY <1>a, <2>1, <2>6
<1>4. CASE Forward(p)
  <2> DEFINE t == Tail(c.queue)
             s == Append(c.wire, Head(c.queue))
             y == [c EXCEPT !.queue = t, !.wire = s]
  <2>1. stream' = [stream EXCEPT ![p] = y] /\ c.queue # <<>>
    BY <1>4 DEF Forward
  <2>2. t \in Seq(Event) /\ Len(t) <= Buffer /\ s \in Seq(Event)
    BY <1>0, <1>1, <2>1
  <2> HIDE DEF t, s, c
  <2> DEFINE a == [c EXCEPT !.queue = t]
             b == [a EXCEPT !.wire = s]
  <2>3. a = [on |-> c.on, queue |-> t, wire |-> c.wire]
    BY <1>1
  <2> HIDE DEF a
  <2>4. b = [on |-> c.on, queue |-> t, wire |-> s]
    BY ONLY <2>3
  <2>5. y = b
    BY DEF a
  <2> HIDE DEF b, y
  <2>6. y \in Channel /\ y.queue = t /\ y.on = c.on
    BY <1>1, <2>2, <2>4, <2>5 DEF Channel
  <2> QED
    BY <1>a, <2>1, <2>2, <2>6
<1>5. CASE Hear(p) \/ Ignore(p)
  <2> DEFINE t == Tail(c.wire)
             y == [c EXCEPT !.wire = t]
  <2>1. stream' = [stream EXCEPT ![p] = y] /\ c.wire # <<>>
    BY <1>5 DEF Hear, Ignore
  <2>2. t \in Seq(Event)
    BY <1>1, <2>1
  <2> HIDE DEF t, c
  <2>3. y \in Channel /\ y.queue = c.queue /\ y.on = c.on
    BY <1>1, <2>2 DEF Channel
  <2> QED
    BY <1>0, <1>a, <2>1, <2>3
<1> QED
  BY <1>2, <1>3, <1>4, <1>5 DEF Stream

(* A page that hears has heard what the event is about, and begins a load  *)
(* that knows it.                                                          *)
LEMMA HearTypes ==
  ASSUME Types, NEW p \in Pages, Hear(p)
  PROVE  /\ LoadTypes'
         /\ \E e \in Event : e = Head(stream[p].wire)
         /\ \A k \in Kinds : heard'[p][k] =
              IF k \in Head(stream[p].wire).about
              THEN heard[p][k] \cup {Head(stream[p].wire).by} ELSE heard[p][k]
         /\ \A o \in Pages \ {p} : heard'[o] = heard[o]
         /\ \E q \in Requests :
              /\ req[q].pc = "free"
              /\ req'[q].pc = "look" /\ req'[q].kind = "state"
              /\ req'[q].since = heard'[p]
              /\ \A r \in Requests \ {q} : req'[r] = req[r]
<1> DEFINE e == Head(stream[p].wire)
           known == [k \in Kinds |-> IF k \in e.about THEN heard[p][k] \cup {e.by}
                                     ELSE heard[p][k]]
<1>1. /\ stream[p].wire # <<>> /\ heard' = [heard EXCEPT ![p] = known]
      /\ Ask(p, known) /\ UNCHANGED <<left, shown, served>>
  BY DEF Hear
<1>2. stream[p].wire \in Seq(Event)
  BY DEF Types, StreamTypes, Channel
<1>3. e \in Event
  BY <1>1, <1>2
<1>4. e.by \in Writers
  BY <1>3 DEF Event, Writers
<1> HIDE DEF e
<1>5. known \in Content
  BY <1>4 DEF Types, LoadTypes, Content
<1>6. \A k \in Kinds : known[k] = IF k \in e.about THEN heard[p][k] \cup {e.by}
                                  ELSE heard[p][k]
  OBVIOUS
<1> HIDE DEF known
<1>7. /\ heard' \in [Pages -> Content] /\ heard'[p] = known
      /\ \A o \in Pages \ {p} : heard'[o] = heard[o]
  BY <1>1, <1>5 DEF Types, LoadTypes
<1>8. LoadTypes
  BY DEF Types
<1>9. /\ req' \in [Requests -> Req]
      /\ \A r \in Requests : req'[r].pc # "free" => req'[r].page \in Pages
      /\ \E q \in Requests :
           /\ req[q].pc = "free"
           /\ req'[q].pc = "look" /\ req'[q].kind = "state" /\ req'[q].since = known
           /\ \A r \in Requests \ {q} : req'[r] = req[r]
  BY <1>1, <1>5, <1>8, AskTypes
<1>10. LoadTypes'
  BY <1>1, <1>7, <1>8, <1>9 DEF LoadTypes
<1> QED
  BY <1>3, <1>6, <1>7, <1>9, <1>10 DEF e

(* Every step of a page keeps the types.                                   *)
LEMMA PageStepTypes ==
  ASSUME Types, NEW p \in Pages, Reload(p) \/ Stream(p)
  PROVE  Types'
<1>a. UNCHANGED <<file, cache, mu, lock, writer>>
  BY DEF Reload, Stream, Connect, Disconnect, Close, Forward, Hear, Ignore
<1>b. FileTypes' /\ WriterTypes'
  BY <1>a DEF Types, FileTypes, WriterTypes, At
<1>1. CASE Reload(p)
  <2>1. heard[p] \in Content /\ Ask(p, heard[p]) /\ LoadTypes
    BY <1>1 DEF Reload, Types, LoadTypes
  <2>2. /\ req' \in [Requests -> Req]
        /\ \A r \in Requests : req'[r].pc # "free" => req'[r].page \in Pages
    BY <2>1, AskTypes
  <2>3. left' \in Nat
    BY <1>1 DEF Reload, Types, LoadTypes
  <2> QED
    BY <1>1, <1>b, <2>2, <2>3 DEF Reload, Types, LoadTypes, StreamTypes
<1>2. CASE Hear(p)
  BY <1>2, <1>b, HearTypes, StreamStep DEF Types, Stream
<1>3. CASE Connect(p) \/ Disconnect(p) \/ Forward(p) \/ Ignore(p)
  <2>1. UNCHANGED <<req, left, shown, heard, served>>
    BY <1>3 DEF Connect, Disconnect, Close, Forward, Ignore
  <2>2. StreamTypes'
    BY <1>3, StreamStep DEF Stream
  <2> QED
    BY <1>b, <2>1, <2>2 DEF Types, LoadTypes
<1> QED
  BY <1>1, <1>2, <1>3 DEF Stream

(* So does every step of a load.                                           *)
LEMMA RequestStepTypes ==
  ASSUME Types, NEW q \in Requests, Request(q)
  PROVE  Types'
<1>a. req[q] \in Req /\ req[q].kind \in Kinds /\ LoadTypes
  BY DEF Types, LoadTypes, Req
<1>b. UNCHANGED <<file, lock, writer, stream, left, heard>>
  BY DEF Request, Look, Load, Stat, Arrive, Fail, Answer
<1>c. WriterTypes' /\ StreamTypes'
  BY <1>b DEF Types, WriterTypes, StreamTypes, At
<1>1. CASE Look(q)
  <2>0. req[q].pc # "free" /\ UNCHANGED cache
    BY <1>1 DEF Look
  <2>1. CASE Hit(req[q].kind)
    <3>1. cache[req[q].kind].data \in SUBSET Writers
      BY <1>a, <2>1 DEF Hit, Types, FileTypes, Entry
    <3>2. LoadTypes'
      BY <1>1, <2>0, <2>1, <3>1, AnswerTypes DEF Look
    <3> QED
      BY <1>1, <1>b, <1>c, <2>0, <2>1, <3>2 DEF Look, Types, FileTypes
  <2>2. CASE ~Hit(req[q].kind)
    <3>1. /\ mu' = q /\ req' = [req EXCEPT ![q].pc = "load"]
          /\ UNCHANGED <<shown, served>>
      BY <1>1, <2>2 DEF Look
    <3>2. LoadTypes'
      BY <1>a, <1>b, <2>0, <3>1, PlaceSet DEF LoadTypes
    <3> QED
      BY <1>b, <1>c, <2>0, <3>1, <3>2 DEF Types, FileTypes
  <2> QED
    BY <2>1, <2>2
<1>2. CASE Load(q)
  <2>1. UNCHANGED <<cache, mu, shown, served>>
    BY <1>2 DEF Load
  <2>2. LoadTypes'
    BY <1>2, <1>a, <1>b, <2>1, LoadStep DEF LoadTypes
  <2> QED
    BY <1>b, <1>c, <2>1, <2>2 DEF Types, FileTypes
<1>3. CASE Stat(q)
  <2> DEFINE k == req[q].kind
             d == req[q].read
             e == [data |-> d, stamp |-> file[k]]
  <2>1. d \in SUBSET Writers /\ Answer(q, d) /\ req[q].pc # "free"
    BY <1>3, <1>a DEF Stat, Req
  <2>2. LoadTypes'
    BY <2>1, AnswerTypes
  <2>3. e \in Entry
    BY <1>a, <2>1 DEF Entry, Types, FileTypes, Content
  <2>4. mu' = NoOne /\ (cache' = [cache EXCEPT ![k] = e] \/ UNCHANGED cache)
    BY <1>3 DEF Stat
  <2> HIDE DEF e, d
  <2>5. cache' \in [Kinds -> Entry \cup {Nothing}]
    BY <1>a, <2>3, <2>4 DEF Types, FileTypes
  <2> QED
    BY <1>b, <1>c, <2>2, <2>4, <2>5 DEF Types, FileTypes
<1>4. CASE Arrive(q) \/ Fail(q)
  <2>1. /\ req[q].page \in Pages /\ req[q].data \in Content /\ NoChange \in Content
    BY <1>4, <1>a DEF Arrive, Fail, LoadTypes, Req, NoChange, Content
  <2>2. req' = [req EXCEPT ![q] = Free] /\ UNCHANGED <<cache, served>>
    BY <1>4 DEF Arrive, Fail
  <2>3. mu' \in Requests \cup {NoOne}
    BY <1>4 DEF Arrive, Fail, Types, FileTypes
  <2>4. shown' \in [Pages -> Content]
    BY <1>4, <1>a, <2>1 DEF Arrive, Fail, LoadTypes
  <2>5. LoadTypes'
    BY <1>a, <1>b, <2>2, <2>4, FreeSet DEF LoadTypes
  <2> QED
    BY <1>b, <1>c, <2>2, <2>3, <2>5 DEF Types, FileTypes
<1> QED
  BY <1>1, <1>2, <1>3, <1>4 DEF Request

(* So does every step.                                                     *)
LEMMA StepTypes == Types /\ [Next]_vars => Types'
<1> SUFFICES ASSUME Types, [Next]_vars PROVE Types'
    OBVIOUS
<1>1. CASE \E w \in Local : Handler(w) \/ Deletion(w) \/ Run(w)
  BY <1>1, WriterStepTypes
<1>2. CASE \E w \in Local : Published(w)
  <2> PICK w \in Local : Published(w)
    BY <1>2
  <2>1. WriterTypes'
    BY PublishedTypes DEF Types
  <2> QED
    BY <2>1 DEF Published, Types, FileTypes, StreamTypes, LoadTypes, webVars
<1>3. CASE \E w \in Local, p \in Pages : Send(w, p)
  <2> PICK w \in Local, p \in Pages : Send(w, p)
    BY <1>3
  <2>1. WriterTypes' /\ StreamTypes'
    BY SendTypes, SendChannel DEF Types
  <2> QED
    BY <2>1 DEF Send, Types, FileTypes, LoadTypes
<1>4. CASE \E f \in Foreign : ForeignRun(f)
  <2> PICK f \in Foreign : ForeignRun(f)
    BY <1>4
  <2>1. f \in Writers /\ f \notin Runs
    BY WritersAssumption DEF Writers, Local
  <2>2. WriterTypes'
    <3>1. PICK place \in {"history", "end"} : Goto(f, place)
      BY DEF ForeignRun
    <3> QED
      BY <2>1, <3>1, GotoTypes DEF Types, Places
  <2>3. file' \in Content
    BY <2>1 DEF ForeignRun, Save, Types, FileTypes, Content, Kinds
  <2> QED
    BY <2>2, <2>3 DEF ForeignRun, Types, FileTypes, StreamTypes, LoadTypes, webVars
<1>5. CASE \E p \in Pages : Reload(p) \/ Stream(p)
  BY <1>5, PageStepTypes
<1>6. CASE \E q \in Requests : Request(q)
  BY <1>6, RequestStepTypes
<1>7. CASE UNCHANGED vars
  BY <1>7 DEF vars, webVars, Types, FileTypes, WriterTypes, StreamTypes, LoadTypes, At
<1> QED
  BY <1>1, <1>2, <1>3, <1>4, <1>5, <1>6, <1>7 DEF Next

(* The types hold in every state, and TypeOK is among them.                *)
THEOREM TypeOK_always == Spec => []TypeOK
<1>1. Types => TypeOK
  <2> SUFFICES ASSUME Types PROVE TypeOK
    OBVIOUS
  <2>1. \A q \in Requests : /\ req[q].data \in Content /\ req[q].since \in Content
                            /\ req[q].pc # "free" => req[q].page \in Pages
    BY DEF Types, LoadTypes, Req
  <2> QED
    BY <2>1 DEF Types, FileTypes, WriterTypes, StreamTypes, LoadTypes, TypeOK, At
<1> QED
  BY <1>1, InitTypes, StepTypes, PTL DEF Spec

-----------------------------------------------------------------------------
(* A step of a writer only adds to the files, and touches the cache only   *)
(* to empty it while no load reads.                                        *)
LEMMA WriterEffect ==
  ASSUME Types, NEW w \in Local, Handler(w) \/ Deletion(w) \/ Run(w)
  PROVE  /\ UNCHANGED <<mu, webVars>>
         /\ cache' = cache \/ (mu = NoOne /\ cache' = NoEntry)
         /\ \A k \in Kinds : file[k] \subseteq file'[k]
<1>1. ASSUME NEW k \in Kinds, Save(k, w) PROVE \A j \in Kinds : file[j] \subseteq file'[j]
  BY <1>1 DEF Save, Types, FileTypes, Content
<1>2. "state" \in Kinds /\ "history" \in Kinds
  BY DEF Kinds
<1>3. CASE Handler(w)
  BY <1>1, <1>2, <1>3 DEF Handler, Begin, SaveFinding, InvalidateFinding,
     PublishFinding, Return, Invalidate, webVars
<1>4. CASE Deletion(w)
  BY <1>1, <1>2, <1>4 DEF Deletion, DeleteChat, DropHashes, InvalidateHashes,
     Invalidate, webVars
<1>5. CASE Run(w)
  BY <1>1, <1>2, <1>5 DEF Run, StartRun, Analyze, MergeResult, InvalidateResult,
     UpdateHistory, PublishDone, Conclude, Complete, Invalidate, webVars
<1> QED
  BY <1>3, <1>4, <1>5

(* A writer stands elsewhere after its step, or publishes to the pages     *)
(* that are connected.                                                     *)
Moves(w) ==
  /\ \A v \in Writers \ {w} : writer'[v] = writer[v]
  /\ \/ writer'[w].pc # "publishing"
     \/ writer'[w].todo = {p \in Pages : stream[p].on}

(* Every step of a writer is such a move.                                  *)
LEMMA WriterMoves ==
  ASSUME Types, NEW w \in Local, Handler(w) \/ Deletion(w) \/ Run(w)
  PROVE  Moves(w)
<1>a. w \in Writers /\ w \in Local /\ (w \in Handlers \cup Deletions => w \notin Runs)
  BY WritersAssumption DEF Writers, Local
<1>g. ASSUME NEW place, place # "publishing", Goto(w, place)
      PROVE  Moves(w)
  <2>1. writer[w] \in Writer /\ writer'[w] = [writer[w] EXCEPT !.pc = place]
    BY <1>a, <1>g DEF Goto, Types, WriterTypes
  <2>2. writer'[w].pc = place
    BY <2>1 DEF Writer
  <2> QED
    BY <1>a, <1>g, <2>2 DEF Moves, Goto, Types, WriterTypes
<1>h. ASSUME NEW type \in {"start", "done", "error", "finding", "unsaved", "deleted"},
             NEW then \in After, Announce(w, type, then)
      PROVE  Moves(w)
  BY <1>h, AnnounceTypes, ZenonT(30) DEF Types, Moves
<1>1. CASE Handler(w)
  BY <1>g, <1>h, <1>1 DEF Handler, Begin, SaveFinding, InvalidateFinding,
     PublishFinding, Return, After
<1>2. CASE Deletion(w)
  BY <1>g, <1>h, <1>2 DEF Deletion, DeleteChat, DropHashes, InvalidateHashes, After
<1>3. CASE Run(w)
  <2>1. w \in Runs /\ writer[w] \in Writer
    BY <1>a, <1>3 DEF Run, StartRun, Analyze, MergeResult, InvalidateResult,
       UpdateHistory, PublishDone, Conclude, Complete, Types, WriterTypes
  <2>2. CASE MergeResult(w) \/ InvalidateResult(w)
    <3>1. writer[w].how \in {"empty", "analyzed", "failed"}
      BY <2>1, <2>2 DEF MergeResult, InvalidateResult, Types, WriterTypes, Writer, Hows
    <3> QED
      BY <1>g, <2>2, <3>1 DEF MergeResult, InvalidateResult
  <2>3. CASE Analyze(w)
    <3>1. ASSUME NEW how, writer' = [writer EXCEPT ![w].pc = "merge", ![w].how = how]
          PROVE  Moves(w)
      <4>1. /\ writer'[w] = [writer[w] EXCEPT !.pc = "merge", !.how = how]
            /\ \A v \in Writers \ {w} : writer'[v] = writer[v]
        BY <1>a, <3>1 DEF Types, WriterTypes
      <4>2. writer'[w].pc = "merge"
        BY <2>1, <4>1 DEF Writer
      <4> QED
        BY <4>1, <4>2 DEF Moves
    <3> QED
      BY <1>g, <2>3, <3>1 DEF Analyze
  <2>4. CASE StartRun(w) \/ PublishDone(w) \/ Conclude(w)
    BY <1>h, <2>4 DEF StartRun, PublishDone, Conclude, After
  <2>5. CASE UpdateHistory(w) \/ Complete(w)
    BY <1>g, <2>5 DEF UpdateHistory, Complete
  <2> QED
    BY <1>3, <2>2, <2>3, <2>4, <2>5 DEF Run
<1> QED
  BY <1>1, <1>2, <1>3

(* Nobody disconnects while somebody publishes.                            *)
LEMMA OpenStep == Types /\ NoSendOnClosed /\ [Next]_vars => NoSendOnClosed'
<1> SUFFICES ASSUME Types, NoSendOnClosed, [Next]_vars,
                    NEW w \in Publishing', NEW p \in writer'[w].todo
             PROVE  stream'[p].on
    BY DEF NoSendOnClosed
<1>a. w \in Local /\ writer'[w].pc = "publishing" /\ w \in Writers
  BY DEF Publishing, At, Writers
<1>b. ASSUME writer[w].pc = "publishing", writer'[w].todo \subseteq writer[w].todo
      PROVE  stream[p].on /\ p \in Pages /\ Publishing # {}
  BY <1>a, <1>b DEF NoSendOnClosed, Publishing, At, Types, WriterTypes, Writer
<1>1. ASSUME NEW v \in Local, Handler(v) \/ Deletion(v) \/ Run(v)
      PROVE  stream'[p].on
  <2>1. Moves(v) /\ UNCHANGED stream
    BY <1>1, WriterEffect, WriterMoves DEF webVars
  <2> QED
    BY <1>a, <1>b, <2>1 DEF Moves
<1>2. ASSUME NEW v \in Local, Published(v)
      PROVE  stream'[p].on
  <2>1. writer'[v].pc # "publishing" /\ writer'[w] = writer[w]
    BY <1>a, <1>2, PublishedTypes DEF Types
  <2> QED
    BY <1>a, <1>2, <1>b, <2>1 DEF Published, webVars
<1>3. ASSUME NEW v \in Local, NEW o \in Pages, Send(v, o)
      PROVE  stream'[p].on
  <2>1. writer[w].pc = "publishing" /\ writer'[w].todo \subseteq writer[w].todo
    BY <1>a, <1>3, SendTypes DEF Types
  <2>2. stream[p].on /\ p \in Pages
    BY <1>b, <2>1
  <2> QED
    BY <1>3, <2>2, SendChannel DEF Types
<1>4. ASSUME NEW f \in Foreign, ForeignRun(f)
      PROVE  stream'[p].on
  <2>1. w # f
    BY <1>a, WritersAssumption
  <2>2. writer'[w] = writer[w] /\ UNCHANGED stream
    BY <1>4, <1>a, <2>1 DEF ForeignRun, Goto, Types, WriterTypes, webVars
  <2> QED
    BY <1>a, <1>b, <2>2
<1>5. ASSUME NEW q, Reload(q) \/ Request(q)
      PROVE  stream'[p].on
  <2>1. UNCHANGED <<writer, stream>>
    BY <1>5 DEF Reload, Request, Look, Load, Stat, Arrive, Fail, Answer
  <2> QED
    BY <1>a, <1>b, <2>1
<1>6. ASSUME NEW o \in Pages, Stream(o)
      PROVE  stream'[p].on
  <2>1. UNCHANGED writer
    BY <1>6 DEF Stream, Connect, Disconnect, Close, Forward, Hear, Ignore
  <2>2. stream[p].on /\ p \in Pages /\ Publishing # {}
    BY <1>a, <1>b, <2>1
  <2> QED
    BY <1>6, <2>2, StreamStep
<1>7. CASE UNCHANGED vars
  BY <1>7, <1>a, <1>b DEF vars, webVars
<1> QED
  BY <1>1, <1>2, <1>3, <1>4, <1>5, <1>6, <1>7 DEF Next

(* No event is sent on a closed channel: a page that goes away waits for   *)
(* the publishers that have counted it in (events.go, Publish and          *)
(* Unsubscribe).                                                           *)
THEOREM NoSendOnClosed_always == Spec => []NoSendOnClosed
<1>1. Init => NoSendOnClosed
  <2> SUFFICES ASSUME Init PROVE Publishing = {}
    BY DEF NoSendOnClosed
  <2>1. \A w \in Writers : writer[w].pc \in {"idle", "away"}
    BY DEF Init, Fresh
  <2> QED
    BY <2>1 DEF Publishing, At, Local, Writers
<1> QED
  BY <1>1, InitTypes, StepTypes, OpenStep, PTL DEF Spec

-----------------------------------------------------------------------------
(* What was answered last is not newer than the file, the cache or what a  *)
(* load has read and is about to answer; one load reads at a time.         *)
NotOlder ==
  /\ \A k \in Kinds : served[k] \subseteq file[k]
  /\ \A k \in Kinds : cache[k] # Nothing =>
       cache[k].data \subseteq file[k] /\ served[k] \subseteq cache[k].data
  /\ \A q \in Requests : req[q].pc \in {"load", "stat"} => mu = q
  /\ \A q \in Requests : req[q].pc = "stat" =>
       /\ req[q].read \subseteq file[req[q].kind]
       /\ served[req[q].kind] \subseteq req[q].read

(* An answer that is at least the last one.                                *)
LEMMA AnswerNotOlder ==
  ASSUME Types, NotOlder, NEW q \in Requests, NEW d \in SUBSET Writers,
         req[q].pc # "free", Answer(q, d),
         d \subseteq file[req[q].kind], served[req[q].kind] \subseteq d,
         \A r \in Requests \ {q} : req[r].pc \notin {"load", "stat"},
         \A k \in Kinds : cache'[k] # Nothing =>
           \/ k # req[q].kind /\ cache'[k] = cache[k]
           \/ k = req[q].kind /\ cache'[k].data = d
  PROVE  NotOlder' /\ \A k \in Kinds : served[k] \subseteq served'[k]
<1>1. /\ req[q].kind \in Kinds /\ served' = [served EXCEPT ![req[q].kind] = d]
      /\ req'[q].pc \in {"look", "answered"}
      /\ \A r \in Requests \ {q} : req'[r] = req[r]
      /\ file' = file
  BY AnswerTypes
<1>2. \A k \in Kinds : served'[k] = IF k = req[q].kind THEN d ELSE served[k]
  BY <1>1 DEF Types, LoadTypes, Content
<1>3. \A k \in Kinds : served[k] \subseteq served'[k] /\ served'[k] \subseteq file'[k]
  BY <1>1, <1>2 DEF NotOlder
<1>4. \A k \in Kinds : cache'[k] # Nothing =>
        cache'[k].data \subseteq file'[k] /\ served'[k] \subseteq cache'[k].data
  BY <1>1, <1>2 DEF NotOlder
<1>5. \A r \in Requests : req'[r].pc \notin {"load", "stat"}
  BY <1>1
<1> QED
  BY <1>3, <1>4, <1>5 DEF NotOlder

(* A step that answers nothing, and after which a load that reads is one   *)
(* that read before.                                                       *)
LEMMA QuietNotOlder ==
  ASSUME Types, NotOlder,
         \A k \in Kinds : file[k] \subseteq file'[k],
         cache' = cache \/ cache' = NoEntry, UNCHANGED served,
         \A q \in Requests : req'[q].pc \in {"load", "stat"} =>
                               req'[q] = req[q] /\ mu' = mu
  PROVE  NotOlder' /\ \A k \in Kinds : served[k] \subseteq served'[k]
<1>1. \A q \in Requests : req[q].kind \in Kinds
  BY DEF Types, LoadTypes, Req
<1>2. \A k \in Kinds : cache'[k] # Nothing => cache'[k] = cache[k]
  BY DEF NoEntry
<1>3. \A k \in Kinds : served'[k] \subseteq file'[k]
  BY DEF NotOlder
<1>4. \A k \in Kinds : cache'[k] # Nothing =>
        cache'[k].data \subseteq file'[k] /\ served'[k] \subseteq cache'[k].data
  BY <1>2 DEF NotOlder
<1>5. \A q \in Requests : req'[q].pc \in {"load", "stat"} => mu' = q
  BY DEF NotOlder
<1>6. ASSUME NEW q \in Requests, req'[q].pc = "stat"
      PROVE  /\ req'[q].read \subseteq file'[req'[q].kind]
             /\ served'[req'[q].kind] \subseteq req'[q].read
  <2>1. req'[q] = req[q] /\ req[q].kind \in Kinds
    BY <1>1, <1>6
  <2> QED
    BY <1>6, <2>1 DEF NotOlder
<1> QED
  BY <1>3, <1>4, <1>5, <1>6 DEF NotOlder

(* Which loads a step leaves reading: one that began to read by that step, *)
(* or that had begun before.                                               *)
LEMMA QuietStep ==
  ASSUME Types, NotOlder, [Next]_vars,
         ~\E q \in Requests : Look(q) \/ Load(q) \/ Stat(q)
  PROVE  /\ \A k \in Kinds : file[k] \subseteq file'[k]
         /\ cache' = cache \/ cache' = NoEntry
         /\ UNCHANGED served
         /\ \A q \in Requests : req'[q].pc \in {"load", "stat"} =>
                                  req'[q] = req[q] /\ mu' = mu
<1> DEFINE Goal == /\ \A k \in Kinds : file[k] \subseteq file'[k]
                   /\ cache' = cache \/ cache' = NoEntry
                   /\ UNCHANGED served
                   /\ \A q \in Requests : req'[q].pc \in {"load", "stat"} =>
                                            req'[q] = req[q] /\ mu' = mu
<1>1. ASSUME NEW w \in Local, Handler(w) \/ Deletion(w) \/ Run(w)
      PROVE  Goal
  BY <1>1, WriterEffect DEF webVars
<1>2. ASSUME NEW w \in Local, Published(w) \/ \E p \in Pages : Send(w, p)
      PROVE  Goal
  BY <1>2 DEF Published, Send, webVars
<1>3. ASSUME NEW f \in Foreign, ForeignRun(f)
      PROVE  Goal
  <2>1. \A k \in Kinds : file[k] \subseteq file'[k]
    BY <1>3 DEF ForeignRun, Save, Types, FileTypes, Content
  <2> QED
    BY <1>3, <2>1 DEF ForeignRun, webVars
<1>4. ASSUME NEW p \in Pages, Reload(p)
      PROVE  Goal
  <2>1. heard[p] \in Content /\ Ask(p, heard[p]) /\ LoadTypes
    BY <1>4 DEF Reload, Types, LoadTypes
  <2>2. PICK q \in Requests : /\ req'[q].pc = "look"
                              /\ \A r \in Requests \ {q} : req'[r] = req[r]
    BY <2>1, AskTypes
  <2> QED
    BY <1>4, <2>2 DEF Reload
<1>5. ASSUME NEW p \in Pages, Stream(p)
      PROVE  Goal
  <2>1. UNCHANGED <<file, cache, mu, served>>
    BY <1>5 DEF Stream, Connect, Disconnect, Close, Forward, Hear, Ignore
  <2>2. CASE Hear(p)
    <3>1. PICK q \in Requests : /\ req'[q].pc = "look"
                                /\ \A r \in Requests \ {q} : req'[r] = req[r]
      BY <2>2, HearTypes
    <3> QED
      BY <2>1, <3>1
  <2>3. CASE UNCHANGED req
    BY <2>1, <2>3
  <2> QED
    BY <1>5, <2>2, <2>3 DEF Stream, Connect, Disconnect, Close, Forward, Ignore
<1>6. ASSUME NEW q \in Requests, Arrive(q) \/ Fail(q)
      PROVE  Goal
  <2>1. UNCHANGED <<file, cache, served>> /\ req' = [req EXCEPT ![q] = Free]
    BY <1>6 DEF Arrive, Fail
  <2>2. req'[q].pc = "free" /\ \A r \in Requests \ {q} : req'[r] = req[r]
    BY <2>1, FreeSet DEF Free, Types
  <2>3. mu' = mu \/ req[q].pc = "load"
    BY <1>6 DEF Arrive, Fail
  <2>4. ASSUME NEW r \in Requests \ {q}, req[r].pc \in {"load", "stat"}
        PROVE  mu' = mu
    BY <2>3, <2>4 DEF NotOlder
  <2> QED
    BY <2>1, <2>2, <2>4
<1>7. CASE UNCHANGED vars
  BY <1>7 DEF vars, webVars
<1> QED
  BY <1>1, <1>2, <1>3, <1>4, <1>5, <1>6, <1>7 DEF Next, Request

(* Over every step, what the cache answers only grows.                     *)
LEMMA NotOlderStep ==
  Types /\ NotOlder /\ [Next]_vars =>
    NotOlder' /\ \A k \in Kinds : served[k] \subseteq served'[k]
<1> SUFFICES ASSUME Types, NotOlder, [Next]_vars
             PROVE  NotOlder' /\ \A k \in Kinds : served[k] \subseteq served'[k]
    OBVIOUS
<1> DEFINE Goal == NotOlder' /\ \A k \in Kinds : served[k] \subseteq served'[k]
<1>1. CASE ~\E q \in Requests : Look(q) \/ Load(q) \/ Stat(q)
  BY <1>1, QuietStep, QuietNotOlder
<1>2. ASSUME NEW q \in Requests, Look(q)
      PROVE  Goal
  <2>1. /\ mu = NoOne /\ NoOne \notin Requests /\ req[q].pc = "look"
        /\ UNCHANGED cache
    BY <1>2, WritersAssumption DEF Look
  <2>2. \A r \in Requests : req[r].pc \notin {"load", "stat"}
    BY <2>1 DEF NotOlder
  <2>3. req[q].kind \in Kinds /\ LoadTypes
    BY DEF Types, LoadTypes, Req
  <2>4. CASE Hit(req[q].kind)
    <3> DEFINE d == cache[req[q].kind].data
    <3>1. cache[req[q].kind] # Nothing /\ Answer(q, d)
      BY <1>2, <2>4 DEF Look, Hit
    <3>2. d \subseteq file[req[q].kind] /\ served[req[q].kind] \subseteq d
      BY <2>3, <3>1 DEF NotOlder
    <3>3. d \in SUBSET Writers
      BY <2>3, <3>1 DEF Types, FileTypes, Entry
    <3>4. \A k \in Kinds : cache'[k] # Nothing =>
            \/ k # req[q].kind /\ cache'[k] = cache[k]
            \/ k = req[q].kind /\ cache'[k].data = d
      BY <2>1
    <3> HIDE DEF d
    <3> QED
      BY <2>1, <2>2, <3>1, <3>2, <3>3, <3>4, AnswerNotOlder
  <2>5. CASE ~Hit(req[q].kind)
    <3>1. /\ mu' = q /\ req' = [req EXCEPT ![q].pc = "load"]
          /\ UNCHANGED <<file, served>>
      BY <1>2, <2>5 DEF Look
    <3>2. req'[q].pc = "load" /\ \A r \in Requests \ {q} : req'[r] = req[r]
      BY <2>1, <2>3, <3>1, PlaceSet
    <3> QED
      BY <2>1, <2>2, <3>1, <3>2 DEF NotOlder
  <2> QED
    BY <2>4, <2>5
<1>3. ASSUME NEW q \in Requests, Load(q)
      PROVE  Goal
  <2>1. /\ req'[q].pc = "stat" /\ req'[q].kind = req[q].kind
        /\ req[q].kind \in Kinds /\ req'[q].read = file[req[q].kind]
        /\ \A r \in Requests \ {q} : req'[r] = req[r]
    BY <1>3, LoadStep
  <2>2. req[q].pc = "load" /\ UNCHANGED <<file, cache, mu, served>>
    BY <1>3 DEF Load
  <2> QED
    BY <2>1, <2>2 DEF NotOlder
<1>4. ASSUME NEW q \in Requests, Stat(q)
      PROVE  Goal
  <2> DEFINE k == req[q].kind
             d == req[q].read
             e == [data |-> d, stamp |-> file[k]]
  <2>1. req[q].pc = "stat" /\ k \in Kinds /\ d \in SUBSET Writers
    BY <1>4 DEF Stat, Types, LoadTypes, Req
  <2>2. /\ d \subseteq file[k] /\ served[k] \subseteq d
        /\ \A r \in Requests \ {q} : req[r].pc \notin {"load", "stat"}
    BY <2>1 DEF NotOlder
  <2>3. Answer(q, d) /\ \/ cache' = [cache EXCEPT ![k] = e]
                        \/ file[k] = {} /\ UNCHANGED cache
    BY <1>4 DEF Stat
  <2> HIDE DEF k, d
  <2>4. \A j \in Kinds : cache'[j] # Nothing =>
          (j # k /\ cache'[j] = cache[j]) \/ (j = k /\ cache'[j].data = d)
    <3>1. CASE cache' = [cache EXCEPT ![k] = e]
      BY <2>1, <3>1 DEF Types, FileTypes
    <3>2. CASE file[k] = {} /\ UNCHANGED cache
      BY <2>1, <2>2, <3>2 DEF NotOlder
    <3> QED
      BY <2>3, <3>1, <3>2
  <2> QED
    BY <2>1, <2>2, <2>3, <2>4, AnswerNotOlder DEF k
<1> QED
  BY <1>1, <1>2, <1>3, <1>4

(* The successive answers of the cache never go back to an older file, for *)
(* any number of loads (cache.go holds the lock from Load to the store).   *)
THEOREM AnswersNeverGoBack_always == Spec => AnswersNeverGoBack
<1>1. Init => NotOlder
  BY DEF Init, NotOlder, NoChange, NoEntry, Free
<1>2. Types /\ NotOlder /\ [Next]_vars
      => [\A k \in Kinds : served[k] \subseteq served'[k]]_vars
  BY NotOlderStep
<1> QED
  BY <1>1, <1>2, InitTypes, StepTypes, NotOlderStep, PTL DEF Spec, AnswersNeverGoBack

-----------------------------------------------------------------------------
(* A lifecycle call or a run that has saved its change and invalidated the *)
(* cache, and may yet say so.                                              *)
Changers == Handlers \cup Runs
Behind(w) ==
  \/ At(w, "publish") /\ (w \in Handlers \/ writer[w].how # "empty")
  \/ w \in Runs /\ At(w, "history")
  \/ At(w, "publishing") /\ "state" \in writer[w].event.about

(* Its change has been heard of, or an event about it is under way.        *)
Under(s, w) == \E i \in 1 .. Len(s) : s[i].by = w /\ "state" \in s[i].about
Known(w) == \E p \in Pages : w \in heard[p]["state"]
Told(w)  == \E p \in Pages : \/ w \in heard[p]["state"]
                             \/ Under(stream[p].queue, w) \/ Under(stream[p].wire, w)

(* Every answer from now on holds the change of w.                         *)
InAnswer(w) ==
  /\ w \in file["state"]
  /\ cache["state"] # Nothing => w \in cache["state"].data
  /\ \A q \in Requests : req[q].pc = "stat" /\ req[q].kind = "state"
                         => w \in req[q].read

Saved(w) == At(w, "invalidate") /\ (w \in Handlers \/ writer[w].how # "failed")
            => w \in file["state"]

Settled == \A w \in Changers : (Behind(w) \/ Told(w) => InAnswer(w)) /\ Saved(w)

(* What a load knew of when it began has been heard of, and is in what it  *)
(* has been answered.                                                      *)
Kept == \A q \in Requests : \A w \in req[q].since["state"] \cap Changers :
          /\ Known(w)
          /\ req[q].pc = "answered" \/ req[q].kind = "history"
             => w \in req[q].data["state"]

(* What is in every answer stays in every answer.                          *)
LEMMA InAnswerKept ==
  ASSUME Types, NotOlder, NEW w, InAnswer(w), [Next]_vars
  PROVE  InAnswer(w)'
<1>a. "state" \in Kinds /\ LoadTypes
  BY DEF Kinds, Types
<1>b. ASSUME \A k \in Kinds : file[k] \subseteq file'[k],
             cache' = cache \/ cache' = NoEntry,
             \A q \in Requests : req'[q].pc = "stat" => req'[q] = req[q]
      PROVE  InAnswer(w)'
  BY <1>a, <1>b DEF InAnswer, NoEntry
<1>1. CASE ~\E q \in Requests : Look(q) \/ Load(q) \/ Stat(q)
  <2>1. /\ \A k \in Kinds : file[k] \subseteq file'[k]
        /\ cache' = cache \/ cache' = NoEntry
        /\ \A q \in Requests : req'[q].pc \in {"load", "stat"} => req'[q] = req[q]
    BY <1>1, QuietStep
  <2> QED
    BY <1>b, <2>1
<1>2. ASSUME NEW q \in Requests, Look(q)
      PROVE  InAnswer(w)'
  <2>1. req[q].kind \in Kinds /\ req[q].pc # "free"
    BY <1>2 DEF Look, Types, LoadTypes, Req
  <2>2. CASE Hit(req[q].kind)
    <3>1. cache[req[q].kind].data \in SUBSET Writers
      BY <2>1, <2>2 DEF Hit, Types, FileTypes, Entry
    <3>2. Answer(q, cache[req[q].kind].data) /\ UNCHANGED cache
      BY <1>2, <2>2 DEF Look
    <3>3. /\ req'[q].pc \in {"look", "answered"}
          /\ \A r \in Requests \ {q} : req'[r] = req[r]
          /\ file' = file
      BY <2>1, <3>1, <3>2, AnswerTypes
    <3> QED
      BY <3>2, <3>3, <1>b
  <2>3. CASE ~Hit(req[q].kind)
    <3>1. req' = [req EXCEPT ![q].pc = "load"] /\ UNCHANGED <<file, cache>>
      BY <1>2, <2>3 DEF Look
    <3>2. req'[q].pc = "load" /\ \A r \in Requests \ {q} : req'[r] = req[r]
      BY <1>a, <2>1, <3>1, PlaceSet
    <3> QED
      BY <1>b, <3>1, <3>2
  <2> QED
    BY <2>2, <2>3
<1>3. ASSUME NEW q \in Requests, Load(q)
      PROVE  InAnswer(w)'
  <2>1. /\ req'[q].kind = req[q].kind
        /\ req'[q].read = file[req[q].kind]
        /\ \A r \in Requests \ {q} : req'[r] = req[r]
    BY <1>3, LoadStep
  <2>2. UNCHANGED <<file, cache>>
    BY <1>3 DEF Load
  <2> QED
    BY <2>1, <2>2 DEF InAnswer
<1>4. ASSUME NEW q \in Requests, Stat(q)
      PROVE  InAnswer(w)'
  <2> DEFINE k == req[q].kind
             d == req[q].read
             e == [data |-> d, stamp |-> file[k]]
  <2>1. req[q].pc = "stat" /\ k \in Kinds /\ d \in SUBSET Writers
    BY <1>4 DEF Stat, Types, LoadTypes, Req
  <2>2. k = "state" => w \in d
    BY <2>1 DEF InAnswer
  <2>3. Answer(q, d) /\ (cache' = [cache EXCEPT ![k] = e] \/ UNCHANGED cache)
    BY <1>4 DEF Stat
  <2>4. /\ req'[q].pc \in {"look", "answered"}
        /\ \A r \in Requests \ {q} : req'[r] = req[r]
        /\ file' = file
    BY <2>1, <2>3, AnswerTypes
  <2> HIDE DEF k, d
  <2>5. cache'["state"] # Nothing => w \in cache'["state"].data
    BY <1>a, <2>1, <2>2, <2>3 DEF InAnswer, Types, FileTypes
  <2> QED
    BY <2>4, <2>5 DEF InAnswer
<1> QED
  BY <1>1, <1>2, <1>3, <1>4

(* A writer comes to be behind only by invalidating what it has saved.     *)
LEMMA ChangerStep ==
  ASSUME Types, NEW w \in Changers, Saved(w), Handler(w) \/ Run(w)
  PROVE  /\ Behind(w)' => Behind(w) \/ (Invalidate /\ w \in file["state"])
         /\ Saved(w)'
<1>a. /\ w \in Writers /\ w \in Local /\ w \notin Deletions
      /\ w \in Handlers <=> w \notin Runs
  BY WritersAssumption DEF Writers, Local, Changers
<1>b. writer[w] \in Writer
  BY <1>a DEF Types, WriterTypes
<1>g. ASSUME NEW place, place # "publishing", Goto(w, place)
      PROVE  writer'[w].pc = place /\ writer'[w].how = writer[w].how
  <2>1. writer'[w] = [writer[w] EXCEPT !.pc = place]
    BY <1>a, <1>g DEF Goto, Types, WriterTypes
  <2> QED
    BY <1>b, <2>1 DEF Writer
<1>h. ASSUME NEW type \in {"start", "done", "error", "finding", "unsaved", "deleted"},
             NEW then \in After, Announce(w, type, then)
      PROVE  /\ writer'[w].pc = "publishing" /\ writer'[w].how = writer[w].how
             /\ writer'[w].event.about = About(w, type)
  <2>1. /\ writer'[w].pc = "publishing" /\ writer'[w].how = writer[w].how
        /\ writer'[w].event = [type |-> type, by |-> w,
                              about |-> About(w, type)]
    BY <1>a, <1>h, AnnounceTypes DEF Types
  <2> QED
    BY ONLY <2>1
<1>s. Save("state", w) => w \in file'["state"]
  BY DEF Save, Types, FileTypes, Content, Kinds
<1> USE DEF Behind, Saved, At
<1>1. CASE Handler(w)
  <2>1. w \in Handlers
    BY <1>a, <1>1 DEF Handler, Begin, SaveFinding, InvalidateFinding, PublishFinding,
       Return
  <2>2. CASE Begin(w)
    BY <2>2, <1>g DEF Begin
  <2>3. CASE SaveFinding(w)
    BY <2>3, <1>g, <1>h, <1>s DEF SaveFinding, After, About
  <2>4. CASE InvalidateFinding(w)
    BY <2>1, <2>4, <1>g, <1>a DEF InvalidateFinding
  <2>5. CASE PublishFinding(w)
    BY <2>1, <2>5, <1>h DEF PublishFinding, After
  <2>6. CASE Return(w)
    BY <2>1, <2>6, <1>g, <1>a DEF Return
  <2> QED
    BY <1>1, <2>2, <2>3, <2>4, <2>5, <2>6 DEF Handler
<1>2. CASE Run(w)
  <2>1. w \in Runs /\ w \notin Handlers
    BY <1>2, <1>a DEF Run, StartRun, Analyze, MergeResult, InvalidateResult,
       UpdateHistory, PublishDone, Conclude, Complete
  <2>2. CASE StartRun(w)
    BY <2>1, <2>2, <1>h DEF StartRun, After, About
  <2>3. CASE Analyze(w)
    <3>1. ASSUME NEW how, writer' = [writer EXCEPT ![w].pc = "merge", ![w].how = how]
          PROVE  writer'[w].pc = "merge"
      <4>1. writer'[w] = [writer[w] EXCEPT !.pc = "merge", !.how = how]
        BY <1>a, <3>1 DEF Types, WriterTypes
      <4> QED
        BY <1>b, <4>1 DEF Writer
    <3>2. writer'[w].pc \in {"returned", "failed", "merge"}
      BY <2>3, <3>1, <1>g DEF Analyze
    <3> QED
      BY <3>2
  <2>4. CASE MergeResult(w)
    <3>1. writer[w].how \in {"empty", "analyzed", "failed"} /\ At(w, "merge")
      BY <1>b, <2>1, <2>4 DEF MergeResult, Types, WriterTypes, Writer, Hows
    <3>2. CASE Save("state", w) /\ Goto(w, "invalidate")
      BY <3>1, <3>2, <1>g, <1>s
    <3>3. CASE Goto(w, CASE writer[w].how = "empty"    -> "publish"
                         [] writer[w].how = "analyzed" -> "failed"
                         [] writer[w].how = "failed"   -> "invalidate")
      BY <2>1, <3>1, <3>3, <1>g
    <3> QED
      BY <2>4, <3>2, <3>3 DEF MergeResult
  <2>5. CASE InvalidateResult(w)
    <3>1. writer[w].how \in {"empty", "analyzed", "failed"} /\ At(w, "invalidate")
          /\ Invalidate
      BY <1>b, <2>1, <2>5 DEF InvalidateResult, Types, WriterTypes, Writer, Hows
    <3>2. Goto(w, CASE writer[w].how = "empty"    -> "publish"
                    [] writer[w].how = "analyzed" -> "history"
                    [] writer[w].how = "failed"   -> "failed")
      BY <2>5 DEF InvalidateResult
    <3> QED
      BY <2>1, <3>1, <3>2, <1>g
  <2>6. CASE UpdateHistory(w)
    BY <2>1, <2>6, <1>g DEF UpdateHistory
  <2>7. CASE PublishDone(w)
    BY <2>1, <2>7, <1>h DEF PublishDone, After, About
  <2>8. CASE Conclude(w)
    BY <2>8, <1>h DEF Conclude, After, About
  <2>9. CASE Complete(w)
    BY <2>9, <1>g DEF Complete
  <2> QED
    BY <1>2, <2>2, <2>3, <2>4, <2>5, <2>6, <2>7, <2>8, <2>9 DEF Run
<1> QED
  BY <1>1, <1>2

(* After an event is put in, what is under way was before, or is that one. *)
LEMMA UnderAppend ==
  ASSUME NEW s \in Seq(Event), NEW e \in Event, NEW w, Under(Append(s, e), w)
  PROVE  Under(s, w) \/ (e.by = w /\ "state" \in e.about)
<1>1. PICK i \in 1 .. Len(Append(s, e)) :
        Append(s, e)[i].by = w /\ "state" \in Append(s, e)[i].about
  BY DEF Under
<1>2. Len(Append(s, e)) = Len(s) + 1 /\ Len(s) \in Nat
  OBVIOUS
<1>3. CASE i = Len(s) + 1
  BY <1>1, <1>3
<1>4. CASE i # Len(s) + 1
  <2>1. i \in 1 .. Len(s) /\ Append(s, e)[i] = s[i]
    BY <1>2, <1>4
  <2> QED
    BY <1>1, <2>1 DEF Under
<1> QED
  BY <1>3, <1>4

(* After an event is taken out, what is under way was before, and so was   *)
(* the one taken out.                                                      *)
LEMMA UnderTail ==
  ASSUME NEW s \in Seq(Event), s # <<>>, NEW w
  PROVE  /\ Under(Tail(s), w) => Under(s, w)
         /\ Head(s).by = w /\ "state" \in Head(s).about => Under(s, w)
<1>1. /\ Len(Tail(s)) = Len(s) - 1 /\ Len(s) \in Nat \ {0} /\ Head(s) = s[1]
      /\ \A i \in 1 .. Len(s) - 1 : Tail(s)[i] = s[i + 1]
  OBVIOUS
<1>2. ASSUME Under(Tail(s), w) PROVE Under(s, w)
  <2>1. PICK i \in 1 .. Len(Tail(s)) : Tail(s)[i].by = w /\ "state" \in Tail(s)[i].about
    BY <1>2 DEF Under
  <2>2. i + 1 \in 1 .. Len(s) /\ Tail(s)[i] = s[i + 1]
    BY <1>1
  <2> QED
    BY <2>1, <2>2 DEF Under
<1>3. 1 \in 1 .. Len(s)
  BY <1>1
<1> QED
  BY <1>1, <1>2, <1>3 DEF Under

(* A step of a page tells of nothing that was not under way, and forgets   *)
(* nothing it has heard of.                                                *)
LEMMA StreamTold ==
  ASSUME Types, NEW p \in Pages, Stream(p), NEW w, Told(w)'
  PROVE  Told(w)
<1> DEFINE c == stream[p]
<1>1. /\ c.queue \in Seq(Event) /\ c.wire \in Seq(Event) /\ c \in Channel
  BY DEF Types, StreamTypes, Channel
<1>2. \A o \in Pages \ {p} : stream'[o] = stream[o]
  BY StreamStep
<1>3. "state" \in Kinds
  BY DEF Kinds
<1>4. PICK o \in Pages : \/ w \in heard'[o]["state"]
                         \/ Under(stream'[o].queue, w) \/ Under(stream'[o].wire, w)
  BY DEF Told
<1>5. CASE Hear(p)
  <2>1. stream' = [stream EXCEPT ![p].wire = Tail(c.wire)] /\ c.wire # <<>>
    BY <1>5 DEF Hear
  <2>2. stream'[p].wire = Tail(c.wire) /\ stream'[p].queue = c.queue
    BY <1>1, <2>1 DEF Types, StreamTypes, Channel
  <2>3. /\ heard'[p]["state"] = IF "state" \in Head(c.wire).about
                                THEN heard[p]["state"] \cup {Head(c.wire).by}
                                ELSE heard[p]["state"]
        /\ \A r \in Pages \ {p} : heard'[r] = heard[r]
    BY <1>3, <1>5, HearTypes
  <2>4. CASE o # p
    BY <1>2, <1>4, <2>3, <2>4 DEF Told
  <2>5. CASE o = p
    <3>1. Under(Tail(c.wire), w) => Under(c.wire, w)
      BY <1>1, <2>1, UnderTail
    <3>2. Head(c.wire).by = w /\ "state" \in Head(c.wire).about => Under(c.wire, w)
      BY <1>1, <2>1, UnderTail
    <3> HIDE DEF Under
    <3> QED
      BY <1>4, <2>2, <2>3, <2>5, <3>1, <3>2 DEF Told
  <2> QED
    BY <2>4, <2>5
<1>6. CASE Ignore(p)
  <2>1. stream' = [stream EXCEPT ![p].wire = Tail(c.wire)] /\ c.wire # <<>>
        /\ UNCHANGED heard
    BY <1>6 DEF Ignore
  <2>2. stream'[p].wire = Tail(c.wire) /\ stream'[p].queue = c.queue
    BY <1>1, <2>1 DEF Types, StreamTypes, Channel
  <2>3. Under(Tail(c.wire), w) => Under(c.wire, w)
    BY <1>1, <2>1, UnderTail
  <2> QED
    BY <1>2, <1>4, <2>1, <2>2, <2>3 DEF Told
<1>7. CASE Forward(p)
  <2> DEFINE h == Head(c.queue)
  <2>1. stream' = [stream EXCEPT ![p].queue = Tail(c.queue), ![p].wire = Append(c.wire, h)]
        /\ c.queue # <<>> /\ UNCHANGED heard
    BY <1>7 DEF Forward
  <2>2. stream'[p].queue = Tail(c.queue) /\ stream'[p].wire = Append(c.wire, h)
    BY <1>1, <2>1 DEF Types, StreamTypes, Channel
  <2>3. h \in Event
    BY <1>1, <2>1
  <2>4. Under(Tail(c.queue), w) => Under(c.queue, w)
    BY <1>1, <2>1, UnderTail
  <2>5. h.by = w /\ "state" \in h.about => Under(c.queue, w)
    BY <1>1, <2>1, UnderTail
  <2> HIDE DEF h
  <2>6. Under(Append(c.wire, h), w) => Under(c.wire, w) \/ (h.by = w /\ "state" \in h.about)
    BY <1>1, <2>3, UnderAppend
  <2> QED
    BY <1>2, <1>4, <2>1, <2>2, <2>4, <2>5, <2>6 DEF Told
<1>8. CASE Connect(p) \/ Disconnect(p)
  <2>1. UNCHANGED heard
    BY <1>8 DEF Connect, Disconnect, Close
  <2>2. stream'[p].wire = c.wire /\ (stream'[p].queue = c.queue \/ stream'[p].queue = <<>>)
    BY <1>1, <1>8 DEF Connect, Disconnect, Close, Types, StreamTypes, Channel
  <2>3. ~Under(<<>>, w)
    BY DEF Under
  <2> QED
    BY <1>2, <1>4, <2>1, <2>2, <2>3 DEF Told
<1> QED
  BY <1>5, <1>6, <1>7, <1>8 DEF Stream

(* The same over every step.                                               *)
LEMMA SettledStep ==
  ASSUME Types, NotOlder, Settled, [Next]_vars, NEW w \in Changers
  PROVE  (Behind(w)' \/ Told(w)' => InAnswer(w)') /\ Saved(w)'
<1>a. w \in Local /\ w \in Writers /\ w \notin Deletions /\ w \notin Foreign
  BY WritersAssumption DEF Changers, Local, Writers
<1>b. Saved(w) /\ (Behind(w) \/ Told(w) => InAnswer(w))
  BY DEF Settled
<1>c. ASSUME Behind(w)' => Behind(w), Told(w)' => Told(w) \/ Behind(w)
      PROVE  Behind(w)' \/ Told(w)' => InAnswer(w)'
  BY <1>b, <1>c, InAnswerKept
<1>d. "state" \in Kinds /\ \A k \in Kinds : file[k] \in SUBSET Writers
  BY DEF Kinds, Types, FileTypes, Content
<1>e. ASSUME writer'[w] = writer[w], Told(w)' => Told(w), file["state"] \subseteq file'["state"]
      PROVE  (Behind(w)' \/ Told(w)' => InAnswer(w)') /\ Saved(w)'
  <2>1. (Behind(w)' => Behind(w)) /\ Saved(w)'
    BY <1>b, <1>e DEF Behind, Saved, At
  <2> QED
    BY <1>c, <1>e, <2>1
<1>1. ASSUME NEW v \in Local, Handler(v) \/ Deletion(v) \/ Run(v)
      PROVE  (Behind(w)' \/ Told(w)' => InAnswer(w)') /\ Saved(w)'
  <2>1. /\ UNCHANGED <<heard, stream, req>> /\ file["state"] \subseteq file'["state"]
        /\ UNCHANGED mu
    BY <1>1, <1>d, WriterEffect DEF webVars
  <2>2. Told(w)' => Told(w)
    BY <2>1 DEF Told
  <2>3. CASE v # w
    <3>1. writer'[w] = writer[w]
      BY <1>1, <1>a, <2>3, WriterMoves DEF Moves
    <3> QED
      BY <1>e, <2>1, <2>2, <3>1
  <2>4. CASE v = w
    <3>1. Handler(w) \/ Run(w)
      BY <1>a, <1>1, <2>4 DEF Deletion, DeleteChat, DropHashes, InvalidateHashes
    <3>2. /\ Behind(w)' => Behind(w) \/ (Invalidate /\ w \in file["state"])
          /\ Saved(w)'
      BY <1>b, <3>1, ChangerStep
    <3>3. CASE Invalidate /\ w \in file["state"]
      <4>1. \A q \in Requests : req'[q].pc # "stat"
        BY <2>1, <3>3, WritersAssumption DEF Invalidate, NotOlder
      <4>2. cache'["state"] = Nothing
        BY <3>3, <1>d DEF Invalidate, NoEntry
      <4> QED
        BY <2>1, <3>2, <3>3, <4>1, <4>2 DEF InAnswer
    <3>4. CASE Behind(w)' => Behind(w)
      BY <1>c, <2>2, <3>2, <3>4
    <3> QED
      BY <3>2, <3>3, <3>4
  <2> QED
    BY <2>3, <2>4
<1>2. ASSUME NEW v \in Local, Published(v)
      PROVE  (Behind(w)' \/ Told(w)' => InAnswer(w)') /\ Saved(w)'
  <2>1. UNCHANGED <<file, heard, stream>>
    BY <1>2 DEF Published, webVars
  <2>2. Told(w)' => Told(w)
    BY <2>1 DEF Told
  <2>3. CASE v # w
    <3>1. writer'[w] = writer[w]
      BY <1>2, <1>a, <2>3, PublishedTypes DEF Types
    <3> QED
      BY <1>e, <2>1, <2>2, <3>1
  <2>4. CASE v = w
    <3>1. writer[w].then \in After
      BY <1>a DEF Types, WriterTypes, Writer
    <3>2. writer'[w].pc \in After
      BY <1>2, <2>4, <3>1, PublishedTypes DEF Types
    <3>3. ~Behind(w)' /\ Saved(w)'
      BY <3>2 DEF Behind, Saved, At, After
    <3> QED
      BY <1>c, <2>2, <3>3
  <2> QED
    BY <2>3, <2>4
<1>3. ASSUME NEW v \in Local, NEW p \in Pages, Send(v, p)
      PROVE  (Behind(w)' \/ Told(w)' => InAnswer(w)') /\ Saved(w)'
  <2>1. /\ writer'[w].pc = writer[w].pc /\ writer'[w].event = writer[w].event
        /\ writer'[w].how = writer[w].how /\ UNCHANGED <<file, heard>>
    BY <1>3, <1>a, SendTypes DEF Types, Send
  <2>2. (Behind(w)' => Behind(w)) /\ Saved(w)'
    BY <1>b, <2>1 DEF Behind, Saved, At
  <2>3. ASSUME Told(w)', ~Told(w)
        PROVE  Behind(w)
    <3> DEFINE e == writer[v].event
    <3>1. /\ stream'[p].wire = stream[p].wire
          /\ \/ stream'[p].queue = stream[p].queue
             \/ stream'[p].queue = Append(stream[p].queue, e)
          /\ \A o \in Pages \ {p} : stream'[o] = stream[o]
      BY <1>3, SendChannel DEF Types
    <3>2. At(v, "publishing") /\ e \in Event /\ e.by = v
      BY <1>3 DEF Send, Types, WriterTypes
    <3>3. stream[p].queue \in Seq(Event)
      BY DEF Types, StreamTypes, Channel
    <3> HIDE DEF e
    <3>4. Under(Append(stream[p].queue, e), w) /\ ~Under(stream[p].queue, w)
      BY <2>1, <2>3, <3>1 DEF Told
    <3>5. e.by = w /\ "state" \in e.about
      BY <3>2, <3>3, <3>4, UnderAppend
    <3> QED
      BY <3>2, <3>5 DEF Behind, e
  <2> QED
    BY <1>c, <2>2, <2>3
<1>4. ASSUME NEW f \in Foreign, ForeignRun(f)
      PROVE  (Behind(w)' \/ Told(w)' => InAnswer(w)') /\ Saved(w)'
  <2>1. file["state"] \subseteq file'["state"]
    BY <1>4, <1>d DEF ForeignRun, Save, Types, FileTypes, Content
  <2>2. writer'[w] = writer[w]
    BY <1>4, <1>a DEF ForeignRun, Goto, Types, WriterTypes
  <2>3. Told(w)' => Told(w)
    BY <1>4 DEF ForeignRun, webVars, Told
  <2> QED
    BY <1>e, <2>1, <2>2, <2>3
<1>5. ASSUME NEW q, Reload(q) \/ Request(q)
      PROVE  (Behind(w)' \/ Told(w)' => InAnswer(w)') /\ Saved(w)'
  <2>1. UNCHANGED <<writer, heard, stream, file>>
    BY <1>5 DEF Reload, Request, Look, Load, Stat, Arrive, Fail, Answer
  <2>2. Told(w)' => Told(w)
    BY <2>1 DEF Told
  <2> QED
    BY <1>e, <2>1, <2>2
<1>6. ASSUME NEW p \in Pages, Stream(p)
      PROVE  (Behind(w)' \/ Told(w)' => InAnswer(w)') /\ Saved(w)'
  <2>1. UNCHANGED <<writer, file>>
    BY <1>6 DEF Stream, Connect, Disconnect, Close, Forward, Hear, Ignore
  <2>2. Told(w)' => Told(w)
    BY <1>6, StreamTold
  <2> QED
    BY <1>e, <2>1, <2>2
<1>7. CASE UNCHANGED vars
  <2>1. Told(w)' => Told(w)
    BY <1>7 DEF vars, webVars, Told
  <2> QED
    BY <1>7, <1>e, <2>1 DEF vars
<1> QED
  BY <1>1, <1>2, <1>3, <1>4, <1>5, <1>6, <1>7 DEF Next

(* What a page has heard of it does not forget.                            *)
LEMMA KnownKept ==
  ASSUME Types, [Next]_vars, NEW w, Known(w)
  PROVE  Known(w)'
<1>1. CASE UNCHANGED heard
  BY <1>1 DEF Known
<1>2. ASSUME NEW p \in Pages, Hear(p)
      PROVE  Known(w)'
  <2>1. PICK o \in Pages : w \in heard[o]["state"]
    BY DEF Known
  <2>2. "state" \in Kinds
    BY DEF Kinds
  <2>3. /\ heard'[p]["state"] =
             IF "state" \in Head(stream[p].wire).about
             THEN heard[p]["state"] \cup {Head(stream[p].wire).by} ELSE heard[p]["state"]
        /\ \A x \in Pages \ {p} : heard'[x] = heard[x]
    BY <1>2, <2>2, HearTypes
  <2>4. heard[o]["state"] \subseteq heard'[o]["state"]
    BY <2>3
  <2> QED
    BY <2>1, <2>4 DEF Known
<1>3. ASSUME NEW v \in Local, Handler(v) \/ Deletion(v) \/ Run(v)
      PROVE  UNCHANGED heard
  BY <1>3, WriterEffect DEF webVars
<1>4. ASSUME NEW v, \/ Published(v) \/ ForeignRun(v) \/ Reload(v) \/ Request(v)
                    \/ \E p \in Pages : Send(v, p)
      PROVE  UNCHANGED heard
  BY <1>4 DEF Published, Send, ForeignRun, webVars, Reload, Request, Look, Load, Stat,
     Arrive, Fail, Answer
<1>5. ASSUME NEW p, Stream(p), ~Hear(p)
      PROVE  UNCHANGED heard
  BY <1>5 DEF Stream, Connect, Disconnect, Close, Forward, Ignore
<1>6. ASSUME UNCHANGED vars PROVE UNCHANGED heard
  BY <1>6 DEF vars, webVars
<1> QED
  BY <1>1, <1>2, <1>3, <1>4, <1>5, <1>6 DEF Next

(* What a load has been answered, and what it knows, stays with it.        *)
LEMMA LoadKept ==
  ASSUME Types, Kept, [Next]_vars, NEW r \in Requests,
         NEW w \in Changers, w \in req'[r].since["state"],
         req'[r].since = req[r].since,
         req'[r].pc = "answered" \/ req'[r].kind = "history"
           => \/ w \in req'[r].data["state"]
              \/ /\ req[r].pc = "answered" \/ req[r].kind = "history"
                 /\ req'[r].data["state"] = req[r].data["state"]
  PROVE  /\ Known(w)'
         /\ req'[r].pc = "answered" \/ req'[r].kind = "history"
            => w \in req'[r].data["state"]
<1>1. /\ Known(w)
      /\ req[r].pc = "answered" \/ req[r].kind = "history" => w \in req[r].data["state"]
  BY DEF Kept
<1> QED
  BY <1>1, KnownKept

(* Over every step.                                                        *)
LEMMA KeptStep ==
  ASSUME Types, NotOlder, Settled, Kept, [Next]_vars
  PROVE  Kept'
<1> SUFFICES ASSUME NEW r \in Requests, NEW w \in req'[r].since["state"] \cap Changers
             PROVE  /\ Known(w)'
                    /\ req'[r].pc = "answered" \/ req'[r].kind = "history"
                       => w \in req'[r].data["state"]
  BY DEF Kept, Changers
<1> DEFINE Goal == /\ Known(w)'
                   /\ req'[r].pc = "answered" \/ req'[r].kind = "history"
                      => w \in req'[r].data["state"]
<1>0. w \in Changers /\ w \in req'[r].since["state"] /\ LoadTypes
  BY DEF Types
<1>a. ASSUME req'[r] = req[r] PROVE Goal
  BY <1>0, <1>a, LoadKept
<1>b. ASSUME NEW p \in Pages, req'[r].since = heard'[p],
             req'[r].pc = "look", req'[r].kind = "state"
      PROVE  Goal
  BY <1>b DEF Known
<1>1. ASSUME NEW q \in Requests, NEW d \in SUBSET Writers, r = q, Answer(q, d),
             req[q].pc # "free",
             req[q].kind = "state" /\ InAnswer(w) => w \in d
      PROVE  Goal
  <2>1. /\ req[q].kind \in Kinds /\ req'[q].since = req[q].since
        /\ req'[q].data = [req[q].data EXCEPT ![req[q].kind] = d]
    BY <1>1, AnswerTypes
  <2>2. Known(w)
    BY <1>0, <1>1, <2>1 DEF Kept
  <2>3. InAnswer(w)
    BY <1>0, <2>2 DEF Settled, Told, Known
  <2>4. req[q].data \in Content
    BY DEF Types, LoadTypes, Req
  <2>5. CASE req[q].kind = "state"
    <3>1. w \in req'[q].data["state"]
      BY <1>1, <2>1, <2>3, <2>4, <2>5 DEF Content
    <3> QED
      BY <1>0, <1>1, <2>1, <3>1, LoadKept
  <2>6. CASE req[q].kind = "history"
    <3>1. req'[q].data["state"] = req[q].data["state"]
      BY <2>1, <2>4, <2>6 DEF Content, Kinds
    <3> QED
      BY <1>0, <1>1, <2>1, <2>6, <3>1, LoadKept
  <2> QED
    BY <2>1, <2>5, <2>6 DEF Kinds
<1>2. ASSUME NEW q \in Requests, Look(q)
      PROVE  Goal
  <2>1. req[q].pc = "look" /\ req[q].kind \in Kinds
    BY <1>2 DEF Look, Types, LoadTypes, Req
  <2>2. CASE Hit(req[q].kind)
    <3> DEFINE d == cache[req[q].kind].data
    <3>1. Answer(q, d) /\ cache[req[q].kind] # Nothing
      BY <1>2, <2>2 DEF Look, Hit
    <3>2. d \in SUBSET Writers
      BY <2>1, <3>1 DEF Types, FileTypes, Entry
    <3>3. req[q].kind = "state" /\ InAnswer(w) => w \in d
      BY <3>1 DEF InAnswer
    <3> HIDE DEF d
    <3>4. \A x \in Requests \ {q} : req'[x] = req[x]
      BY <2>1, <3>1, <3>2, AnswerTypes
    <3> QED
      BY <1>a, <1>1, <2>1, <3>1, <3>2, <3>3, <3>4
  <2>3. CASE ~Hit(req[q].kind)
    <3>1. req' = [req EXCEPT ![q].pc = "load"]
      BY <1>2, <2>3 DEF Look
    <3>2. /\ req'[q].pc = "load" /\ req'[q].kind = req[q].kind
          /\ req'[q].data = req[q].data /\ req'[q].since = req[q].since
          /\ \A x \in Requests \ {q} : req'[x] = req[x]
      BY <1>0, <2>1, <3>1, PlaceSet
    <3>3. CASE r = q
      BY <1>0, <3>2, <3>3, LoadKept
    <3> QED
      BY <1>a, <3>2, <3>3
  <2> QED
    BY <2>2, <2>3
<1>3. ASSUME NEW q \in Requests, Load(q)
      PROVE  Goal
  <2>1. /\ req'[q].pc = "stat" /\ req'[q].kind = req[q].kind
        /\ req'[q].data = req[q].data /\ req'[q].since = req[q].since
        /\ \A x \in Requests \ {q} : req'[x] = req[x]
    BY <1>3, LoadStep
  <2>2. CASE r = q
    BY <1>0, <2>1, <2>2, LoadKept
  <2> QED
    BY <1>a, <2>1, <2>2
<1>4. ASSUME NEW q \in Requests, Stat(q)
      PROVE  Goal
  <2> DEFINE d == req[q].read
  <2>1. d \in SUBSET Writers /\ req[q].pc = "stat" /\ Answer(q, d)
    BY <1>4 DEF Stat, Types, LoadTypes, Req
  <2>2. req[q].kind = "state" /\ InAnswer(w) => w \in d
    BY <2>1 DEF InAnswer
  <2> HIDE DEF d
  <2>3. \A x \in Requests \ {q} : req'[x] = req[x]
    BY <2>1, AnswerTypes
  <2> QED
    BY <1>a, <1>1, <2>1, <2>2, <2>3
<1>5. ASSUME NEW q \in Requests, Arrive(q) \/ Fail(q)
      PROVE  Goal
  <2>1. req' = [req EXCEPT ![q] = Free]
    BY <1>5 DEF Arrive, Fail
  <2>2. req'[q] = Free /\ \A x \in Requests \ {q} : req'[x] = req[x]
    BY <1>0, <2>1, FreeSet
  <2>3. Free.since["state"] = {}
    BY DEF Free, NoChange, Kinds
  <2>4. r # q
    BY <1>0, <2>2, <2>3
  <2> QED
    BY <1>a, <2>2, <2>4
<1>6. ASSUME NEW p \in Pages, Reload(p)
      PROVE  Goal
  <2>1. heard[p] \in Content /\ Ask(p, heard[p]) /\ heard' = heard
    BY <1>0, <1>6 DEF Reload, LoadTypes
  <2>2. PICK q \in Requests : /\ req'[q].pc = "look" /\ req'[q].kind = "state"
                              /\ req'[q].since = heard[p]
                              /\ \A x \in Requests \ {q} : req'[x] = req[x]
    BY <1>0, <2>1, AskTypes
  <2> QED
    BY <1>a, <1>b, <2>1, <2>2
<1>7. ASSUME NEW p \in Pages, Hear(p)
      PROVE  Goal
  <2>1. PICK q \in Requests : /\ req'[q].pc = "look" /\ req'[q].kind = "state"
                              /\ req'[q].since = heard'[p]
                              /\ \A x \in Requests \ {q} : req'[x] = req[x]
    BY <1>7, HearTypes
  <2> QED
    BY <1>a, <1>b, <2>1
<1>8. CASE UNCHANGED req
  BY <1>8, <1>a
<1>9. ASSUME NEW v \in Local, Handler(v) \/ Deletion(v) \/ Run(v)
      PROVE  UNCHANGED req
  BY <1>9, WriterEffect DEF webVars
<1>10. ASSUME NEW v, \/ Published(v) \/ ForeignRun(v)
                     \/ \E p \in Pages : Send(v, p)
      PROVE  UNCHANGED req
  BY <1>10 DEF Published, Send, ForeignRun, webVars
<1>11. ASSUME NEW p, Stream(p), ~Hear(p)
      PROVE  UNCHANGED req
  BY <1>11 DEF Stream, Connect, Disconnect, Close, Forward, Ignore
<1>12. ASSUME UNCHANGED vars PROVE UNCHANGED req
  BY <1>12 DEF vars, webVars
<1> QED
  BY <1>2, <1>3, <1>4, <1>5, <1>6, <1>7, <1>8, <1>9, <1>10, <1>11, <1>12
  DEF Next, Request

(* A load is answered with every change of state.json that the page had    *)
(* heard of when it began, however many loads are under way (cache.go,     *)
(* GetState; lifecycle.go and pipeline.go save, invalidate and publish in  *)
(* this order).                                                            *)
THEOREM HeardIsAnswered_always == Spec => []HeardIsAnswered
<1> DEFINE Inv == Types /\ NotOlder /\ Settled /\ Kept
<1>1. Init => Inv
  <2> SUFFICES ASSUME Init PROVE NotOlder /\ Settled /\ Kept
    BY InitTypes
  <2>1. \A w \in Writers : writer[w].pc \in {"idle", "away"}
    BY DEF Init, Fresh
  <2>2. \A p \in Pages : /\ heard[p]["state"] = {}
                         /\ stream[p].queue = <<>> /\ stream[p].wire = <<>>
    BY DEF Init, NoChange, Kinds, Closed
  <2>3. \A q \in Requests : req[q].pc = "free" /\ req[q].since["state"] = {}
    BY DEF Init, Free, NoChange, Kinds
  <2>4. NotOlder
    BY <2>3 DEF Init, NotOlder, NoChange, NoEntry
  <2>5. \A w : ~Told(w)
    BY <2>2 DEF Told, Under
  <2>6. Settled
    BY <2>1, <2>5 DEF Settled, Behind, Saved, At, Changers, Writers, Local
  <2> QED
    BY <2>3, <2>4, <2>6 DEF Kept
<1>2. Inv /\ [Next]_vars => Inv'
  <2> SUFFICES ASSUME Inv, [Next]_vars PROVE Inv'
    OBVIOUS
  <2>1. Types' /\ NotOlder' /\ Kept'
    BY StepTypes, NotOlderStep, KeptStep
  <2>2. Settled'
    BY SettledStep DEF Settled
  <2> QED
    BY <2>1, <2>2
<1>3. Inv => HeardIsAnswered
  BY DEF HeardIsAnswered, Answered, Kept, Changers
<1> QED
  BY <1>1, <1>2, <1>3, PTL DEF Spec
=============================================================================
