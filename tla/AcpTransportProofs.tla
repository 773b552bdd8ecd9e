------------------------- MODULE AcpTransportProofs -------------------------
(***************************************************************************)
(* Proofs about AcpTransport, for any number of sessions and any pipes.    *)
(*                                                                         *)
(* NoStrandedCall needs that a call which waits without an answer is among *)
(* the pending ones (Filed), and that the flag is never set behind the     *)
(* back of one: either the reader sets it and wakes them, or nobody is in  *)
(* a call (Shutdown).  TextIsWhole needs that the chunks a stream has not  *)
(* taken are in stdout, in front of the answer (Counted).                  *)
(***************************************************************************)
EXTENDS AcpTransport, FiniteSetTheorems, TLAPS

Places == {"idle", "store", "lock", "write", "wait", "leave", "done",
           "read", "waking", "ended"}
Calls  == Senders \X Methods
Line   == [kind : Answers \cup {"chunk", "ask"}, of : Calls]

Types ==
  /\ provider \in {"new", "starting", "started", "failing", "reaping", "closed"}
  /\ closed \in BOOLEAN /\ stdinOpen \in BOOLEAN
  /\ pending \in SUBSET (Callers \X Methods)
  /\ encMu \in Senders \cup {NoOne}
  /\ at \in [Senders -> Places] /\ doing \in [Senders -> Methods]
  /\ doing[Reader] = "permit"
  /\ reply \in [Callers -> Answers \cup {Nothing}]
  /\ ctx \in [Callers -> BOOLEAN]
  /\ streams \in [Runs -> Nat \cup {Nothing}]
  /\ text \in [Runs -> Nat \cup {Nothing, Failed}]
  /\ process \in {"none", "up", "gone"} /\ got \in SUBSET Calls /\ says \in Nat
  /\ sent \in [Runs -> Nat]
  /\ stdin \in Seq(Calls) /\ Len(stdin) <= InCap
  /\ stdout \in Seq(Line) /\ Len(stdout) <= OutCap

(* The initial values have their types.                                    *)
LEMMA InitTypes == Init => Types
<1> SUFFICES ASSUME Init PROVE Types
    OBVIOUS
<1>1. /\ at \in [Senders -> Places] /\ doing \in [Senders -> Methods]
      /\ reply \in [Callers -> Answers \cup {Nothing}] /\ ctx \in [Callers -> BOOLEAN]
      /\ doing[Reader] = "permit"
      /\ streams \in [Runs -> Nat \cup {Nothing}]
      /\ text \in [Runs -> Nat \cup {Nothing, Failed}] /\ sent \in [Runs -> Nat]
  BY DEF Init, Places, Methods, Senders
<1>2. /\ stdin \in Seq(Calls) /\ Len(stdin) <= InCap
      /\ stdout \in Seq(Line) /\ Len(stdout) <= OutCap /\ says \in Nat
  BY BoundsAssumption DEF Init
<1> QED
  BY <1>1, <1>2 DEF Init, Types

(* A sender that goes elsewhere.                                           *)
LEMMA GotoTypes ==
  ASSUME Types, NEW s \in Senders, NEW place \in Places, Goto(s, place)
  PROVE  /\ at' \in [Senders -> Places] /\ at'[s] = place
         /\ \A q \in Senders \ {s} : at'[q] = at[q]
  BY DEF Types, Goto

(* A call that begins.                                                     *)
LEMMA AskTypes ==
  ASSUME Types, NEW s \in Senders, NEW m \in Methods, Ask(s, m)
  PROVE  /\ at' \in [Senders -> Places] /\ at'[s] = "store"
         /\ doing' \in [Senders -> Methods] /\ doing'[s] = m
         /\ \A q \in Senders \ {s} : at'[q] = at[q] /\ doing'[q] = doing[q]
  BY DEF Types, Ask, Goto, Places

(* The end of a send.                                                      *)
LEMMA SentTypes ==
  ASSUME Types, NEW s \in Senders, Sent(s) \/ Unsent(s)
  PROVE  /\ at' \in [Senders -> Places]
         /\ reply' \in [Callers -> Answers \cup {Nothing}]
         /\ \A q \in Senders \ {s} : at'[q] = at[q]
         /\ \A q \in Callers \ {s} : reply'[q] = reply[q]
         /\ \/ s = Reader /\ at'[s] = "read" /\ reply' = reply
            \/ s # Reader /\ doing[s] = "cancel" /\ at'[s] = "done" /\ reply' = reply
            \/ s # Reader /\ doing[s] # "cancel" /\ at'[s] = "wait" /\ Sent(s)
            \/ s # Reader /\ doing[s] # "cancel" /\ at'[s] = "leave" /\ Unsent(s)
               /\ reply'[s] = "error"
<1>1. PICK place \in {"read", "done", "wait", "leave"} : Goto(s, place)
  BY DEF Sent, Unsent
<1>2. /\ at' \in [Senders -> Places] /\ at'[s] = place
      /\ \A q \in Senders \ {s} : at'[q] = at[q]
  BY <1>1, GotoTypes DEF Places
<1>3. reply' = reply \/ (s # Reader /\ reply' = [reply EXCEPT ![s] = "error"])
  BY DEF Sent, Unsent
<1>4. /\ reply' \in [Callers -> Answers \cup {Nothing}]
      /\ \A q \in Callers \ {s} : reply'[q] = reply[q]
      /\ s # Reader => reply' = reply \/ reply'[s] = "error"
  BY <1>3 DEF Types, Answers, Senders
<1>5. CASE Sent(s)
  <2>1. /\ reply' = reply
        /\ at' = [at EXCEPT ![s] = CASE s = Reader -> "read"
                                     [] doing[s] = "cancel" -> "done"
                                     [] OTHER -> "wait"]
    BY <1>5 DEF Sent, Goto
  <2>2. at'[s] = IF s = Reader THEN "read"
                 ELSE IF doing[s] = "cancel" THEN "done" ELSE "wait"
    BY <2>1 DEF Types
  <2> QED
    BY <1>2, <1>4, <1>5, <2>1, <2>2
<1>6. CASE Unsent(s)
  <2>1. CASE s = Reader \/ doing[s] = "cancel"
    BY <1>5, <1>6, <2>1 DEF Unsent
  <2>2. CASE ~(s = Reader \/ doing[s] = "cancel")
    <3>1. at' = [at EXCEPT ![s] = "leave"] /\ reply' = [reply EXCEPT ![s] = "error"]
      BY <1>6, <2>2 DEF Unsent, Goto
    <3>2. at'[s] = "leave" /\ reply'[s] = "error"
      BY <2>2, <3>1 DEF Types, Senders
    <3> QED
      BY <1>2, <1>4, <1>6, <2>2, <3>2
  <2> QED
    BY <2>1, <2>2
<1> QED
  BY <1>5, <1>6

(* Names of callers are names of senders, and neither is the reader.       *)
LEMMA Names == /\ Runs \subseteq Callers /\ Callers \subseteq Senders
               /\ Owner \in Callers /\ Owner \notin Runs
               /\ Reader \in Senders /\ Reader \notin Callers
  BY NamesAssumption DEF Callers, Senders

(* The steps of a call.                                                    *)
LEMMA CallTypes ==
  ASSUME Types, NEW s \in Senders,
         Send(s) \/ (s \in Callers /\ CallOf(s))
  PROVE  Types'
<1> USE Names
<1>a. Call(s) \in Calls /\ (s \in Callers => Call(s) \in Callers \X Methods)
  BY DEF Types, Call, Calls
<1>1. CASE s \in Callers /\ Store(s)
  BY <1>a, <1>1, GotoTypes DEF Store, Types, Places, runVars, agentVars, pipeVars
<1>2. CASE Enter(s)
  <2>1. /\ UNCHANGED <<provider, closed, pending, doing, ctx, runVars, agentVars, pipeVars>>
        /\ encMu' \in Senders \cup {NoOne}
    BY <1>2 DEF Enter, Types
  <2>2. at' \in [Senders -> Places] /\ reply' \in [Callers -> Answers \cup {Nothing}]
    <3>1. CASE Unsent(s)
      BY <3>1, SentTypes
    <3>2. CASE Goto(s, "write") /\ UNCHANGED reply
      BY <3>2, GotoTypes DEF Places, Types
    <3> QED
      BY <1>2, <3>1, <3>2 DEF Enter
  <2> QED
    BY <2>1, <2>2 DEF Types, runVars, agentVars, pipeVars
<1>3. CASE Write(s)
  <2>1. /\ UNCHANGED <<provider, closed, pending, doing, ctx, runVars, agentVars,
                       stdinOpen, stdout>>
        /\ encMu' = NoOne
    BY <1>3 DEF Write
  <2>2. at' \in [Senders -> Places] /\ reply' \in [Callers -> Answers \cup {Nothing}]
    BY <1>3, SentTypes DEF Write
  <2>3. stdin' \in Seq(Calls) /\ Len(stdin') <= InCap
    <3>1. CASE Len(stdin) < InCap /\ stdin' = Append(stdin, Call(s))
      BY <1>a, <3>1, BoundsAssumption DEF Types
    <3>2. CASE UNCHANGED stdin
      BY <3>2 DEF Types
    <3> QED
      BY <1>3, <3>1, <3>2 DEF Write, Call
  <2> QED
    BY <2>1, <2>2, <2>3 DEF Types, runVars, agentVars
<1>4. CASE s \in Callers /\ Receive(s)
  BY <1>4, GotoTypes DEF Receive, Types, Places, runVars, agentVars, pipeVars
<1>5. CASE s \in Callers /\ GiveUp(s)
  <2>1. reply' \in [Callers -> Answers \cup {Nothing}]
    BY <1>5 DEF GiveUp, Types, Answers
  <2> QED
    BY <1>5, <2>1, GotoTypes DEF GiveUp, Types, Places, runVars, agentVars, pipeVars
<1> QED
  BY <1>1, <1>2, <1>3, <1>4, <1>5 DEF CallOf, Send

(* The steps between the calls of a Run.                                   *)
LEMMA RunTypes ==
  ASSUME Types, NEW r \in Runs, Begin(r) \/ Session(r) \/ Expire(r)
  PROVE  Types'
<1> USE Names DEF Types
<1>a. r \in Senders /\ r # Reader
  BY Names
<1>b. ASSUME Leave(r)
      PROVE  /\ pending' \in SUBSET (Callers \X Methods)
             /\ reply' \in [Callers -> Answers \cup {Nothing}]
             /\ UNCHANGED <<provider, closed, encMu, ctx, agentVars, pipeVars>>
  BY <1>b DEF Leave
<1>c. ASSUME NEW m \in Methods, Ask(r, m)
      PROVE  /\ at' \in [Senders -> Places] /\ doing' \in [Senders -> Methods]
             /\ doing'[Reader] = "permit"
  BY <1>a, <1>c, AskTypes
<1>d. ASSUME NEW place \in Places, Goto(r, place)
      PROVE  at' \in [Senders -> Places]
  BY <1>a, <1>d, GotoTypes
<1>1. CASE Begin(r)
  BY <1>1, <1>c, <1>d DEF Begin, Methods, Places, agentVars, pipeVars
<1>2. CASE NoSession(r)
  BY <1>2, <1>b, <1>d DEF NoSession, Places, agentVars, pipeVars
<1>3. CASE Tune(r)
  BY <1>3, <1>b, <1>c DEF Tune, Methods, runVars, agentVars, pipeVars
<1>4. CASE Prompt(r)
  <2>1. streams' \in [Runs -> Nat \cup {Nothing}]
    BY <1>4 DEF Prompt
  <2> QED
    BY <1>4, <2>1, <1>b, <1>c DEF Prompt, Methods, agentVars, pipeVars
<1>5. CASE Finish(r)
  <2>1. streams' \in [Runs -> Nat \cup {Nothing}] /\ text' \in [Runs -> Nat \cup {Nothing, Failed}]
    BY <1>5 DEF Finish
  <2>2. doing' \in [Senders -> Methods] /\ doing'[Reader] = "permit"
    BY <1>5, <1>a DEF Finish, Methods
  <2>3. at' \in [Senders -> Places]
    BY <1>5, <1>d DEF Finish, Places
  <2> QED
    BY <1>5, <2>1, <2>2, <2>3, <1>b DEF Finish, agentVars, pipeVars
<1>6. CASE Expire(r)
  BY <1>6 DEF Expire, runVars, agentVars, pipeVars
<1> QED
  BY <1>1, <1>2, <1>3, <1>4, <1>5, <1>6 DEF Session

(* Those of the owner, of the process and of its context.                  *)
LEMMA OwnTypes ==
  ASSUME Types, Start \/ Started \/ Shut \/ Reap \/ ContextEnds \/ Kill
  PROVE  Types'
<1> USE Names DEF Types, runVars, agentVars, pipeVars
<1>a. Dies => /\ process' = "gone" /\ stdin' \in Seq(Calls) /\ Len(stdin') <= InCap
              /\ got' \in SUBSET Calls /\ UNCHANGED <<says, sent>>
  BY BoundsAssumption DEF Dies
<1>1. CASE Start
  <2>1. at' \in [Senders -> Places]
    BY <1>1 DEF Start, Places
  <2>2. doing' \in [Senders -> Methods] /\ doing'[Reader] = "permit"
    BY <1>1 DEF Start, Methods
  <2>3. /\ UNCHANGED <<closed, pending, encMu, reply, ctx, runVars, got, says, sent, pipeVars>>
        /\ provider' \in {"starting", "closed"} /\ process' \in {"up", process}
    BY <1>1 DEF Start
  <2> QED
    BY <2>1, <2>2, <2>3
<1>2. CASE Started
  <2>1. at' \in [Senders -> Places]
    BY <1>2, GotoTypes DEF Started, Places
  <2>2. ctx' \in [Callers -> BOOLEAN] /\ reply' \in [Callers -> Answers \cup {Nothing}]
    BY <1>2 DEF Started
  <2>3. /\ UNCHANGED <<closed, encMu, doing, runVars, agentVars, pipeVars>>
        /\ pending' \subseteq pending /\ provider' \in {"started", "failing"}
    BY <1>2 DEF Started
  <2> QED
    BY <2>1, <2>2, <2>3
<1>3. CASE Shut
  BY <1>3 DEF Shut
<1>4. CASE Reap
  BY <1>4, <1>a DEF Reap
<1>5. CASE ContextEnds
  <2>1. ctx' \in [Callers -> BOOLEAN]
    BY <1>5 DEF ContextEnds
  <2> QED
    BY <1>5, <2>1 DEF ContextEnds
<1>6. CASE Kill
  BY <1>6, <1>a DEF Kill
<1> QED
  BY <1>1, <1>2, <1>3, <1>4, <1>5, <1>6

(* Those of the reader.                                                    *)
LEMMA ReaderTypes ==
  ASSUME Types, ReadAnswer \/ ReadChunk \/ ReadAsk \/ HangUp \/ Wake
  PROVE  Types'
<1> USE Names DEF Types, runVars, agentVars, pipeVars
<1>a. ASSUME NEW kinds, Reading(kinds)
      PROVE  /\ stdout' \in Seq(Line) /\ Len(stdout') <= OutCap
             /\ Head(stdout) \in Line /\ Head(stdout).kind \in kinds
  BY <1>a, BoundsAssumption DEF Reading
<1>1. CASE ReadAnswer
  <2>1. reply' \in [Callers -> Answers \cup {Nothing}]
    BY <1>1, <1>a DEF ReadAnswer
  <2> QED
    BY <1>1, <1>a, <2>1 DEF ReadAnswer
<1>2. CASE ReadChunk
  <2>1. streams' \in [Runs -> Nat \cup {Nothing}]
    <3> DEFINE r == Head(stdout).of[1]
               n == streams[r] + 1
    <3>1. streams' = streams \/ (streams[r] # Nothing /\ streams' = [streams EXCEPT ![r] = n])
      BY <1>2 DEF ReadChunk
    <3>2. r \in Runs /\ streams[r] # Nothing => n \in Nat
      OBVIOUS
    <3> HIDE DEF n, r
    <3> QED
      BY <3>1, <3>2
  <2> QED
    BY <1>2, <1>a, <2>1 DEF ReadChunk
<1>3. CASE ReadAsk
  BY <1>3, <1>a, GotoTypes DEF ReadAsk, Places
<1>4. CASE HangUp
  <2>1. at' \in [Senders -> Places]
    BY <1>4, GotoTypes DEF HangUp, Places
  <2>2. stdout' \in Seq(Line) /\ Len(stdout') <= OutCap
    BY <1>4, BoundsAssumption DEF HangUp
  <2> QED
    BY <1>4, <2>1, <2>2 DEF HangUp
<1>5. CASE Wake
  <2>1. reply' \in [Callers -> Answers \cup {Nothing}]
    BY <1>5 DEF Wake, Answers
  <2> QED
    BY <1>5, <2>1, GotoTypes DEF Wake, Places
<1> QED
  BY <1>1, <1>2, <1>3, <1>4, <1>5

(* Those of the agent.                                                     *)
LEMMA AgentTypes ==
  ASSUME Types, Agent
  PROVE  Types'
<1> USE Names DEF Types, runVars, agentVars, pipeVars, Rest
<1>a. ASSUME NEW kind \in Answers \cup {"chunk", "ask"}, NEW c \in Calls, Say(kind, c)
      PROVE  stdout' \in Seq(Line) /\ Len(stdout') <= OutCap
  <2>1. [kind |-> kind, of |-> c] \in Line
    BY DEF Line
  <2> QED
    BY <1>a, <2>1, BoundsAssumption DEF Say
<1>b. \A r \in Runs : <<r, "prompt">> \in Calls
  BY DEF Calls, Methods
<1>1. CASE AgentReads
  <2>1. /\ stdin' \in Seq(Calls) /\ Len(stdin') <= InCap /\ got' \in SUBSET Calls
    BY <1>1, BoundsAssumption DEF AgentReads
  <2> QED
    BY <1>1, <2>1 DEF AgentReads
<1>2. CASE AgentAnswers
  <2>1. stdout' \in Seq(Line) /\ Len(stdout') <= OutCap /\ got' \in SUBSET Calls
    BY <1>2, <1>a DEF AgentAnswers
  <2> QED
    BY <1>2, <2>1 DEF AgentAnswers
<1>3. ASSUME NEW r \in Runs, AgentTalks(r)
      PROVE  Types'
  <2>1. sent' \in [Runs -> Nat] /\ says' \in Nat
    BY <1>3 DEF AgentTalks
  <2> QED
    BY <1>3, <1>a, <1>b, <2>1 DEF AgentTalks
<1>4. ASSUME NEW r \in Runs, AgentAsks(r)
      PROVE  Types'
  <2>1. says' \in Nat
    BY <1>4 DEF AgentAsks
  <2> QED
    BY <1>4, <1>a, <1>b, <2>1 DEF AgentAsks
<1>5. CASE AgentExits
  BY <1>5, BoundsAssumption DEF AgentExits, Dies
<1> QED
  BY <1>1, <1>2, <1>3, <1>4, <1>5 DEF Agent

(* So every step keeps the types.                                          *)
LEMMA StepTypes == Types /\ [Next]_vars => Types'
<1> SUFFICES ASSUME Types, [Next]_vars PROVE Types'
    OBVIOUS
<1>1. ASSUME NEW r \in Runs, Run(r) \/ Expire(r) \/ Begin(r)
      PROVE  Types'
  BY <1>1, CallTypes, RunTypes, Names DEF Run
<1>2. CASE Own \/ Reap \/ ContextEnds \/ Kill \/ Shut
  BY <1>2, CallTypes, OwnTypes, Names DEF Own
<1>3. CASE ReadLoop
  BY <1>3, CallTypes, ReaderTypes, Names DEF ReadLoop
<1>4. CASE Agent
  BY <1>4, AgentTypes
<1>5. CASE UNCHANGED vars
  BY <1>5 DEF vars, runVars, agentVars, pipeVars, Types
<1> QED
  BY <1>1, <1>2, <1>3, <1>4, <1>5 DEF Next, Code

(* The types hold in every state, and TypeOK is among them.                *)
THEOREM TypeOK_always == Spec => []TypeOK
<1>1. Types => TypeOK
  BY DEF Types, TypeOK
<1> QED
  BY <1>1, InitTypes, StepTypes, PTL DEF Spec

-----------------------------------------------------------------------------
(* A call that has been stored is among the pending ones.  A call that is  *)
(* written or waits when the reader has ended has its answer.  The flag is *)
(* set while somebody is in a call by the reader only.                     *)
Hung      == at[Reader] \in {"waking", "ended"}
InCall(c) == at[c] \in {"write", "wait"} /\ doing[c] # "cancel"
Resting(c) == at[c] \in {"idle", "done"}

Filed(c) == /\ (InCall(c) \/ (at[c] = "lock" /\ doing[c] # "cancel"))
                 => Call(c) \in pending
            /\ at[c] = "wait" => doing[c] # "cancel"
            /\ at[c] = "store" => doing[c] # "cancel"
Woken(c) == at[Reader] = "ended" /\ InCall(c) => reply[c] # Nothing
Shutdown ==
  /\ provider = "new" => at[Reader] = "idle" /\ ~closed
  /\ provider # "starting" => at[Owner] = "idle"
  /\ provider \in {"new", "starting", "failing"} => \A r \in Runs : at[r] = "idle"
  /\ doing[Owner] # "cancel"
  /\ Hung => closed
Alone(c) == closed /\ ~Hung => Resting(c)

Held == Shutdown /\ \A c \in Callers : Filed(c) /\ Woken(c) /\ Alone(c)

(* What a step of c does to the other callers: nothing.                    *)
Apart(c) == /\ \A d \in Callers \ {c} :
                 /\ at'[d] = at[d] /\ doing'[d] = doing[d] /\ reply'[d] = reply[d]
                 /\ Call(d) \in pending => Call(d) \in pending'
            /\ at'[Reader] = at[Reader] /\ closed' = closed

(* Then what holds of them still does.                                     *)
LEMMA ApartHeld ==
  ASSUME Held, NEW c \in Callers, Apart(c), Shutdown', Filed(c)', Woken(c)', Alone(c)'
  PROVE  Held'
<1> SUFFICES ASSUME NEW d \in Callers \ {c}
             PROVE  Filed(d)' /\ Woken(d)' /\ Alone(d)'
    BY DEF Held
<1>1. Filed(d) /\ Woken(d) /\ Alone(d)
  BY DEF Held
<1>2. Call(d)' = Call(d)
  BY DEF Apart, Call
<1> QED
  BY <1>1, <1>2 DEF Apart, Filed, Woken, Alone, Hung, InCall, Resting

(* A step inside a call.                                                   *)
LEMMA CallHeld ==
  ASSUME Types, Held, NEW c \in Callers, CallOf(c)
  PROVE  Held'
<1> USE Names DEF runVars, agentVars, pipeVars
<1>a. /\ c \in Senders /\ c # Reader /\ Filed(c) /\ Woken(c) /\ Alone(c) /\ Shutdown
  BY DEF Held
<1>b. ASSUME NEW place \in Places, Goto(c, place)
      PROVE  at'[c] = place /\ \A q \in Senders \ {c} : at'[q] = at[q]
  BY <1>a, <1>b, GotoTypes
<1>0. at[c] \in {"store", "lock", "write", "wait"} /\ UNCHANGED <<provider, closed, doing>>
  BY DEF CallOf, Send, Store, Enter, Write, Receive, GiveUp
<1>c. ASSUME \A q \in Senders \ {c} : at'[q] = at[q],
             \A q \in Callers \ {c} : reply'[q] = reply[q],
             pending \subseteq pending'
      PROVE  Apart(c)
  BY <1>0, <1>a, <1>c DEF Apart
<1>d. /\ c \in Runs => provider \notin {"new", "starting", "failing"}
      /\ c = Owner => provider = "starting"
      /\ closed => Hung
  BY <1>0, <1>a DEF Shutdown, Alone, Resting
<1>e. ASSUME \A q \in Senders \ {c} : at'[q] = at[q]
      PROVE  Shutdown' /\ Alone(c)'
  BY <1>0, <1>a, <1>d, <1>e DEF Shutdown, Alone, Hung, Callers
<1>1. CASE Store(c)
  <2>1. at'[c] = "lock" /\ (\A q \in Senders \ {c} : at'[q] = at[q])
    BY <1>1, <1>b DEF Store, Places
  <2>2. pending' = pending \cup {Call(c)} /\ UNCHANGED <<reply, doing>>
    BY <1>1 DEF Store
  <2>3. Filed(c)' /\ Woken(c)'
    BY <2>1, <2>2 DEF Filed, Woken, InCall, Call
  <2> QED
    BY <1>c, <1>e, <2>1, <2>2, <2>3, ApartHeld
<1>2. CASE Enter(c)
  <2>1. UNCHANGED <<pending, doing>> /\ at[c] = "lock"
    BY <1>2 DEF Enter
  <2>2. CASE closed /\ Unsent(c)
    <3>1. /\ \A q \in Senders \ {c} : at'[q] = at[q]
          /\ \A q \in Callers \ {c} : reply'[q] = reply[q]
      BY <1>a, <2>2, SentTypes
    <3>2. \/ at'[c] = "done"
          \/ at'[c] = "leave"
      BY <1>a, <2>2, <1>b DEF Unsent, Sent, Places
    <3>3. Filed(c)' /\ Woken(c)'
      BY <3>2 DEF Filed, Woken, InCall
    <3> QED
      BY <1>c, <1>e, <2>1, <3>1, <3>3, ApartHeld
  <2>3. CASE ~closed /\ Goto(c, "write") /\ UNCHANGED reply
    <3>1. at'[c] = "write" /\ (\A q \in Senders \ {c} : at'[q] = at[q])
      BY <2>3, <1>b DEF Places
    <3>2. Filed(c)' /\ Woken(c)'
      BY <1>a, <2>1, <2>3, <3>1 DEF Filed, Woken, InCall, Call, Shutdown, Hung
    <3> QED
      BY <1>c, <1>e, <2>1, <2>3, <3>1, <3>2, ApartHeld
  <2> QED
    BY <1>2, <2>2, <2>3 DEF Enter
<1>3. CASE Write(c)
  <2>1. UNCHANGED <<pending, doing>> /\ at[c] = "write" /\ (Sent(c) \/ Unsent(c))
    BY <1>3 DEF Write
  <2>2. /\ \A q \in Senders \ {c} : at'[q] = at[q]
        /\ \A q \in Callers \ {c} : reply'[q] = reply[q]
        /\ \/ doing[c] = "cancel" /\ at'[c] = "done"
           \/ doing[c] # "cancel" /\ at'[c] = "wait" /\ Sent(c)
           \/ doing[c] # "cancel" /\ at'[c] = "leave"
    BY <1>a, <2>1, SentTypes
  <2>3. Sent(c) => reply' = reply
    BY DEF Sent
  <2>4. Filed(c)' /\ Woken(c)'
    BY <1>a, <2>1, <2>2, <2>3 DEF Filed, Woken, InCall, Call
  <2> QED
    BY <1>c, <1>e, <2>1, <2>2, <2>4, ApartHeld
<1>4. CASE Receive(c) \/ GiveUp(c)
  <2>1. at'[c] = "leave" /\ (\A q \in Senders \ {c} : at'[q] = at[q])
    BY <1>4, <1>b DEF Receive, GiveUp, Places
  <2>2. /\ UNCHANGED <<pending, doing>>
        /\ \A q \in Callers \ {c} : reply'[q] = reply[q]
    BY <1>4 DEF Receive, GiveUp, Types
  <2>3. Filed(c)' /\ Woken(c)'
    BY <2>1 DEF Filed, Woken, InCall
  <2> QED
    BY <1>c, <1>e, <2>1, <2>2, <2>3, ApartHeld
<1> QED
  BY <1>1, <1>2, <1>3, <1>4 DEF CallOf, Send

(* A step between the calls of a Run.                                      *)
LEMMA RunHeld ==
  ASSUME Types, Held, NEW r \in Runs, Begin(r) \/ Session(r) \/ Expire(r)
  PROVE  Held'
<1> USE Names DEF runVars, agentVars, pipeVars
<1>a. /\ r \in Callers /\ r \in Senders /\ r # Reader /\ r # Owner
      /\ Filed(r) /\ Woken(r) /\ Alone(r) /\ Shutdown
  BY DEF Held
<1>0. UNCHANGED <<provider, closed>>
  BY DEF Begin, Session, NoSession, Tune, Prompt, Finish, Leave, Expire
<1>b. ASSUME NEW place \in {"done", "lock"}, Goto(r, place)
      PROVE  at'[r] = place /\ \A q \in Senders \ {r} : at'[q] = at[q]
  BY <1>a, <1>b, GotoTypes DEF Places
<1>c. ASSUME NEW m \in Methods, Ask(r, m)
      PROVE  /\ at'[r] = "store" /\ doing'[r] = m
             /\ \A q \in Senders \ {r} : at'[q] = at[q] /\ doing'[q] = doing[q]
  BY <1>a, <1>c, AskTypes
<1>d. ASSUME Leave(r)
      PROVE  /\ at[r] = "leave"
             /\ \A q \in Callers \ {r} :
                  reply'[q] = reply[q] /\ (Call(q) \in pending => Call(q) \in pending')
  BY <1>d DEF Leave, Types, Call
<1>e. ASSUME provider \notin {"new", "starting", "failing"},
             \A q \in Senders \ {r} : at'[q] = at[q] /\ doing'[q] = doing[q],
             at'[r] \in {"store", "lock", "done"},
             at'[r] = "done" \/ ~closed \/ Hung,
             at'[r] # "done" => (doing'[r] = "cancel" <=> at'[r] = "lock"),
             \A q \in Callers \ {r} :
               reply'[q] = reply[q] /\ (Call(q) \in pending => Call(q) \in pending')
      PROVE  Held'
  <2>1. Apart(r)
    BY <1>0, <1>a, <1>e DEF Apart
  <2>2. Shutdown'
    BY <1>0, <1>a, <1>e DEF Shutdown, Hung
  <2>3. Filed(r)' /\ Woken(r)' /\ Alone(r)'
    BY <1>0, <1>a, <1>e DEF Filed, Woken, Alone, InCall, Resting, Hung
  <2> QED
    BY <1>a, <2>1, <2>2, <2>3, ApartHeld
<1>1. CASE Begin(r)
  <2>1. UNCHANGED <<pending, reply>> /\ provider = "started"
    BY <1>1 DEF Begin
  <2>2. CASE closed /\ Goto(r, "done") /\ UNCHANGED doing
    BY <1>b, <1>e, <2>1, <2>2
  <2>3. CASE ~closed /\ Ask(r, "new")
    BY <1>c, <1>e, <2>1, <2>3 DEF Methods
  <2> QED
    BY <1>1, <2>2, <2>3 DEF Begin
<1>2. ASSUME Session(r)
      PROVE  Held'
  <2>1. Leave(r)
    BY <1>2 DEF Session, NoSession, Tune, Prompt, Finish
  <2>2. provider \notin {"new", "starting", "failing"} /\ (~closed \/ Hung)
    BY <1>a, <1>d, <2>1 DEF Shutdown, Alone, Resting
  <2>3. CASE NoSession(r)
    BY <1>b, <1>d, <1>e, <2>1, <2>2, <2>3 DEF NoSession
  <2>4. CASE Tune(r) \/ Prompt(r)
    BY <1>c, <1>d, <1>e, <2>1, <2>2, <2>4 DEF Tune, Prompt, Methods
  <2>5. CASE Finish(r)
    <3>1. /\ doing'[r] = "cancel" /\ at'[r] = "lock"
          /\ \A q \in Senders \ {r} : at'[q] = at[q] /\ doing'[q] = doing[q]
      BY <1>a, <1>b, <2>5 DEF Finish, Types
    <3> QED
      BY <1>d, <1>e, <2>1, <2>2, <3>1
  <2> QED
    BY <1>2, <2>3, <2>4, <2>5 DEF Session
<1>3. CASE Expire(r)
  BY <1>3 DEF Expire, Held, Shutdown, Hung, Filed, Woken, Alone, InCall, Resting, Call
<1> QED
  BY <1>1, <1>2, <1>3

(* A step of the owner, outside of its call, or of the process.            *)
LEMMA OwnHeld ==
  ASSUME Types, Held, Start \/ Started \/ Shut \/ Reap \/ ContextEnds \/ Kill
  PROVE  Held'
<1> USE Names DEF runVars, agentVars, pipeVars
<1>a. Shutdown /\ \A c \in Callers : Filed(c) /\ Woken(c) /\ Alone(c)
  BY DEF Held
<1>1. CASE Start
  <2>1. provider = "new" /\ UNCHANGED <<closed, pending, reply>>
    BY <1>1 DEF Start
  <2>2. at[Reader] = "idle" /\ ~closed /\ \A c \in Callers : at[c] = "idle"
    BY <1>a, <2>1 DEF Shutdown, Callers
  <2>3. CASE /\ provider' = "starting"
             /\ at' = [at EXCEPT ![Owner] = "store", ![Reader] = "read"]
             /\ doing' = [doing EXCEPT ![Owner] = "initialize"]
    <3>1. /\ at'[Owner] = "store" /\ at'[Reader] = "read" /\ doing'[Owner] = "initialize"
          /\ \A r \in Runs : at'[r] = "idle"
      BY <2>2, <2>3, NamesAssumption DEF Types
    <3>2. Shutdown' /\ ~Hung' /\ ~closed'
      BY <2>1, <2>2, <2>3, <3>1 DEF Shutdown, Hung
    <3>3. ASSUME NEW c \in Callers
          PROVE  Filed(c)' /\ Woken(c)' /\ Alone(c)'
      <4>1. at'[c] \in {"idle", "store"} /\ (at'[c] = "store" => doing'[c] # "cancel")
        BY <3>1 DEF Callers
      <4> QED
        BY <3>2, <4>1 DEF Filed, Woken, Alone, InCall, Hung
    <3> QED
      BY <3>2, <3>3 DEF Held
  <2>4. CASE provider' = "closed" /\ UNCHANGED <<at, doing>>
    BY <1>a, <2>1, <2>2, <2>4
    DEF Held, Shutdown, Hung, Filed, Woken, Alone, InCall, Callers
  <2> QED
    BY <1>1, <2>3, <2>4 DEF Start
<1>2. CASE Started
  <2>1. /\ at[Owner] = "leave" /\ UNCHANGED <<closed, doing>>
        /\ provider' \in {"started", "failing"}
        /\ at'[Owner] = "idle" /\ \A q \in Senders \ {Owner} : at'[q] = at[q]
    BY <1>2, GotoTypes DEF Started, Places
  <2>2. \A q \in Callers \ {Owner} :
          reply'[q] = reply[q] /\ (Call(q) \in pending => Call(q) \in pending')
    BY <1>2 DEF Started, Types, Call
  <2>3. Apart(Owner) /\ provider = "starting"
    BY <1>a, <2>1, <2>2 DEF Apart, Shutdown
  <2>4. Shutdown'
    BY <1>a, <2>1, <2>3, NamesAssumption DEF Shutdown, Hung
  <2>5. Filed(Owner)' /\ Woken(Owner)' /\ Alone(Owner)'
    BY <1>a, <2>1 DEF Filed, Woken, Alone, InCall, Resting, Hung
  <2> QED
    BY <2>3, <2>4, <2>5, ApartHeld
<1>3. CASE Shut
  <2>1. UNCHANGED <<pending, at, doing, reply>> /\ closed' = TRUE /\ provider' = "reaping"
    BY <1>3 DEF Shut
  <2>2. \A c \in Callers : Resting(c)
    BY <1>3, <1>a DEF Shut, Shutdown, Resting, Callers
  <2> QED
    BY <1>a, <1>3, <2>1, <2>2
    DEF Shut, Held, Shutdown, Hung, Filed, Woken, Alone, InCall, Resting, Call
<1>4. CASE Reap \/ ContextEnds \/ Kill
  <2>1. UNCHANGED <<pending, at, doing, reply, closed>>
        /\ (provider' = provider \/ (provider = "reaping" /\ provider' = "closed"))
    BY <1>4 DEF Reap, ContextEnds, Kill
  <2> QED
    BY <1>a, <2>1 DEF Held, Shutdown, Hung, Filed, Woken, Alone, InCall, Resting, Call
<1> QED
  BY <1>1, <1>2, <1>3, <1>4

(* A step of the reader.                                                   *)
LEMMA ReaderHeld ==
  ASSUME Types, Held, Send(Reader) \/ ReadAnswer \/ ReadChunk \/ ReadAsk \/ HangUp \/ Wake
  PROVE  Held'
<1> USE Names DEF runVars, agentVars, pipeVars
<1>a. Shutdown /\ \A c \in Callers : Filed(c) /\ Woken(c) /\ Alone(c)
  BY DEF Held
<1>b. ASSUME NEW place \in Places, Goto(Reader, place)
      PROVE  at'[Reader] = place /\ \A q \in Callers : at'[q] = at[q]
  BY <1>b, GotoTypes
<1>c. ASSUME at[Reader] \in {"read", "lock", "write"},
             at'[Reader] \notin {"waking", "ended"},
             \A q \in Callers : at'[q] = at[q],
             UNCHANGED <<provider, closed, pending, doing>>
      PROVE  Held'
  BY <1>a, <1>c DEF Held, Shutdown, Hung, Filed, Woken, Alone, InCall, Resting, Call
<1>1. CASE Send(Reader)
  <2>1. /\ at[Reader] \in {"lock", "write"}
        /\ UNCHANGED <<provider, closed, pending, doing>>
        /\ \/ Sent(Reader) \/ Unsent(Reader) \/ Goto(Reader, "write")
    BY <1>1 DEF Send, Enter, Write
  <2>2. at'[Reader] \in {"read", "write"} /\ \A q \in Callers : at'[q] = at[q]
    BY <1>b, <2>1, SentTypes DEF Places
  <2> QED
    BY <1>c, <2>1, <2>2
<1>2. CASE ReadAnswer \/ ReadChunk \/ ReadAsk
  <2>1. at[Reader] = "read" /\ UNCHANGED <<provider, closed, pending, doing>>
        /\ (at' = at \/ Goto(Reader, "lock"))
    BY <1>2 DEF ReadAnswer, ReadChunk, ReadAsk, Reading
  <2>2. at'[Reader] \in {"read", "lock"} /\ \A q \in Callers : at'[q] = at[q]
    BY <1>b, <2>1 DEF Places
  <2> QED
    BY <1>c, <2>1, <2>2
<1>3. CASE HangUp
  <2>1. /\ closed' = TRUE /\ at[Reader] = "read"
        /\ UNCHANGED <<provider, pending, doing, reply>>
        /\ at'[Reader] = (IF closed THEN "ended" ELSE "waking")
        /\ \A q \in Callers : at'[q] = at[q]
    BY <1>3, <1>b DEF HangUp, Places
  <2> QED
    BY <1>a, <2>1 DEF Held, Shutdown, Hung, Filed, Woken, Alone, InCall, Resting, Call
<1>4. CASE Wake
  <2>1. /\ at[Reader] = "waking" /\ at'[Reader] = "ended"
        /\ UNCHANGED <<provider, closed, pending, doing>>
        /\ \A q \in Callers : at'[q] = at[q]
    BY <1>4, <1>b DEF Wake, Places
  <2>2. \A c \in Callers : InCall(c) => reply'[c] # Nothing
    <3> SUFFICES ASSUME NEW c \in Callers, InCall(c) PROVE reply'[c] # Nothing
      OBVIOUS
    <3>1. Call(c) \in pending
      BY <1>a DEF Filed
    <3> QED
      BY <1>4, <3>1, NamesAssumption DEF Wake
  <2> QED
    BY <1>a, <2>1, <2>2 DEF Held, Shutdown, Hung, Filed, Woken, Alone, InCall, Resting, Call
<1> QED
  BY <1>1, <1>2, <1>3, <1>4

(* It holds at first.                                                      *)
LEMMA InitHeld == Init => Held
  BY Names DEF Init, Held, Shutdown, Hung, Filed, Woken, Alone, InCall, Resting

(* Every step keeps it.                                                    *)
LEMMA HeldStep == Types /\ Held /\ [Next]_vars => Held'
<1> SUFFICES ASSUME Types, Held, [Next]_vars PROVE Held'
    OBVIOUS
<1>1. CASE \E r \in Runs : Run(r) \/ Expire(r) \/ Begin(r)
  BY <1>1, CallHeld, RunHeld, Names DEF Run
<1>2. CASE Own \/ Reap \/ ContextEnds \/ Kill \/ Shut
  BY <1>2, CallHeld, OwnHeld, Names DEF Own
<1>3. CASE ReadLoop
  BY <1>3, ReaderHeld DEF ReadLoop
<1>4. CASE Agent
  <2>1. UNCHANGED <<provider, closed, pending, at, doing, reply>>
    BY <1>4 DEF Agent, AgentReads, AgentAnswers, AgentTalks, AgentAsks, AgentExits, Rest
  <2> QED
    BY <2>1 DEF Held, Shutdown, Hung, Filed, Woken, Alone, InCall, Resting, Call
<1>5. CASE UNCHANGED vars
  BY <1>5 DEF vars, Held, Shutdown, Hung, Filed, Woken, Alone, InCall, Resting, Call
<1> QED
  BY <1>1, <1>2, <1>3, <1>4, <1>5 DEF Next, Code

(* Once the reader has ended nobody waits for an answer that cannot come   *)
(* (transport.go, call, send and markClosed).                              *)
THEOREM NoStrandedCall_always == Spec => []NoStrandedCall
<1>1. Held => NoStrandedCall
  <2> SUFFICES ASSUME Held, at[Reader] = "ended", NEW c \in Callers, at[c] = "wait"
               PROVE  reply[c] # Nothing
    BY DEF NoStrandedCall
  <2>1. Filed(c) /\ Woken(c)
    BY DEF Held
  <2> QED
    BY <2>1 DEF Filed, Woken, InCall
<1> QED
  BY <1>1, InitHeld, HeldStep, InitTypes, StepTypes, PTL DEF Spec

-----------------------------------------------------------------------------
(* The prompt of a Run, where it is, and what is said about it.            *)
PromptOf(r)     == <<r, "prompt">>
Has(s, c)       == \E i \in 1 .. Len(s) : s[i] = c
Once(s, c)      == \A i, j \in 1 .. Len(s) : s[i] = c /\ s[j] = c => i = j
IsChunk(r, l)   == l.kind = "chunk" /\ l.of[1] = r
IsAnswer(r, l)  == l.kind \in Answers /\ l.of = PromptOf(r)
Chunks(r, s)    == {i \in 1 .. Len(s) : IsChunk(r, s[i])}
Answered(r, s)  == \E i \in 1 .. Len(s) : IsAnswer(r, s[i])
InOrder(r, s)   == \A i, j \in 1 .. Len(s) :
                     IsAnswer(r, s[i]) /\ IsChunk(r, s[j]) => j < i
Count(r, s)     == Cardinality(Chunks(r, s))

(* A call that is put at the end of stdin, or taken from its head.         *)
LEMMA InPipe ==
  ASSUME NEW s \in Seq(Calls), NEW c \in Calls
  PROVE  /\ \A e \in Calls : /\ Has(Append(s, e), c) <=> Has(s, c) \/ e = c
                             /\ Once(s, c) /\ ~(e = c /\ Has(s, c)) => Once(Append(s, e), c)
         /\ s # <<>> => /\ Has(Tail(s), c) => Has(s, c)
                        /\ Once(s, c) => Once(Tail(s), c)
                        /\ Once(s, c) /\ Head(s) = c => ~Has(Tail(s), c)
                        /\ Head(s) \in Calls /\ Has(s, Head(s))
<1>1. ASSUME NEW e \in Calls
      PROVE  /\ Has(Append(s, e), c) <=> Has(s, c) \/ e = c
             /\ Once(s, c) /\ ~(e = c /\ Has(s, c)) => Once(Append(s, e), c)
  <2>1. /\ Len(Append(s, e)) = Len(s) + 1 /\ Len(s) \in Nat
        /\ Append(s, e)[Len(s) + 1] = e
        /\ \A i \in 1 .. Len(s) : Append(s, e)[i] = s[i]
    OBVIOUS
  <2> DEFINE t == Append(s, e)
             n == Len(s)
  <2> HIDE DEF t, n
  <2>2. /\ Len(t) = n + 1 /\ n \in Nat /\ t[n + 1] = e
        /\ \A i \in 1 .. n : t[i] = s[i]
    BY <2>1 DEF t, n
  <2>3. Has(t, c) <=> Has(s, c) \/ e = c
    BY <2>2 DEF Has, n
  <2>4. Once(s, c) /\ ~(e = c /\ Has(s, c)) => Once(t, c)
    BY <2>2 DEF Once, Has, n
  <2> QED
    BY <2>3, <2>4 DEF t
<1>2. ASSUME s # <<>>
      PROVE  /\ Has(Tail(s), c) => Has(s, c)
             /\ Once(s, c) => Once(Tail(s), c)
             /\ Once(s, c) /\ Head(s) = c => ~Has(Tail(s), c)
             /\ Head(s) \in Calls /\ Has(s, Head(s))
  <2> DEFINE t == Tail(s)
             n == Len(s)
  <2>1. /\ Len(t) = n - 1 /\ n \in Nat \ {0} /\ Head(s) = s[1] /\ Head(s) \in Calls
        /\ \A i \in 1 .. n - 1 : t[i] = s[i + 1]
    BY <1>2
  <2> HIDE DEF t
  <2>2. Has(t, c) => Has(s, c)
    BY <2>1 DEF Has
  <2>3. Once(s, c) => Once(t, c)
    BY <2>1, SMTT(30) DEF Once
  <2>4. Once(s, c) /\ Head(s) = c => ~Has(t, c)
    BY <2>1 DEF Once, Has
  <2>5. Has(s, Head(s))
    BY <2>1 DEF Has
  <2> QED
    BY <2>1, <2>2, <2>3, <2>4, <2>5 DEF t
<1> QED
  BY <1>1, <1>2

(* The chunks in a pipe are counted by a number, zero when there are none. *)
LEMMA CountType ==
  ASSUME NEW s \in Seq(Line), NEW r
  PROVE  /\ IsFiniteSet(Chunks(r, s)) /\ Count(r, s) \in Nat
         /\ Count(r, s) = 0 <=> Chunks(r, s) = {}
<1>1. IsFiniteSet(1 .. Len(s)) /\ Chunks(r, s) \in SUBSET (1 .. Len(s))
  BY FS_Interval DEF Chunks
<1>2. IsFiniteSet(Chunks(r, s))
  BY <1>1, FS_Subset
<1> QED
  BY <1>2, FS_CardinalityType, FS_EmptySet DEF Count

(* One more line at the end of stdout.                                     *)
LEMMA OutAppend ==
  ASSUME NEW s \in Seq(Line), NEW e \in Line, NEW r
  PROVE  /\ Count(r, Append(s, e)) = Count(r, s) + (IF IsChunk(r, e) THEN 1 ELSE 0)
         /\ Answered(r, Append(s, e)) <=> Answered(r, s) \/ IsAnswer(r, e)
         /\ InOrder(r, s) /\ ~(IsChunk(r, e) /\ (Answered(r, s) \/ IsAnswer(r, e)))
              => InOrder(r, Append(s, e))
<1> DEFINE t == Append(s, e)
           n == Len(s)
<1>1. /\ Len(t) = n + 1 /\ n \in Nat /\ t[n + 1] = e
      /\ \A i \in 1 .. n : t[i] = s[i]
  OBVIOUS
<1> HIDE DEF t
<1>2. Chunks(r, t) = IF IsChunk(r, e) THEN Chunks(r, s) \cup {n + 1} ELSE Chunks(r, s)
  <2>1. \A i \in 1 .. n + 1 : i \in 1 .. n \/ i = n + 1
    BY <1>1
  <2> QED
    BY <1>1, <2>1 DEF Chunks
<1>3. n + 1 \notin Chunks(r, s)
  BY <1>1 DEF Chunks
<1>4. Count(r, t) = Count(r, s) + (IF IsChunk(r, e) THEN 1 ELSE 0)
  <2>1. Cardinality(Chunks(r, s) \cup {n + 1}) = Cardinality(Chunks(r, s)) + 1
    BY <1>3, CountType, FS_AddElement
  <2> QED
    BY <1>2, <2>1, CountType DEF Count
<1>5. Answered(r, t) <=> Answered(r, s) \/ IsAnswer(r, e)
  BY <1>1 DEF Answered
<1>6. InOrder(r, s) /\ ~(IsChunk(r, e) /\ (Answered(r, s) \/ IsAnswer(r, e)))
        => InOrder(r, t)
  BY <1>1 DEF InOrder, Answered
<1> QED
  BY <1>4, <1>5, <1>6 DEF t

(* One line less at its head.                                              *)
LEMMA OutTail ==
  ASSUME NEW s \in Seq(Line), s # <<>>, NEW r
  PROVE  /\ Count(r, Tail(s)) = Count(r, s) - (IF IsChunk(r, Head(s)) THEN 1 ELSE 0)
         /\ Answered(r, Tail(s)) => Answered(r, s)
         /\ InOrder(r, s) => InOrder(r, Tail(s))
         /\ InOrder(r, s) /\ IsAnswer(r, Head(s)) => Count(r, s) = 0
         /\ IsAnswer(r, Head(s)) => Answered(r, s)
         /\ Head(s) \in Line
<1> DEFINE t == Tail(s)
           n == Len(s)
           A == Chunks(r, t)
           B == Chunks(r, s) \ {1}
<1>1. /\ Len(t) = n - 1 /\ n \in Nat \ {0} /\ Head(s) = s[1] /\ Head(s) \in Line
      /\ \A i \in 1 .. n - 1 : t[i] = s[i + 1]
      /\ t \in Seq(Line)
  OBVIOUS
<1> HIDE DEF t, n
<1>2. IsFiniteSet(A) /\ IsFiniteSet(Chunks(r, s))
  BY <1>1, CountType
<1>3. ExistsBijection(A, B)
  <2> DEFINE f == [i \in A |-> i + 1]
  <2>1. A = {i \in 1 .. n - 1 : IsChunk(r, s[i + 1])}
        /\ B = {i \in 2 .. n : IsChunk(r, s[i])}
    BY <1>1 DEF Chunks, n
  <2> HIDE DEF A, B
  <2>4. \A i \in A : i \in Nat /\ i + 1 \in B
    BY <1>1, <2>1
  <2>5. \A j \in B : j \in Nat \ {0} /\ j - 1 \in A
    BY <1>1, <2>1
  <2>2. f \in [A -> B] /\ \A i, j \in A : f[i] = f[j] => i = j
    BY <2>4
  <2>3. ASSUME NEW j \in B PROVE \E i \in A : f[i] = j
    BY <2>5
  <2> HIDE DEF A, B, f
  <2> QED
    BY <2>2, <2>3 DEF ExistsBijection, Bijection, Injection, Surjection, IsInjective
<1>4. Cardinality(A) = Cardinality(B)
  BY <1>2, <1>3, FS_Bijection
<1>5. Cardinality(B) = IF 1 \in Chunks(r, s) THEN Cardinality(Chunks(r, s)) - 1
                       ELSE Cardinality(Chunks(r, s))
  BY <1>2, FS_RemoveElement
<1>6. 1 \in Chunks(r, s) <=> IsChunk(r, Head(s))
  BY <1>1 DEF Chunks, n
<1>7. Count(r, t) = Count(r, s) - (IF IsChunk(r, Head(s)) THEN 1 ELSE 0)
  <2>1. Cardinality(Chunks(r, s)) \in Nat
    BY CountType DEF Count
  <2> QED
    BY <1>4, <1>5, <1>6, <2>1 DEF Count
<1>8. Answered(r, t) => Answered(r, s)
  BY <1>1 DEF Answered, n
<1>9. InOrder(r, s) => InOrder(r, t)
  BY <1>1 DEF InOrder, n
<1>10. InOrder(r, s) /\ IsAnswer(r, Head(s)) => Count(r, s) = 0
  <2> SUFFICES ASSUME InOrder(r, s), IsAnswer(r, Head(s)) PROVE Chunks(r, s) = {}
    BY CountType
  <2>1. \A j \in 1 .. n : ~IsChunk(r, s[j])
    BY <1>1 DEF InOrder, n
  <2> QED
    BY <2>1 DEF Chunks, n
<1>11. IsAnswer(r, Head(s)) => Answered(r, s)
  BY <1>1 DEF Answered, n
<1> QED
  BY <1>1, <1>7, <1>8, <1>9, <1>10, <1>11 DEF t

(* The prompt of r is in stdin or with the agent, once, or it has been     *)
(* answered after all that was said of it.                                 *)
Out(r) == Has(stdin, PromptOf(r)) \/ PromptOf(r) \in got
OnePrompt(r) ==
  /\ Once(stdin, PromptOf(r)) /\ ~(Has(stdin, PromptOf(r)) /\ PromptOf(r) \in got)
  /\ Answered(r, stdout) => ~Out(r)
  /\ InOrder(r, stdout)

(* Its pending call is the one it is about.                                *)
OwnCall(r) ==
  /\ \A m \in Methods : <<r, m>> \in pending
       => m = doing[r] /\ m # "cancel" /\ at[r] \in {"lock", "write", "wait", "leave"}
  /\ at[r] = "idle" => doing[r] = "permit"
  /\ at[r] = "store" => doing[r] # "cancel"

(* Nothing is said before the prompt is written; then the stream and the   *)
(* chunks in stdout are all that was said; and with a result, the stream.  *)
Early(r)     == at[r] \in {"store", "lock", "write"}
Before(r)    == doing[r] \notin {"prompt", "cancel"} \/ (doing[r] = "prompt" /\ Early(r))
Streaming(r) == doing[r] = "prompt" /\ ~Early(r)
Silent(r)    == /\ ~Out(r) /\ ~Answered(r, stdout)
                /\ Count(r, stdout) = 0 /\ sent[r] = 0
Counted(r) ==
  /\ Before(r) => Silent(r) /\ (doing[r] = "prompt" => streams[r] = 0 /\ reply[r] # "result")
  /\ Streaming(r) => /\ streams[r] \in Nat
                     /\ reply[r] = "result" => ~Out(r) /\ streams[r] = sent[r]
                     /\ ~Hung => streams[r] + Count(r, stdout) = sent[r]
  /\ doing[r] # "cancel" => text[r] \notin Nat
  /\ text[r] \in Nat => ~Out(r) /\ text[r] = sent[r]

Whole(r) == OnePrompt(r) /\ OwnCall(r) /\ Counted(r)

(* A step that is not about r: of its variables, the answer may become an  *)
(* error; of the pipes, its lines may be lost.                             *)
Elsewhere(r) ==
  /\ at'[r] = at[r] /\ doing'[r] = doing[r] /\ streams'[r] = streams[r]
  /\ text'[r] = text[r] /\ sent'[r] = sent[r]
  /\ reply'[r] = reply[r] \/ reply'[r] = "error"
  /\ Hung => Hung'
  /\ \A m \in Methods : <<r, m>> \in pending' => <<r, m>> \in pending
Fewer(r) ==
  /\ Has(stdin', PromptOf(r)) => Has(stdin, PromptOf(r))
  /\ Once(stdin, PromptOf(r)) => Once(stdin', PromptOf(r))
  /\ PromptOf(r) \in got' => PromptOf(r) \in got
  /\ Answered(r, stdout') => Answered(r, stdout)
  /\ InOrder(r, stdout) => InOrder(r, stdout')
  /\ Count(r, stdout') = Count(r, stdout) \/ (Hung' /\ Count(r, stdout') = 0)

(* Such a step changes nothing for r.                                      *)
LEMMA ElsewhereWhole ==
  ASSUME NEW r \in Runs, Whole(r), Elsewhere(r), Fewer(r)
  PROVE  Whole(r)'
<1>1. OnePrompt(r)' /\ (Out(r)' => Out(r))
  BY DEF Whole, OnePrompt, Fewer, Out, PromptOf
<1>2. OwnCall(r)'
  BY DEF Whole, OwnCall, Elsewhere
<1>3. /\ Before(r)' => Before(r)
      /\ Streaming(r)' => Streaming(r)
      /\ Silent(r) => Silent(r)'
  BY <1>1 DEF Elsewhere, Fewer, Before, Streaming, Early, Silent
<1>4. Counted(r)'
  BY <1>1, <1>3 DEF Whole, Counted, Elsewhere, Fewer
<1> QED
  BY <1>1, <1>2, <1>4 DEF Whole

(* The agent goes, with what it has not answered.                          *)
LEMMA Vanishes ==
  ASSUME NEW r \in Runs, Whole(r), Dies, UNCHANGED <<at, doing, reply, streams, text,
         pending, stdout>>
  PROVE  Whole(r)'
<1>1. Fewer(r) /\ Elsewhere(r)
  BY DEF Dies, Fewer, Has, Once, Elsewhere, Hung
<1> QED
  BY <1>1, ElsewhereWhole

(* The pipes are left alone, or another one writes.                        *)
LEMMA SamePipes ==
  ASSUME Types, NEW r \in Runs, UNCHANGED <<got, stdout>>,
         \/ UNCHANGED stdin
         \/ \E s \in Senders \ {r} : stdin' = Append(stdin, Call(s))
  PROVE  Fewer(r)
<1>1. CASE UNCHANGED stdin
  BY <1>1 DEF Fewer
<1>2. ASSUME NEW s \in Senders \ {r}, stdin' = Append(stdin, Call(s))
      PROVE  Fewer(r)
  <2>1. /\ Call(s) \in Calls /\ Call(s) # PromptOf(r) /\ stdin \in Seq(Calls)
        /\ PromptOf(r) \in Calls
    BY Names DEF Types, Call, Calls, PromptOf, Methods
  <2>2. /\ Has(stdin', PromptOf(r)) => Has(stdin, PromptOf(r))
        /\ Once(stdin, PromptOf(r)) => Once(stdin', PromptOf(r))
    BY <1>2, <2>1, InPipe
  <2> QED
    BY <2>2 DEF Fewer
<1> QED
  BY <1>1, <1>2

(* The steps of another sender.                                            *)
LEMMA OthersWhole ==
  ASSUME Types, NEW r \in Runs, Whole(r), NEW s \in Senders \ {r},
         \/ Send(s) \/ (s \in Callers /\ CallOf(s))
         \/ s \in Runs /\ (Begin(s) \/ Session(s) \/ Expire(s))
         \/ s = Owner /\ Started
  PROVE  Whole(r)'
<1> USE Names DEF runVars, agentVars, pipeVars
<1>a. r \in Senders /\ r \in Callers /\ r # s /\ (s = Reader \/ s \in Callers)
  BY DEF Senders
<1>b. ASSUME NEW place \in Places, Goto(s, place)
      PROVE  at'[r] = at[r] /\ (s # Reader => at'[Reader] = at[Reader])
             /\ (s = Reader => at'[s] = place)
  BY <1>a, <1>b, GotoTypes
<1>c. ASSUME Sent(s) \/ Unsent(s)
      PROVE  at'[r] = at[r] /\ (s # Reader => at'[Reader] = at[Reader]) /\ reply'[r] = reply[r]
  BY <1>a, <1>c, SentTypes
<1>d. ASSUME at'[r] = at[r], s # Reader => at'[Reader] = at[Reader],
             s = Reader => ~Hung,
             doing'[r] = doing[r], streams'[r] = streams[r],
             text'[r] = text[r], sent'[r] = sent[r], reply'[r] = reply[r],
             \A m \in Methods : <<r, m>> \in pending' => <<r, m>> \in pending,
             UNCHANGED <<got, stdout>>,
             UNCHANGED stdin \/ stdin' = Append(stdin, Call(s))
      PROVE  Whole(r)'
  <2>1. Elsewhere(r)
    BY <1>d DEF Elsewhere, Hung
  <2>2. Fewer(r)
    BY <1>d, SamePipes
  <2> QED
    BY <2>1, <2>2, ElsewhereWhole
<1>1. CASE Enter(s)
  <2>1. at[s] = "lock" /\ UNCHANGED <<doing, streams, text, sent, pending, got, stdout, stdin>>
        /\ (Unsent(s) \/ (Goto(s, "write") /\ UNCHANGED reply))
    BY <1>1 DEF Enter
  <2>2. at'[r] = at[r] /\ (s # Reader => at'[Reader] = at[Reader]) /\ reply'[r] = reply[r]
    BY <1>b, <1>c, <2>1 DEF Places
  <2> QED
    BY <1>d, <2>1, <2>2 DEF Hung
<1>2. CASE Write(s)
  <2>1. at[s] = "write" /\ UNCHANGED <<doing, streams, text, sent, pending, got, stdout>>
        /\ (Unsent(s) \/ Sent(s))
        /\ (UNCHANGED stdin \/ stdin' = Append(stdin, Call(s)))
    BY <1>2 DEF Write, Call
  <2> QED
    BY <1>c, <1>d, <2>1 DEF Hung
<1>3. CASE s \in Callers /\ (Store(s) \/ Receive(s) \/ GiveUp(s))
  <2>1. UNCHANGED <<doing, streams, text, sent, got, stdout, stdin>> /\ reply'[r] = reply[r]
        /\ s # Reader /\ (Goto(s, "lock") \/ Goto(s, "leave"))
        /\ pending' \subseteq pending \cup {Call(s)}
    BY <1>3, <1>a DEF Store, Receive, GiveUp, Types
  <2>2. \A m \in Methods : <<r, m>> \in pending' => <<r, m>> \in pending
    BY <1>a, <2>1 DEF Call
  <2> QED
    BY <1>b, <1>d, <2>1, <2>2 DEF Places
<1>4. CASE s \in Runs /\ (Begin(s) \/ Session(s))
  <2>1. /\ \/ Goto(s, "done") /\ doing' = doing
           \/ \E m \in Methods : Ask(s, m)
           \/ Goto(s, "lock") /\ doing' = [doing EXCEPT ![s] = "cancel"]
        /\ UNCHANGED <<agentVars, pipeVars>> /\ pending' \subseteq pending
        /\ reply'[r] = reply[r] /\ streams'[r] = streams[r] /\ text'[r] = text[r]
    BY <1>4, <1>a DEF Begin, Session, NoSession, Tune, Prompt, Finish, Leave, Types,
       Methods
  <2>2. s # Reader /\ at'[r] = at[r] /\ at'[Reader] = at[Reader] /\ doing'[r] = doing[r]
    BY <1>4, <1>a, <1>b, <2>1, AskTypes DEF Places, Types
  <2> QED
    BY <1>d, <2>1, <2>2
<1>5. CASE s \in Runs /\ Expire(s)
  BY <1>5, <1>d DEF Expire
<1>6. CASE s = Owner /\ Started
  <2>1. /\ s # Reader /\ Goto(s, "idle") /\ UNCHANGED <<doing, runVars, agentVars, pipeVars>>
        /\ pending' \subseteq pending /\ reply'[r] = reply[r]
    BY <1>6, <1>a DEF Started, Types
  <2> QED
    BY <1>b, <1>d, <2>1 DEF Places
<1> QED
  BY <1>1, <1>2, <1>3, <1>4, <1>5, <1>6 DEF CallOf, Send

(* A step of r that neither writes nor begins or ends a call.              *)
LEMMA StillWhole ==
  ASSUME Types, NEW r \in Runs, Whole(r), OwnCall(r)',
         UNCHANGED <<doing, streams, text, sent, got, stdin, stdout>>,
         at'[Reader] = at[Reader], reply'[r] = reply[r] \/ reply'[r] = "error",
         doing[r] = "prompt" /\ Early(r)' => Early(r)
  PROVE  Whole(r)'
<1>1. OnePrompt(r)' /\ (Out(r)' <=> Out(r)) /\ (Silent(r)' <=> Silent(r))
  BY DEF Whole, OnePrompt, Out, Silent
<1>2. (Hung' <=> Hung) /\ (Before(r)' => Before(r))
  BY DEF Hung, Before
<1>3. CASE Streaming(r)' /\ ~Streaming(r)
  <2>1. Before(r) /\ doing[r] = "prompt"
    BY <1>3 DEF Streaming, Before
  <2>2. Silent(r) /\ streams[r] = 0 /\ reply[r] # "result" /\ text[r] \notin Nat
    BY <2>1 DEF Whole, Counted
  <2>3. Counted(r)'
    BY <1>1, <1>3, <2>1, <2>2 DEF Counted, Silent, Streaming, Before
  <2> QED
    BY <1>1, <2>3 DEF Whole
<1>4. CASE Streaming(r)' => Streaming(r)
  <2>1. Counted(r)'
    BY <1>1, <1>2, <1>4 DEF Whole, Counted
  <2> QED
    BY <1>1, <2>1 DEF Whole
<1> QED
  BY <1>3, <1>4

(* The steps of r inside a call.                                           *)
LEMMA OwnCallWhole ==
  ASSUME Types, NEW r \in Runs, Whole(r), CallOf(r)
  PROVE  Whole(r)'
<1> USE Names DEF runVars, agentVars, pipeVars
<1>a. r \in Senders /\ r \in Callers /\ r # Reader /\ OwnCall(r)
  BY DEF Whole
<1>b. ASSUME NEW place \in Places, Goto(r, place)
      PROVE  at'[r] = place /\ at'[Reader] = at[Reader]
  BY <1>a, <1>b, GotoTypes
<1>c. PromptOf(r) \in Calls /\ stdin \in Seq(Calls) /\ Call(r) \in Calls
      /\ (Call(r) = PromptOf(r) <=> doing[r] = "prompt")
  BY <1>a DEF PromptOf, Calls, Methods, Types, Call
<1>1. CASE Store(r)
  <2>1. /\ at[r] = "store" /\ at'[r] = "lock" /\ at'[Reader] = at[Reader]
        /\ UNCHANGED <<doing, reply, streams, text, sent, got, stdin, stdout>>
        /\ pending' = pending \cup {Call(r)}
    BY <1>1, <1>b DEF Store, Places
  <2>2. OwnCall(r)'
    BY <1>a, <2>1 DEF OwnCall, Call
  <2> QED
    BY <2>1, <2>2, StillWhole DEF Early
<1>2. CASE Enter(r) \/ (Write(r) /\ Unsent(r) /\ UNCHANGED stdin)
  <2>1. /\ Early(r) /\ at[r] # "store" /\ at'[Reader] = at[Reader]
        /\ at'[r] \in {"write", "done", "leave", "wait"}
        /\ at'[r] = "done" => doing[r] = "cancel"
        /\ UNCHANGED <<doing, pending, streams, text, sent, got, stdin, stdout>>
        /\ reply'[r] = reply[r] \/ reply'[r] = "error"
    <3>1. CASE Unsent(r)
      <4>1. /\ at'[Reader] = at[Reader]
            /\ \/ doing[r] = "cancel" /\ at'[r] = "done" /\ reply' = reply
               \/ at'[r] = "wait" /\ Sent(r)
               \/ at'[r] = "leave" /\ reply'[r] = "error"
        BY <1>a, <3>1, SentTypes
      <4> QED
        BY <1>2, <4>1 DEF Enter, Write, Early, Sent
    <3>2. CASE Enter(r) /\ Goto(r, "write") /\ UNCHANGED reply
      BY <1>b, <3>2 DEF Enter, Places, Early
    <3> QED
      BY <1>2, <3>1, <3>2 DEF Enter
  <2>2. OwnCall(r)'
    BY <1>a, <2>1 DEF OwnCall
  <2> QED
    BY <2>1, <2>2, StillWhole
<1>3. CASE Receive(r) \/ GiveUp(r)
  <2>1. /\ at[r] = "wait" /\ at'[r] = "leave" /\ at'[Reader] = at[Reader]
        /\ UNCHANGED <<doing, pending, streams, text, sent, got, stdin, stdout>>
        /\ reply'[r] = reply[r] \/ reply'[r] = "error"
    BY <1>3, <1>a, <1>b DEF Receive, GiveUp, Places, Types
  <2>2. OwnCall(r)'
    BY <1>a, <2>1 DEF OwnCall
  <2> QED
    BY <2>1, <2>2, StillWhole DEF Early
<1>4. CASE Write(r) /\ Sent(r) /\ stdin' = Append(stdin, Call(r))
  <2>1. /\ at[r] = "write" /\ at'[Reader] = at[Reader] /\ reply' = reply
        /\ UNCHANGED <<doing, pending, streams, text, sent, got, stdout>>
        /\ (doing[r] = "cancel" /\ at'[r] = "done") \/ (doing[r] # "cancel" /\ at'[r] = "wait")
    <3>1. /\ at[r] = "write" /\ reply' = reply /\ r # Reader
          /\ UNCHANGED <<doing, pending, streams, text, sent, got, stdout>>
      BY <1>4, <1>a DEF Write, Sent
    <3>2. at' = [at EXCEPT ![r] = IF doing[r] = "cancel" THEN "done" ELSE "wait"]
      BY <1>4, <3>1 DEF Sent, Goto
    <3>3. r \in DOMAIN at /\ at \in [Senders -> Places]
      BY <1>a DEF Types
    <3>4. at'[Reader] = at[Reader]
          /\ at'[r] = IF doing[r] = "cancel" THEN "done" ELSE "wait"
      BY <3>1, <3>2, <3>3
    <3> QED
      BY <3>1, <3>4
  <2>2. OwnCall(r)'
    BY <1>a, <2>1 DEF OwnCall
  <2>3. CASE doing[r] # "prompt"
    <3>1. /\ Has(stdin', PromptOf(r)) => Has(stdin, PromptOf(r))
          /\ Once(stdin, PromptOf(r)) => Once(stdin', PromptOf(r))
      BY <1>4, <1>c, <2>3, InPipe
    <3>2. OnePrompt(r)' /\ (Out(r)' => Out(r)) /\ (Silent(r) => Silent(r)')
      BY <2>1, <3>1 DEF Whole, OnePrompt, Out, Silent
    <3>3. Counted(r)'
      BY <2>1, <2>3, <3>2 DEF Whole, Counted, Before, Streaming
    <3> QED
      BY <2>2, <3>2, <3>3 DEF Whole
  <2>4. CASE doing[r] = "prompt"
    <3>1. Before(r) /\ Silent(r) /\ streams[r] = 0 /\ reply[r] # "result" /\ text[r] \notin Nat
      BY <2>1, <2>4 DEF Whole, Counted, Before, Early
    <3>2. Once(stdin', PromptOf(r))
      BY <1>4, <1>c, <3>1, InPipe DEF Whole, OnePrompt, Silent, Out
    <3>3. OnePrompt(r)'
      BY <2>1, <3>1, <3>2 DEF Whole, OnePrompt, Out, Silent
    <3>4. Counted(r)'
      BY <2>1, <2>4, <3>1 DEF Counted, Before, Streaming, Early, Silent
    <3> QED
      BY <2>2, <3>3, <3>4 DEF Whole
  <2> QED
    BY <2>3, <2>4
<1> QED
  BY <1>1, <1>2, <1>3, <1>4 DEF CallOf, Send, Write, Call

(* The steps of r between its calls.                                       *)
LEMMA OwnRunWhole ==
  ASSUME Types, NEW r \in Runs, Whole(r), Begin(r) \/ Session(r)
  PROVE  Whole(r)'
<1> USE Names DEF runVars, agentVars, pipeVars
<1>a. r \in Senders /\ r \in Callers /\ r # Reader /\ OwnCall(r)
  BY DEF Whole
<1>b. ASSUME NEW place \in Places, Goto(r, place)
      PROVE  at'[r] = place /\ at'[Reader] = at[Reader]
  BY <1>a, <1>b, GotoTypes
<1>c. ASSUME NEW m \in Methods, Ask(r, m)
      PROVE  at'[r] = "store" /\ at'[Reader] = at[Reader] /\ doing'[r] = m
  BY <1>a, <1>c, AskTypes
<1>d. UNCHANGED <<sent, got, stdin, stdout>>
      /\ (OnePrompt(r)' <=> OnePrompt(r)) /\ (Out(r)' <=> Out(r)) /\ (Silent(r)' <=> Silent(r))
  <2>1. UNCHANGED <<sent, got, stdin, stdout>>
    BY DEF Begin, Session, NoSession, Tune, Prompt, Finish, Leave
  <2> QED
    BY <2>1 DEF OnePrompt, Out, Silent
<1>e. ASSUME Leave(r)
      PROVE  /\ at[r] = "leave" /\ reply'[r] = Nothing
             /\ \A m \in Methods : <<r, m>> \notin pending'
  <2>1. /\ at[r] = "leave" /\ reply' = [reply EXCEPT ![r] = Nothing]
        /\ pending' = pending \ {<<r, doing[r]>>}
    BY <1>e DEF Leave, Call
  <2> QED
    BY <1>a, <2>1 DEF OwnCall, Types
<1>f. ASSUME Before(r), Before(r)', text'[r] \notin Nat, OwnCall(r)',
             doing'[r] = "prompt" => streams'[r] = 0 /\ reply'[r] # "result"
      PROVE  Whole(r)'
  <2>1. Counted(r)'
    BY <1>d, <1>f DEF Whole, Counted, Before, Streaming
  <2> QED
    BY <1>d, <1>f, <2>1 DEF Whole
<1>g. \A m \in {"new", "tune", "permit"} : doing[r] = m => Before(r) /\ text[r] \notin Nat
  BY DEF Whole, Counted, Before
<1>h. ASSUME text' = [text EXCEPT ![r] = Failed] PROVE text'[r] \notin Nat
  BY <1>h, NamesAssumption DEF Types
<1>1. CASE Begin(r)
  <2>1. at[r] = "idle" /\ doing[r] = "permit" /\ \A m \in Methods : <<r, m>> \notin pending
    BY <1>1, <1>a DEF Begin, OwnCall
  <2>2. pending' = pending /\ text'[r] \notin Nat
        /\ ((doing' = doing /\ Goto(r, "done")) \/ Ask(r, "new"))
    BY <1>1, <1>g, <1>h, <2>1 DEF Begin
  <2>3. \/ at'[r] = "store" /\ doing'[r] = "new"
        \/ at'[r] = "done" /\ doing'[r] = "permit"
    BY <1>b, <1>c, <2>1, <2>2 DEF Places, Methods
  <2>4. OwnCall(r)' /\ Before(r)'
    BY <2>1, <2>2, <2>3 DEF OwnCall, Before
  <2> QED
    BY <1>f, <1>g, <2>1, <2>2, <2>3, <2>4
<1>2. CASE NoSession(r)
  <2>1. doing[r] = "new" /\ doing' = doing /\ at'[r] = "done" /\ text'[r] \notin Nat
    BY <1>2, <1>b, <1>h DEF NoSession, Places
  <2>2. OwnCall(r)' /\ Before(r)'
    BY <1>2, <1>e, <2>1 DEF OwnCall, Before, NoSession
  <2> QED
    BY <1>f, <1>g, <2>1, <2>2
<1>3. CASE Tune(r)
  <2>1. doing[r] = "new" /\ doing'[r] = "tune" /\ at'[r] = "store" /\ text' = text
    BY <1>3, <1>c DEF Tune, Methods
  <2>2. OwnCall(r)' /\ Before(r)'
    BY <1>3, <1>e, <2>1 DEF OwnCall, Before, Tune
  <2> QED
    BY <1>f, <1>g, <2>1, <2>2
<1>4. CASE Prompt(r)
  <2>1. /\ doing[r] \in {"new", "tune"} /\ doing'[r] = "prompt" /\ at'[r] = "store"
        /\ text' = text /\ streams' = [streams EXCEPT ![r] = 0]
    BY <1>4, <1>c DEF Prompt, Methods
  <2>2. OwnCall(r)' /\ Before(r)'
    BY <1>4, <1>e, <2>1 DEF OwnCall, Before, Early, Prompt
  <2>3. streams'[r] = 0 /\ reply'[r] # "result"
    BY <1>4, <1>e, <2>1, NamesAssumption DEF Prompt, Types
  <2> QED
    BY <1>f, <1>g, <2>1, <2>2, <2>3
<1>5. CASE Finish(r)
  <2>1. /\ doing[r] = "prompt" /\ Leave(r) /\ Goto(r, "lock")
        /\ doing' = [doing EXCEPT ![r] = "cancel"]
        /\ \/ reply[r] = "result" /\ text' = [text EXCEPT ![r] = streams[r]]
           \/ text' = [text EXCEPT ![r] = Failed]
    BY <1>5 DEF Finish
  <2>2. at[r] = "leave" /\ at'[r] = "lock" /\ doing'[r] = "cancel"
    BY <1>a, <1>b, <1>e, <2>1 DEF Places, Types
  <2>3. OwnCall(r)'
    BY <1>e, <2>1, <2>2 DEF OwnCall
  <2>4. Streaming(r)
    BY <2>1, <2>2 DEF Streaming, Early
  <2>5. text'[r] \in Nat => ~Out(r) /\ text'[r] = sent[r]
    <3>1. CASE reply[r] = "result" /\ text' = [text EXCEPT ![r] = streams[r]]
      BY <2>4, <3>1 DEF Whole, Counted, Types
    <3> QED
      BY <1>h, <2>1, <3>1
  <2>6. Counted(r)'
    BY <1>d, <2>2, <2>5 DEF Counted, Before, Streaming
  <2> QED
    BY <1>d, <2>3, <2>6 DEF Whole
<1> QED
  BY <1>1, <1>2, <1>3, <1>4, <1>5 DEF Session

(* The steps of the reader.                                                *)
LEMMA ReaderWhole ==
  ASSUME Types, NEW r \in Runs, Whole(r),
         ReadAnswer \/ ReadChunk \/ ReadAsk \/ HangUp \/ Wake
  PROVE  Whole(r)'
<1> USE Names DEF runVars, agentVars, pipeVars
<1>a. r \in Senders /\ r \in Callers /\ r # Reader
  OBVIOUS
<1>b. ASSUME NEW place \in Places, Goto(Reader, place)
      PROVE  at'[r] = at[r] /\ at'[Reader] = place
  BY <1>a, <1>b, GotoTypes
<1>c. ASSUME NEW kinds, Reading(kinds)
      PROVE  /\ stdout' = Tail(stdout) /\ ~Hung /\ Head(stdout).kind \in kinds
             /\ Count(r, stdout') =
                  Count(r, stdout) - (IF IsChunk(r, Head(stdout)) THEN 1 ELSE 0)
             /\ Answered(r, stdout') => Answered(r, stdout)
             /\ InOrder(r, stdout) => InOrder(r, stdout')
             /\ InOrder(r, stdout) /\ IsAnswer(r, Head(stdout)) => Count(r, stdout) = 0
             /\ IsAnswer(r, Head(stdout)) => Answered(r, stdout)
             /\ Head(stdout) \in Line /\ Count(r, stdout) \in Nat /\ Count(r, stdout') \in Nat
  <2>1. /\ stdout # <<>> /\ stdout \in Seq(Line) /\ stdout' = Tail(stdout)
        /\ at[Reader] = "read" /\ Head(stdout).kind \in kinds
    BY <1>c DEF Reading, Types
  <2>2. Tail(stdout) \in Seq(Line)
    BY <2>1
  <2> QED
    BY <2>1, <2>2, OutTail, CountType DEF Hung
<1>d. ASSUME Reading({"ask", "chunk"} \cup Answers), UNCHANGED <<stdin, got>>,
             ~IsChunk(r, Head(stdout))
      PROVE  Fewer(r)
  <2>1. Count(r, stdout') = Count(r, stdout)
    BY <1>c, <1>d
  <2> QED
    BY <1>c, <1>d, <2>1 DEF Fewer
<1>1. CASE ReadAnswer
  <2> DEFINE call == Head(stdout).of
  <2>1. /\ Reading(Answers) /\ UNCHANGED <<at, doing, streams, text, sent, pending, stdin, got>>
        /\ reply' = IF call \in pending /\ reply[call[1]] = Nothing
                    THEN [reply EXCEPT ![call[1]] = Head(stdout).kind] ELSE reply
    BY <1>1 DEF ReadAnswer
  <2>2. Reading({"ask", "chunk"} \cup Answers)
    BY <2>1 DEF Reading
  <2>3. ~IsChunk(r, Head(stdout)) /\ Head(stdout).kind \in Answers
    BY <2>1, <1>c DEF IsChunk, Answers
  <2>4. Fewer(r)
    BY <1>d, <2>1, <2>2, <2>3
  <2>5. CASE reply'[r] = reply[r] \/ reply'[r] = "error"
    <3>1. Elsewhere(r)
      BY <2>1, <2>5 DEF Elsewhere, Hung
    <3> QED
      BY <2>4, <3>1, ElsewhereWhole
  <2>6. CASE ~(reply'[r] = reply[r] \/ reply'[r] = "error")
    <3>1. call \in pending /\ call[1] = r /\ reply'[r] = Head(stdout).kind
      BY <2>1, <2>6 DEF Types
    <3>2. call \in Callers \X Methods /\ call = <<r, call[2]>> /\ call[2] \in Methods
      BY <3>1 DEF Types
    <3>3. call[2] = doing[r] /\ doing[r] # "cancel" /\ at[r] # "store"
      BY <3>1, <3>2 DEF Whole, OwnCall
    <3>4. doing[r] = "prompt" => IsAnswer(r, Head(stdout))
      BY <2>3, <3>2, <3>3 DEF IsAnswer, PromptOf
    <3>5. ~(Before(r) /\ doing[r] = "prompt")
      BY <1>c, <2>1, <3>4 DEF Whole, Counted, Silent
    <3>6. Streaming(r) => ~Out(r) /\ streams[r] = sent[r]
      <4>1. Streaming(r) => /\ Answered(r, stdout) /\ Count(r, stdout) = 0
                            /\ streams[r] \in Nat /\ streams[r] + Count(r, stdout) = sent[r]
        BY <1>c, <2>1, <3>4 DEF Whole, OnePrompt, Counted, Streaming
      <4> QED
        BY <4>1 DEF Whole, OnePrompt
    <3>7. /\ OnePrompt(r)' /\ (Out(r)' => Out(r)) /\ (Silent(r) => Silent(r)')
          /\ (Before(r)' <=> Before(r)) /\ (Streaming(r)' <=> Streaming(r))
          /\ Count(r, stdout') = Count(r, stdout) /\ (Hung' <=> Hung)
      <4>1. Count(r, stdout') = Count(r, stdout)
        BY <1>c, <2>1, <2>3
      <4> QED
        BY <2>1, <2>4, <4>1 DEF Fewer, Whole, OnePrompt, Out, Silent, Before, Streaming,
           Early, Hung
    <3>8. OwnCall(r)'
      BY <2>1 DEF Whole, OwnCall
    <3>9. Counted(r)'
      BY <2>1, <3>5, <3>6, <3>7 DEF Whole, Counted, Before
    <3> QED
      BY <3>7, <3>8, <3>9 DEF Whole
  <2> QED
    BY <2>5, <2>6
<1>2. CASE ReadChunk
  <2> DEFINE q == Head(stdout).of[1]
  <2>1. /\ Reading({"chunk"}) /\ UNCHANGED <<at, doing, reply, text, sent, pending, stdin, got>>
        /\ streams' = IF streams[q] = Nothing THEN streams
                      ELSE [streams EXCEPT ![q] = @ + 1]
    BY <1>2 DEF ReadChunk
  <2>2. Reading({"ask", "chunk"} \cup Answers)
    BY <2>1 DEF Reading
  <2>3. CASE q # r
    <3>1. ~IsChunk(r, Head(stdout)) /\ streams'[r] = streams[r]
      BY <2>1, <2>3 DEF IsChunk, Types
    <3>2. Fewer(r) /\ Elsewhere(r)
      BY <1>d, <2>1, <2>2, <3>1 DEF Elsewhere, Hung
    <3> QED
      BY <3>2, ElsewhereWhole
  <2>4. CASE q = r
    <3>1. IsChunk(r, Head(stdout))
      BY <1>c, <2>1, <2>4 DEF IsChunk
    <3>2. Count(r, stdout') = Count(r, stdout) - 1 /\ Count(r, stdout) \in Nat \ {0}
          /\ ~Hung
      BY <1>c, <2>1, <3>1
    <3>3. ~Before(r)
      BY <3>2 DEF Whole, Counted, Silent
    <3>4. Streaming(r) => /\ streams[r] \in Nat /\ streams'[r] = streams[r] + 1
                          /\ reply[r] # "result"
                          /\ streams[r] + Count(r, stdout) = sent[r]
      <4>1. Streaming(r) => /\ streams[r] \in Nat /\ streams[r] + Count(r, stdout) = sent[r]
                            /\ (reply[r] = "result" => streams[r] = sent[r])
        BY <3>2 DEF Whole, Counted
      <4> QED
        BY <2>1, <2>4, <3>2, <4>1, NamesAssumption DEF Types
    <3>5. /\ OnePrompt(r)' /\ (Out(r)' => Out(r)) /\ OwnCall(r)'
          /\ (Before(r)' <=> Before(r)) /\ (Streaming(r)' <=> Streaming(r))
      BY <1>c, <2>1 DEF Whole, OnePrompt, Out, OwnCall, Before, Streaming, Early
    <3>6. Counted(r)'
      BY <2>1, <3>2, <3>3, <3>4, <3>5 DEF Whole, Counted
    <3> QED
      BY <3>5, <3>6 DEF Whole
  <2> QED
    BY <2>3, <2>4
<1>3. CASE ReadAsk
  <2>1. /\ Reading({"ask"}) /\ Goto(Reader, "lock")
        /\ UNCHANGED <<doing, reply, streams, text, sent, pending, stdin, got>>
    BY <1>3 DEF ReadAsk
  <2>2. ~IsChunk(r, Head(stdout)) /\ Reading({"ask", "chunk"} \cup Answers) /\ ~Hung
    BY <1>c, <2>1 DEF IsChunk, Reading
  <2>3. Fewer(r) /\ Elsewhere(r)
    BY <1>b, <1>d, <2>1, <2>2 DEF Elsewhere, Places
  <2> QED
    BY <2>3, ElsewhereWhole
<1>4. CASE HangUp
  <2>1. /\ Goto(Reader, "ended") \/ Goto(Reader, "waking")
        /\ UNCHANGED <<doing, reply, streams, text, sent, pending, stdin, got>>
        /\ stdout' = <<>>
    BY <1>4 DEF HangUp
  <2>2. at'[r] = at[r] /\ Hung'
    BY <1>b, <2>1 DEF Hung, Places
  <2>3. /\ stdout' \in Seq(Line) /\ ~Answered(r, stdout') /\ InOrder(r, stdout')
        /\ Chunks(r, stdout') = {}
    BY <2>1 DEF Answered, InOrder, Chunks
  <2>4. Count(r, stdout') = 0
    BY <2>3, CountType
  <2>5. Fewer(r) /\ Elsewhere(r)
    BY <2>1, <2>2, <2>3, <2>4 DEF Fewer, Elsewhere
  <2> QED
    BY <2>5, ElsewhereWhole
<1>5. CASE Wake
  <2>1. /\ Goto(Reader, "ended")
        /\ UNCHANGED <<doing, streams, text, sent, pending, stdin, got, stdout>>
        /\ reply' = [c \in Callers |->
                       IF reply[c] = Nothing /\ Call(c) \in pending THEN "error" ELSE reply[c]]
    BY <1>5 DEF Wake
  <2>2. at'[r] = at[r] /\ Hung' /\ (reply'[r] = reply[r] \/ reply'[r] = "error")
    BY <1>a, <1>b, <2>1 DEF Hung, Places
  <2>3. Fewer(r) /\ Elsewhere(r)
    BY <2>1, <2>2 DEF Fewer, Elsewhere
  <2> QED
    BY <2>3, ElsewhereWhole
<1> QED
  BY <1>1, <1>2, <1>3, <1>4, <1>5

(* The steps of the agent.                                                 *)
LEMMA AgentWhole ==
  ASSUME Types, NEW r \in Runs, Whole(r), Agent
  PROVE  Whole(r)'
<1> USE Names DEF runVars, agentVars, pipeVars
<1>a. /\ UNCHANGED <<at, doing, reply, streams, text, pending>>
      /\ PromptOf(r) \in Calls /\ stdin \in Seq(Calls) /\ stdout \in Seq(Line)
      /\ OwnCall(r)' /\ (Before(r)' <=> Before(r)) /\ (Streaming(r)' <=> Streaming(r))
      /\ (Hung' <=> Hung)
  <2>1. UNCHANGED <<at, doing, reply, streams, text, pending>>
    BY DEF Agent, AgentReads, AgentAnswers, AgentTalks, AgentAsks, AgentExits, Rest
  <2> QED
    BY <2>1 DEF Whole, OwnCall, Before, Streaming, Early, Hung, PromptOf, Calls, Methods,
       Types
<1>b. ASSUME NEW kind \in Answers \cup {"chunk", "ask"}, NEW call \in Calls, Say(kind, call)
      PROVE  LET l == [kind |-> kind, of |-> call] IN
             /\ Count(r, stdout') = Count(r, stdout) + (IF IsChunk(r, l) THEN 1 ELSE 0)
             /\ Answered(r, stdout') <=> Answered(r, stdout) \/ IsAnswer(r, l)
             /\ InOrder(r, stdout) /\ ~(IsChunk(r, l) /\ (Answered(r, stdout) \/ IsAnswer(r, l)))
                  => InOrder(r, stdout')
             /\ l \in Line /\ Count(r, stdout) \in Nat
  <2>1. [kind |-> kind, of |-> call] \in Line
        /\ stdout' = Append(stdout, [kind |-> kind, of |-> call])
    BY <1>b DEF Line, Say
  <2> QED
    BY <1>a, <2>1, OutAppend, CountType
<1>1. CASE AgentReads
  <2>1. /\ stdin # <<>> /\ stdin' = Tail(stdin) /\ UNCHANGED <<sent, stdout>>
        /\ got' = got \/ got' = got \cup {Head(stdin)}
    BY <1>1 DEF AgentReads
  <2>2. /\ Has(stdin', PromptOf(r)) => Has(stdin, PromptOf(r))
        /\ Once(stdin, PromptOf(r)) => Once(stdin', PromptOf(r))
        /\ Once(stdin, PromptOf(r)) /\ Head(stdin) = PromptOf(r) => ~Has(stdin', PromptOf(r))
        /\ Has(stdin, Head(stdin))
    BY <1>a, <2>1, InPipe
  <2>3. OnePrompt(r)' /\ (Out(r)' => Out(r))
    BY <2>1, <2>2 DEF Whole, OnePrompt, Out
  <2>4. Counted(r)'
    BY <1>a, <2>1, <2>3 DEF Whole, Counted, Silent
  <2> QED
    BY <1>a, <2>3, <2>4 DEF Whole
<1>2. CASE AgentAnswers
  <2>1. PICK call \in got, kind \in Answers : Say(kind, call) /\ got' = got \ {call}
    BY <1>2 DEF AgentAnswers
  <2>2. UNCHANGED <<sent, stdin>> /\ call \in Calls
    BY <1>2, <2>1 DEF AgentAnswers, Types
  <2> DEFINE l == [kind |-> kind, of |-> call]
  <2>3. ~IsChunk(r, l) /\ (IsAnswer(r, l) <=> call = PromptOf(r))
    BY DEF IsChunk, IsAnswer, Answers
  <2>4. /\ Count(r, stdout') = Count(r, stdout)
        /\ Answered(r, stdout') <=> Answered(r, stdout) \/ call = PromptOf(r)
        /\ InOrder(r, stdout) => InOrder(r, stdout')
    BY <1>b, <2>1, <2>2, <2>3
  <2>5. OnePrompt(r)' /\ (Out(r)' => Out(r)) /\ (call = PromptOf(r) => Out(r))
    BY <2>1, <2>2, <2>4 DEF Whole, OnePrompt, Out
  <2>6. Counted(r)'
    BY <1>a, <2>2, <2>4, <2>5 DEF Whole, Counted, Silent
  <2> QED
    BY <1>a, <2>5, <2>6 DEF Whole
<1>3. ASSUME NEW q \in Runs, AgentTalks(q)
      PROVE  Whole(r)'
  <2>1. /\ PromptOf(q) \in got /\ Say("chunk", PromptOf(q)) /\ UNCHANGED <<got, stdin>>
        /\ sent' = [sent EXCEPT ![q] = @ + 1] /\ ~Hung
    BY <1>3 DEF AgentTalks, PromptOf, Say, Hung
  <2>2. PromptOf(q) \in Calls
    BY <2>1 DEF Types
  <2> DEFINE l == [kind |-> "chunk", of |-> PromptOf(q)]
  <2>3. ~IsAnswer(r, l) /\ (IsChunk(r, l) <=> q = r)
    BY DEF IsChunk, IsAnswer, Answers, PromptOf
  <2>4. /\ Count(r, stdout') = Count(r, stdout) + (IF q = r THEN 1 ELSE 0)
        /\ Answered(r, stdout') <=> Answered(r, stdout)
        /\ InOrder(r, stdout) /\ ~(q = r /\ Answered(r, stdout)) => InOrder(r, stdout')
        /\ Count(r, stdout) \in Nat
    BY <1>b, <2>1, <2>2, <2>3
  <2>5. sent'[r] = sent[r] + (IF q = r THEN 1 ELSE 0) /\ sent[r] \in Nat
    BY <2>1 DEF Types
  <2>6. q = r => Out(r)
    BY <2>1 DEF Out
  <2>7. OnePrompt(r)' /\ (Out(r)' <=> Out(r))
    BY <2>1, <2>4, <2>6 DEF Whole, OnePrompt, Out
  <2>8. CASE q = r
    <3>1. ~Before(r) /\ text[r] \notin Nat /\ (Streaming(r) => reply[r] # "result")
      BY <2>6, <2>8 DEF Whole, Counted, Silent
    <3>2. Streaming(r) => streams[r] \in Nat /\ streams[r] + Count(r, stdout) = sent[r]
      BY <2>1 DEF Whole, Counted
    <3>3. Streaming(r) => streams[r] + Count(r, stdout') = sent'[r]
      BY <2>4, <2>5, <2>8, <3>2
    <3>4. Counted(r)'
      BY <1>a, <3>1, <3>2, <3>3 DEF Counted
    <3> QED
      BY <1>a, <2>7, <3>4 DEF Whole
  <2>9. CASE q # r
    <3>1. sent'[r] = sent[r] /\ Count(r, stdout') = Count(r, stdout)
      BY <2>4, <2>5, <2>9
    <3>2. Counted(r)'
      BY <1>a, <2>4, <2>7, <3>1 DEF Whole, Counted, Silent
    <3> QED
      BY <1>a, <2>7, <3>2 DEF Whole
  <2> QED
    BY <2>8, <2>9
<1>4. ASSUME NEW q \in Runs, AgentAsks(q)
      PROVE  Whole(r)'
  <2>1. PromptOf(q) \in got /\ Say("ask", PromptOf(q)) /\ UNCHANGED <<got, sent, stdin>>
    BY <1>4 DEF AgentAsks, PromptOf
  <2>2. PromptOf(q) \in Calls
    BY <2>1 DEF Types
  <2> DEFINE l == [kind |-> "ask", of |-> PromptOf(q)]
  <2>3. ~IsAnswer(r, l) /\ ~IsChunk(r, l)
    BY DEF IsChunk, IsAnswer, Answers
  <2>4. /\ Count(r, stdout') = Count(r, stdout)
        /\ Answered(r, stdout') <=> Answered(r, stdout)
        /\ InOrder(r, stdout) => InOrder(r, stdout')
    BY <1>b, <2>1, <2>2, <2>3
  <2>5. Fewer(r) /\ Elsewhere(r)
    BY <1>a, <2>1, <2>4 DEF Fewer, Elsewhere
  <2> QED
    BY <2>5, ElsewhereWhole
<1>5. CASE AgentExits
  BY <1>5, <1>a, Vanishes DEF AgentExits
<1> QED
  BY <1>1, <1>2, <1>3, <1>4, <1>5 DEF Agent

(* The steps of the owner that are not a call, and the ends of contexts.   *)
LEMMA OwnWhole ==
  ASSUME Types, Shutdown, NEW r \in Runs, Whole(r),
         Start \/ Shut \/ Reap \/ ContextEnds \/ Kill \/ Expire(r)
  PROVE  Whole(r)'
<1> USE Names DEF runVars, agentVars, pipeVars
<1>a. r \in Senders /\ r # Owner /\ r # Reader
  OBVIOUS
<1>b. ASSUME UNCHANGED <<at, doing, reply, streams, text, sent, pending, got, stdin, stdout>>
      PROVE  Whole(r)'
  BY <1>b, ElsewhereWhole DEF Elsewhere, Fewer, Hung
<1>1. CASE Start
  <2>1. at[Reader] = "idle" /\ UNCHANGED <<reply, streams, text, sent, pending, got, stdin, stdout>>
        /\ at'[r] = at[r] /\ doing'[r] = doing[r]
    BY <1>1, <1>a DEF Start, Shutdown, Types
  <2> QED
    BY <2>1, ElsewhereWhole DEF Elsewhere, Fewer, Hung
<1>2. CASE (Reap /\ process = "up") \/ Kill
  BY <1>2, Vanishes DEF Reap, Kill
<1>3. CASE (Reap /\ process # "up") \/ Shut \/ ContextEnds \/ Expire(r)
  BY <1>3, <1>b DEF Reap, Shut, ContextEnds, Expire
<1> QED
  BY <1>1, <1>2, <1>3

(* The text a Run returns is all the agent said for it before its answer   *)
(* (acpcore.go, session.Run; transport.go, readLoop).                      *)
THEOREM TextIsWhole_always == Spec => []TextIsWhole
<1> DEFINE All == \A r \in Runs : Whole(r)
<1>1. Init => All
  <2> SUFFICES ASSUME Init, NEW r \in Runs PROVE Whole(r)
    OBVIOUS
  <2>1. /\ stdin = <<>> /\ stdout = <<>> /\ got = {} /\ pending = {}
        /\ doing[r] = "permit" /\ at[r] = "idle" /\ text[r] = Nothing /\ sent[r] = 0
    BY Names DEF Init
  <2>2. Chunks(r, stdout) = {} /\ stdout \in Seq(Line)
    BY <2>1 DEF Chunks
  <2>3. Silent(r) /\ OnePrompt(r)
    <3>1. Count(r, stdout) = 0
      BY <2>2, CountType
    <3>2. ~Out(r) /\ ~Answered(r, stdout) /\ Once(stdin, PromptOf(r)) /\ InOrder(r, stdout)
      BY <2>1 DEF Out, Has, Once, Answered, InOrder
    <3> QED
      BY <2>1, <3>1, <3>2 DEF Silent, OnePrompt, Out
  <2>4. OwnCall(r) /\ Counted(r)
    BY <2>1, <2>3, NamesAssumption DEF OwnCall, Counted, Before, Streaming
  <2> QED
    BY <2>3, <2>4 DEF Whole
<1>2. Types /\ Held /\ All /\ [Next]_vars => All'
  <2> SUFFICES ASSUME Types, Shutdown, [Next]_vars, NEW r \in Runs, Whole(r) PROVE Whole(r)'
    BY DEF Held
  <2> USE Names
  <2>1. ASSUME NEW q \in Runs, Run(q) \/ Expire(q) \/ Begin(q) PROVE Whole(r)'
    <3>1. CASE q = r
      BY <2>1, <3>1, OwnCallWhole, OwnRunWhole, OwnWhole DEF Run
    <3>2. CASE q # r
      BY <2>1, <3>2, OthersWhole DEF Run
    <3> QED
      BY <3>1, <3>2
  <2>2. CASE Own \/ Reap \/ ContextEnds \/ Kill \/ Shut
    BY <2>2, OthersWhole, OwnWhole DEF Own
  <2>3. CASE ReadLoop
    BY <2>3, OthersWhole, ReaderWhole DEF ReadLoop
  <2>4. CASE Agent
    BY <2>4, AgentWhole
  <2>5. CASE UNCHANGED vars
    BY <2>5, ElsewhereWhole DEF vars, runVars, agentVars, pipeVars, Elsewhere, Fewer, Hung
  <2> QED
    BY <2>1, <2>2, <2>3, <2>4, <2>5 DEF Next, Code
<1>3. All => TextIsWhole
  BY DEF TextIsWhole, Whole, Counted
<1> QED
  BY <1>1, <1>2, <1>3, InitHeld, HeldStep, InitTypes, StepTypes, PTL DEF Spec
=============================================================================
