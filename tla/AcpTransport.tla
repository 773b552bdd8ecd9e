---------------------------- MODULE AcpTransport ----------------------------
(***************************************************************************)
(* One agent process that speaks the Agent Client Protocol over its stdin  *)
(* and stdout, and the sessions that share it.  The owner of the provider  *)
(* starts the agent, sessions run prompts over the one transport, a reader *)
(* takes what the agent writes to the call or the stream it belongs to.    *)
(* Models internal/analyzer/providers/acpcore: transport.go, acpcore.go    *)
(* and the order of permissions.go.                                        *)
(*                                                                         *)
(* The agent is a program of others: it answers a call once, says what it  *)
(* has to say before it answers a prompt, and may stop doing anything at   *)
(* any time.  A call is named by its caller and its method, since every    *)
(* caller makes a call of each method at most once (set_model and set_mode *)
(* are one call, "tune").  What a permission request is answered is left   *)
(* out; that it is answered by the reader itself is not.                   *)
(***************************************************************************)
EXTENDS Naturals, Sequences

CONSTANTS
  Runs,      \* calls of session.Run
  Owner,     \* who starts and closes the provider
  Reader,    \* readLoop
  InCap,     \* messages stdin holds
  OutCap,    \* messages stdout holds
  MaxSays,   \* chunks of text and requests for permission from the agent
  StartCtx,  \* the context given to Start: "start" or "run"
  Deadline,  \* the run's context ends at last
  NoOne, Nothing, Failed

Callers == Runs \cup {Owner}
Senders == Callers \cup {Reader}

ASSUME NamesAssumption ==
  /\ Owner # Reader /\ {Owner, Reader} \cap Runs = {} /\ NoOne \notin Senders
  /\ Nothing \notin {"result", "error"} /\ {Nothing, Failed} \cap Nat = {}
ASSUME BoundsAssumption ==
  /\ InCap \in Nat \ {0} /\ OutCap \in Nat \ {0}
  /\ MaxSays \in Nat
ASSUME ModeAssumption == StartCtx \in {"start", "run"} /\ Deadline \in BOOLEAN

Methods == {"initialize", "new", "tune", "prompt", "cancel", "permit"}
Answers == {"result", "error"}

VARIABLES
  provider, \* "new", "starting", "started", "failing", "reaping", "closed"
  closed,   \* transport.closed
  pending,  \* transport.pending: the calls that wait for an answer
  encMu,    \* who holds transport.encMu
  at,       \* where each sender stands
  doing,    \* the method each sender is about
  reply,    \* the channel of each caller's call
  ctx,      \* the context of each caller is done; the owner's is Start's
  streams,  \* transport.streams: chunks so far, per session
  text,     \* what each Run returns
  process,  \* "none", "up", "gone"
  stdin, stdinOpen, stdout,
  got,      \* calls the agent has read and not answered
  says,     \* what it may still say of itself
  sent      \* ghost: chunks it has sent, per session

agentVars == <<process, got, says, sent>>
pipeVars  == <<stdin, stdinOpen, stdout>>
runVars   == <<streams, text>>
vars == <<provider, closed, pending, encMu, at, doing, reply, ctx,
          runVars, agentVars, pipeVars>>

Init == /\ provider = "new" /\ closed = FALSE
        /\ pending = {} /\ encMu = NoOne
        /\ at = [s \in Senders |-> "idle"]
        /\ doing = [s \in Senders |-> "permit"]
        /\ reply = [c \in Callers |-> Nothing]
        /\ ctx = [c \in Callers |-> FALSE]
        /\ streams = [r \in Runs |-> Nothing]
        /\ text = [r \in Runs |-> Nothing]
        /\ process = "none" /\ got = {} /\ says = MaxSays
        /\ sent = [r \in Runs |-> 0]
        /\ stdin = <<>> /\ stdinOpen = TRUE /\ stdout = <<>>

-----------------------------------------------------------------------------
Goto(s, place) == at' = [at EXCEPT ![s] = place]
Call(c) == <<c, doing[c]>>

(* Next call of c: its method is chosen, its channel not yet made. *)
Ask(c, method) ==
  /\ doing' = [doing EXCEPT ![c] = method]
  /\ Goto(c, "store")

(* pending.Store, with a fresh channel. *)
Store(c) ==
  /\ at[c] = "store" /\ Goto(c, "lock")
  /\ pending' = pending \cup {Call(c)}
  /\ UNCHANGED <<provider, closed, encMu, doing, reply, ctx, runVars,
                 agentVars, pipeVars>>

(* What follows a send: the reader reads on, a notification ends the Run,  *)
(* a call waits for its answer or, unsent, is over.                        *)
Sent(s) ==
  /\ Goto(s, CASE s = Reader -> "read"
               [] doing[s] = "cancel" -> "done"
               [] OTHER -> "wait")
  /\ UNCHANGED reply

Unsent(s) ==
  IF s = Reader \/ doing[s] = "cancel" THEN Sent(s)
  ELSE Goto(s, "leave") /\ reply' = [reply EXCEPT ![s] = "error"]

(* send: the lock, and under it the flag. *)
Enter(s) ==
  /\ at[s] = "lock" /\ encMu = NoOne
  /\ IF closed THEN Unsent(s) /\ UNCHANGED encMu
     ELSE encMu' = s /\ Goto(s, "write") /\ UNCHANGED reply
  /\ UNCHANGED <<provider, closed, pending, doing, ctx, runVars,
                 agentVars, pipeVars>>

(* The write blocks while the pipe is full, whatever the context says; it  *)
(* fails when the agent is gone or stdin is closed.                        *)
Write(s) ==
  /\ at[s] = "write" /\ encMu' = NoOne
  /\ \/ /\ process # "up" \/ ~stdinOpen
        /\ Unsent(s) /\ UNCHANGED stdin
     \/ /\ process = "up" /\ stdinOpen /\ Len(stdin) < InCap
        /\ stdin' = Append(stdin, <<s, doing[s]>>)
        /\ Sent(s)
  /\ UNCHANGED <<provider, closed, pending, doing, ctx, runVars,
                 agentVars, stdinOpen, stdout>>

(* The two arms of the select. *)
Receive(c) ==
  /\ at[c] = "wait" /\ reply[c] # Nothing
  /\ Goto(c, "leave")
  /\ UNCHANGED <<provider, closed, pending, encMu, doing, reply, ctx,
                 runVars, agentVars, pipeVars>>

GiveUp(c) ==
  /\ at[c] = "wait" /\ ctx[c]
  /\ Goto(c, "leave") /\ reply' = [reply EXCEPT ![c] = "error"]
  /\ UNCHANGED <<provider, closed, pending, encMu, doing, ctx, runVars,
                 agentVars, pipeVars>>

-----------------------------------------------------------------------------
(* session.Run                                                             *)

Begin(r) ==
  /\ at[r] = "idle" /\ provider = "started"
  /\ IF closed
     THEN /\ Goto(r, "done") /\ text' = [text EXCEPT ![r] = Failed]
          /\ UNCHANGED doing
     ELSE Ask(r, "new") /\ UNCHANGED text
  /\ UNCHANGED <<provider, closed, pending, encMu, reply, ctx, streams,
                 agentVars, pipeVars>>

(* pending.Delete, and on to what follows the call. *)
Leave(r) ==
  /\ at[r] = "leave"
  /\ pending' = pending \ {Call(r)}
  /\ reply' = [reply EXCEPT ![r] = Nothing]
  /\ UNCHANGED <<provider, closed, encMu, ctx, agentVars, pipeVars>>

NoSession(r) ==
  /\ doing[r] = "new" /\ reply[r] = "error" /\ Leave(r)
  /\ Goto(r, "done") /\ text' = [text EXCEPT ![r] = Failed]
  /\ UNCHANGED <<doing, streams>>

(* Only what the agent offers is asked for; failures are not looked at. *)
Tune(r) ==
  /\ doing[r] = "new" /\ reply[r] = "result" /\ Leave(r)
  /\ Ask(r, "tune")
  /\ UNCHANGED runVars

Prompt(r) ==
  /\ \/ doing[r] = "new" /\ reply[r] = "result"
     \/ doing[r] = "tune"
  /\ Leave(r)
  /\ streams' = [streams EXCEPT ![r] = 0]
  /\ Ask(r, "prompt")
  /\ UNCHANGED text

(* No text at all is an error when the agent gives a reason for stopping.  *)
(* The stream is closed, the session cancelled.                            *)
Finish(r) ==
  /\ doing[r] = "prompt" /\ Leave(r)
  /\ \/ /\ reply[r] = "result"
        /\ text' = [text EXCEPT ![r] = streams[r]]
     \/ /\ reply[r] = "error" \/ streams[r] = 0
        /\ text' = [text EXCEPT ![r] = Failed]
  /\ streams' = [streams EXCEPT ![r] = Nothing]
  /\ doing' = [doing EXCEPT ![r] = "cancel"] /\ Goto(r, "lock")

(* The timeout of a Run, or the cancellation of its chunk.  Nothing looks  *)
(* at it but the select.                                                   *)
Expire(r) ==
  /\ at[r] = "wait" /\ ~ctx[r]
  /\ ctx' = [ctx EXCEPT ![r] = TRUE]
  /\ UNCHANGED <<provider, closed, pending, encMu, at, doing, reply,
                 runVars, agentVars, pipeVars>>

-----------------------------------------------------------------------------
(* provider.Start and provider.Close                                       *)

Start ==
  /\ provider = "new"
  /\ \/ /\ provider' = "starting" /\ process' = "up"
        /\ at' = [at EXCEPT ![Owner] = "store", ![Reader] = "read"]
        /\ doing' = [doing EXCEPT ![Owner] = "initialize"]
     \/ /\ provider' = "closed" /\ UNCHANGED <<process, at, doing>>
  /\ UNCHANGED <<closed, pending, encMu, reply, ctx, runVars, got,
                 says, sent, pipeVars>>

(* The pipeline and replay cancel the context of Start once it returns. *)
Started ==
  /\ at[Owner] = "leave"
  /\ pending' = pending \ {Call(Owner)} /\ Goto(Owner, "idle")
  /\ provider' = IF reply[Owner] = "result" THEN "started" ELSE "failing"
  /\ ctx' = [ctx EXCEPT ![Owner] = @ \/ StartCtx = "start"]
  /\ reply' = [reply EXCEPT ![Owner] = Nothing]
  /\ UNCHANGED <<closed, encMu, doing, runVars, agentVars, pipeVars>>

(* What the process has not read or answered goes with it. *)
Dies == /\ process' = "gone" /\ stdin' = <<>> /\ got' = {}
        /\ UNCHANGED <<says, sent>>

(* All Runs have returned, or none began.  The flag is set here without    *)
(* waking a call.                                                          *)
Shut ==
  /\ \/ provider = "failing"
     \/ provider = "started" /\ \A r \in Runs : at[r] \in {"idle", "done"}
  /\ provider' = "reaping" /\ closed' = TRUE /\ stdinOpen' = FALSE
  /\ UNCHANGED <<pending, encMu, at, doing, reply, ctx, runVars,
                 agentVars, stdin, stdout>>

(* The agent is killed when it has not gone by itself after five seconds.  *)
Reap ==
  /\ provider = "reaping"
  /\ IF process = "up" THEN Dies /\ UNCHANGED provider
     ELSE provider' = "closed" /\ UNCHANGED <<agentVars, stdin>>
  /\ UNCHANGED <<closed, pending, encMu, at, doing, reply, ctx,
                 runVars, stdinOpen, stdout>>

(* The context of the whole run ends, or that of Start before it returns. *)
ContextEnds ==
  /\ provider \in {"starting", "started"}
  /\ \/ Deadline /\ ctx' = [c \in Callers |-> TRUE]
     \/ /\ StartCtx = "start" /\ provider = "starting"
        /\ ctx' = [ctx EXCEPT ![Owner] = TRUE]
  /\ ctx' # ctx
  /\ UNCHANGED <<provider, closed, pending, encMu, at, doing, reply,
                 runVars, agentVars, pipeVars>>

(* exec.CommandContext kills the agent when the context of Start is done. *)
FaultKill == FALSE /\ UNCHANGED vars   \* a process of no context
Kill ==
  /\ process = "up" /\ ctx[Owner]
  /\ Dies
  /\ UNCHANGED <<provider, closed, pending, encMu, at, doing, reply, ctx,
                 runVars, stdinOpen, stdout>>

-----------------------------------------------------------------------------
(* readLoop                                                                *)

Reading(kinds) ==
  /\ at[Reader] = "read" /\ stdout # <<>>
  /\ Head(stdout).kind \in kinds
  /\ stdout' = Tail(stdout)

(* An answer that overtakes the chunks before it. *)
FaultReadAnswer ==
  \E i \in 1 .. Len(stdout) :
    LET call == stdout[i].of IN
    /\ at[Reader] = "read" /\ stdout[i].kind \in Answers
    /\ stdout' = SubSeq(stdout, 1, i - 1) \o SubSeq(stdout, i + 1, Len(stdout))
    /\ reply' = IF call \in pending /\ reply[call[1]] = Nothing
                THEN [reply EXCEPT ![call[1]] = stdout[i].kind] ELSE reply
    /\ UNCHANGED <<provider, closed, pending, encMu, at, doing, ctx, runVars,
                   agentVars, stdin, stdinOpen>>

(* An answer nobody waits for any more is dropped. *)
ReadAnswer ==
  LET call == Head(stdout).of IN
  /\ Reading(Answers)
  /\ reply' = IF call \in pending /\ reply[call[1]] = Nothing
              THEN [reply EXCEPT ![call[1]] = Head(stdout).kind] ELSE reply
  /\ UNCHANGED <<provider, closed, pending, encMu, at, doing, ctx,
                 runVars, agentVars, stdin, stdinOpen>>

ReadChunk ==
  LET r == Head(stdout).of[1] IN
  /\ Reading({"chunk"})
  /\ streams' = IF streams[r] = Nothing THEN streams
                ELSE [streams EXCEPT ![r] = @ + 1]
  /\ UNCHANGED <<provider, closed, pending, encMu, at, doing, reply, ctx,
                 text, agentVars, stdin, stdinOpen>>

(* The reader itself sends the answer. *)
ReadAsk ==
  /\ Reading({"ask"})
  /\ Goto(Reader, "lock")
  /\ UNCHANGED <<provider, closed, pending, encMu, doing, reply, ctx,
                 runVars, agentVars, stdin, stdinOpen>>

(* The output ends with the process, or a line is longer than the scanner's *)
(* buffer.                                                                  *)
OutputEnds == \/ process # "up" /\ stdout = <<>>
              \/ stdout # <<>>

(* markClosed without the flag. *)
FaultHangUp ==
  /\ at[Reader] = "read" /\ OutputEnds
  /\ Goto(Reader, "waking")
  /\ stdout' = <<>>
  /\ UNCHANGED <<provider, closed, pending, encMu, doing, reply, ctx, runVars,
                 agentVars, stdin, stdinOpen>>

(* markClosed: first the flag. *)
HangUp ==
  /\ at[Reader] = "read" /\ OutputEnds
  /\ Goto(Reader, IF closed THEN "ended" ELSE "waking")
  /\ closed' = TRUE /\ stdout' = <<>>
  /\ UNCHANGED <<provider, pending, encMu, doing, reply, ctx, runVars,
                 agentVars, stdin, stdinOpen>>

(* Then the calls that are pending, unless their channel is full; one that *)
(* is stored meanwhile sees the flag.                                      *)
Wake ==
  /\ at[Reader] = "waking" /\ Goto(Reader, "ended")
  /\ reply' = [c \in Callers |->
                 IF reply[c] = Nothing /\ Call(c) \in pending THEN "error"
                 ELSE reply[c]]
  /\ UNCHANGED <<provider, closed, pending, encMu, doing, ctx, runVars,
                 agentVars, pipeVars>>

-----------------------------------------------------------------------------
(* The agent, of which nothing is certain.                                 *)

(* What it says when the reader has ended is not heard, and left out. *)
Say(kind, call) ==
  /\ at[Reader] \notin {"waking", "ended"} /\ Len(stdout) < OutCap
  /\ stdout' = Append(stdout, [kind |-> kind, of |-> call])

Rest == UNCHANGED <<provider, closed, pending, encMu, at, doing, reply, ctx,
                    runVars, stdinOpen>>

AgentReads ==
  /\ process = "up" /\ stdin # <<>>
  /\ stdin' = Tail(stdin)
  /\ got' = IF Head(stdin)[2] \in {"cancel", "permit"} THEN got
            ELSE got \cup {Head(stdin)}
  /\ Rest /\ UNCHANGED <<process, says, sent, stdout>>

AgentAnswers ==
  /\ process = "up"
  /\ \E call \in got, kind \in Answers : Say(kind, call) /\ got' = got \ {call}
  /\ Rest /\ UNCHANGED <<process, says, sent, stdin>>

AgentTalks(r) ==
  /\ process = "up" /\ <<r, "prompt">> \in got /\ says > 0
  /\ Say("chunk", <<r, "prompt">>)
  /\ sent' = [sent EXCEPT ![r] = @ + 1] /\ says' = says - 1
  /\ Rest /\ UNCHANGED <<process, got, stdin>>

AgentAsks(r) ==
  /\ process = "up" /\ <<r, "prompt">> \in got /\ says > 0
  /\ Say("ask", <<r, "prompt">>)
  /\ says' = says - 1
  /\ Rest /\ UNCHANGED <<process, got, sent, stdin>>

AgentExits ==
  /\ process = "up" /\ Dies
  /\ Rest /\ UNCHANGED stdout

-----------------------------------------------------------------------------
Send(s)    == Enter(s) \/ Write(s)
CallOf(c)  == Store(c) \/ Send(c) \/ Receive(c) \/ GiveUp(c)
Session(r) == NoSession(r) \/ Tune(r) \/ Prompt(r) \/ Finish(r)
Run(r)     == CallOf(r) \/ Session(r)
Own        == Start \/ CallOf(Owner) \/ Started
ReadLoop   == \/ Send(Reader)
              \/ ReadAnswer \/ ReadChunk \/ ReadAsk \/ HangUp \/ Wake
Agent      == \/ AgentReads \/ AgentAnswers \/ AgentExits
              \/ \E r \in Runs : AgentTalks(r) \/ AgentAsks(r)

(* What goes on by itself: the code, the timeouts and the killing. *)
Code == \/ \E r \in Runs : Run(r) \/ Expire(r)
        \/ Own \/ Reap \/ ContextEnds \/ Kill \/ ReadLoop

Next == Code \/ Shut \/ Agent \/ \E r \in Runs : Begin(r)

Spec == Init /\ [][Next]_vars

(* The agent need not do anything, nor need anybody begin.  Every behaviour *)
(* comes to a stop, so it is enough that it does not while Code has a step. *)
Fairness == WF_vars(Code)

FairSpec == Spec /\ Fairness

-----------------------------------------------------------------------------
TypeOK ==
  /\ closed \in BOOLEAN /\ stdinOpen \in BOOLEAN
  /\ pending \in SUBSET (Callers \X Methods)
  /\ encMu \in Senders \cup {NoOne}
  /\ reply \in [Callers -> Answers \cup {Nothing}]
  /\ ctx \in [Callers -> BOOLEAN]
  /\ streams \in [Runs -> Nat \cup {Nothing}]
  /\ text \in [Runs -> Nat \cup {Nothing, Failed}]
  /\ Len(stdin) <= InCap /\ Len(stdout) <= OutCap

(* Once the reader has ended nobody waits for an answer that cannot come:  *)
(* a call stored before the flag is woken, one stored after it sees the    *)
(* flag before it writes (transport.go, call, send and markClosed).        *)
NoStrandedCall ==
  at[Reader] = "ended" =>
    \A c \in Callers : at[c] = "wait" => reply[c] # Nothing

(* The text of a Run is all the agent said for it before its answer: the   *)
(* stream is opened before the prompt is sent, and the reader takes lines  *)
(* in their order (acpcore.go, session.Run; transport.go, readLoop).       *)
TextIsWhole ==
  \A r \in Runs : text[r] \in Nat => text[r] = sent[r]

(* An agent that was started is killed at the deadline of the run and not  *)
(* before.  The pipeline, which cancels the context of Start, kills it at  *)
(* once (pipeline.go, runAnalysis; configuration AcpTransport_start).      *)
StartedAgentServes ==
  [][Kill /\ provider = "started" => \A r \in Runs : ctx[r]]_vars

(* Every Run returns, whatever the agent does.  It is the end of the context   *)
(* of Start, which kills the agent, that frees a blocked write: the        *)
(* timeout of the Run alone does not (transport.go, send; configuration    *)
(* AcpTransport_write).                                                    *)
EveryRunReturns ==
  <>[](\A r \in Runs : at[r] \in {"idle", "done"})
=============================================================================
