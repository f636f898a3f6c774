----------------------------- MODULE AgentExec ----------------------------
(***************************************************************************)
(* `poqman exec`: pkg/cli/exec.go and the client of pkg/runtime/agent.go   *)
(* on the host, cmd/poqman-agent/main.go in the guest, and the serial port *)
(* between them, in a machine whose process 1 is PoqmanInit.               *)
(*                                                                         *)
(* The port is one stream in each direction that outlives its connections: *)
(* QEMU serves one connection at a time, keeps the others waiting, and     *)
(* what is under way when a connection ends may or may not be lost.        *)
(***************************************************************************)
EXTENDS PoqmanInit

CONSTANTS
  Client,      \* `poqman exec` commands
  NoClient,
  AgentRuns,   \* something in the image starts poqman-agent
  MaxAttempts, \* 30 in the code
  MaxKills

ASSUME ExecAssumption ==
  /\ NoClient \notin Client
  /\ AgentRuns \in BOOLEAN
  /\ MaxAttempts \in Nat \ {0} /\ MaxKills \in Nat

VARIABLES
  agent,     \* what the agent is doing
  job,       \* whose command it is doing that for
  place,     \* where each exec is
  attempts,  \* connections it has made
  result,    \* what it reports in the end
  conn, backlog,       \* the connection QEMU serves; those that wait
  requests, answers,   \* the two streams
  runs,      \* how often the command of each exec was started
  kills, abandoned     \* an exec was killed before its answers came

execVars == <<agent, job, place, attempts, result, conn, backlog, requests,
              answers, runs, kills, abandoned>>
vars == <<initVars, execVars>>
port == <<conn, backlog, requests, answers>>
exec == <<place, attempts, result, kills, abandoned>>

Waiting == {"queued", "ping", "exec"}
Request == [from : Client, kind : {"ping", "execute"}]
Answer == [of : Client, kind : {"ok", "exit", "error"}]

TypeOK ==
  /\ InitTypeOK
  /\ agent \in {"absent", "reading", "running", "draining", "answering"}
  /\ job \in Client \cup {NoClient}
  /\ place \in [Client -> Waiting \cup {"new", "closed", "done", "killed"}]
  /\ attempts \in [Client -> 0..MaxAttempts]
  /\ result \in [Client -> {"none", "error", "own", "foreign"}]
  /\ conn \in Client \cup {NoClient}
  /\ backlog \in Seq(Client) /\ requests \in Seq(Request) /\ answers \in Seq(Answer)
  /\ runs \in [Client -> 0..MaxAttempts]
  /\ kills \in 0..MaxKills /\ abandoned \in BOOLEAN

Init ==
  /\ InitInit
  /\ agent = "absent" /\ job = NoClient
  /\ place = [c \in Client |-> "new"] /\ attempts = [c \in Client |-> 0]
  /\ result = [c \in Client |-> "none"] /\ runs = [c \in Client |-> 0]
  /\ conn = NoClient /\ backlog = <<>> /\ requests = <<>> /\ answers = <<>>
  /\ kills = 0 /\ abandoned = FALSE

-----------------------------------------------------------------------------
(* poqman-agent: one request after the other. *)

(* What nobody is connected for may be thrown away. *)
Send(answer) ==
  \/ answers' = Append(answers, answer)
  \/ conn = NoClient /\ UNCHANGED answers

AgentOpens ==
  /\ AgentRuns /\ agent = "absent" /\ main = "running" /\ agent' = "reading"
  /\ UNCHANGED <<job, runs>> /\ UNCHANGED port

ServePing ==
  /\ agent = "reading" /\ requests # <<>> /\ Head(requests).kind = "ping"
  /\ requests' = Tail(requests)
  /\ Send([of |-> Head(requests).from, kind |-> "ok"])
  /\ UNCHANGED <<agent, job, conn, backlog, runs>>

(* Mutant: after the error the handler goes on to its normal answer. *)
ServeTwice ==
  /\ agent = "reading" /\ requests # <<>> /\ Head(requests).kind = "execute"
  /\ LET c == Head(requests).from IN
     \/ /\ agent' = "running" /\ job' = c
        /\ runs' = [runs EXCEPT ![c] = @ + 1] /\ UNCHANGED answers
     \/ /\ answers' = answers \o <<[of |-> c, kind |-> "error"],
                                   [of |-> c, kind |-> "exit"]>>
        /\ UNCHANGED <<agent, job, runs>>
  /\ requests' = Tail(requests)
  /\ UNCHANGED <<conn, backlog>>

(* Mutant: a command that cannot be started gets no answer. *)
ServeSilently ==
  /\ agent = "reading" /\ requests # <<>> /\ Head(requests).kind = "execute"
  /\ LET c == Head(requests).from IN
     \/ /\ agent' = "running" /\ job' = c /\ runs' = [runs EXCEPT ![c] = @ + 1]
     \/ UNCHANGED <<agent, job, runs>>
  /\ requests' = Tail(requests)
  /\ UNCHANGED <<conn, backlog, answers>>

(* handleExecute up to cmd.Start, which may fail. *)
ServeExecute ==
  /\ agent = "reading" /\ requests # <<>> /\ Head(requests).kind = "execute"
  /\ LET c == Head(requests).from IN
     \/ /\ agent' = "running" /\ job' = c
        /\ runs' = [runs EXCEPT ![c] = @ + 1] /\ UNCHANGED answers
     \/ /\ Send([of |-> c, kind |-> "error"]) /\ UNCHANGED <<agent, job, runs>>
  /\ requests' = Tail(requests)
  /\ UNCHANGED <<conn, backlog>>

(* The command ends and may leave a process behind, to be adopted by       *)
(* process 1; the agent reads the pipes until nobody can write to them.    *)
JobEnds ==
  /\ agent = "running"
  /\ \/ agent' = "answering" /\ orphans' = orphans
     \/ /\ orphans < MaxOrphans /\ orphans' = orphans + 1
        /\ agent' \in {"answering", "draining"}
  /\ UNCHANGED <<job, runs>> /\ UNCHANGED port /\ UNCHANGED booting
  /\ UNCHANGED <<main, notified, sigCh, handler, power, asked, bereaved>>

PipeHolderDies ==
  /\ agent = "draining" /\ agent' = "answering"
  /\ OrphanDies
  /\ UNCHANGED <<job, runs>> /\ UNCHANGED port

AnswerExecute ==
  /\ agent = "answering" /\ agent' = "reading" /\ job' = NoClient
  /\ Send([of |-> job, kind |-> "exit"])
  /\ UNCHANGED <<conn, backlog, requests, runs>>

-----------------------------------------------------------------------------
(* poqman exec *)

(* Close, after `read` answers were taken from the stream; the last of     *)
(* what c has sent may be lost.                                            *)
ClosePort(c, read) ==
  IF conn = c
    THEN /\ conn' = NoClient
         /\ \E n \in 0..Len(requests) :
              /\ \A i \in n + 1 .. Len(requests) : requests[i].from = c
              /\ requests' = SubSeq(requests, 1, n)
         /\ \E n \in read..Len(answers) : answers' = SubSeq(answers, n + 1, Len(answers))
    ELSE UNCHANGED <<conn, requests, answers>>

Finish(c, how) ==
  /\ place' = [place EXCEPT ![c] = "done"]
  /\ result' = [result EXCEPT ![c] = how]
  /\ UNCHANGED <<attempts, kills, abandoned>>

(* QEMU listens from its start, so that connecting succeeds before there   *)
(* is an agent; the ping is written at once.                               *)
Connect(c) ==
  /\ place[c] \in {"new", "closed"} /\ attempts[c] < MaxAttempts
  /\ place' = [place EXCEPT ![c] = "queued"]
  /\ attempts' = [attempts EXCEPT ![c] = @ + 1]
  /\ backlog' = Append(backlog, c)
  /\ UNCHANGED <<result, kills, abandoned, conn, requests, answers>>

(* After the last attempt Execute is called on the closed connection. *)
GiveUp(c) ==
  /\ place[c] = "closed" /\ attempts[c] = MaxAttempts
  /\ Finish(c, "error") /\ UNCHANGED port

Ping(c) == [from |-> c, kind |-> "ping"]

(* QEMU takes the next connection, that of a killed exec included. *)
Accept ==
  /\ conn = NoClient /\ backlog # <<>>
  /\ backlog' = Tail(backlog)
  /\ LET c == Head(backlog) IN
     \/ /\ place[c] = "queued" /\ conn' = c
        /\ place' = [place EXCEPT ![c] = "ping"]
        /\ requests' = Append(requests, Ping(c))
     \/ /\ place[c] # "queued"
        /\ requests' \in {requests, Append(requests, Ping(c))}
        /\ UNCHANGED <<place, conn>>
  /\ UNCHANGED <<attempts, result, kills, abandoned, answers>>

(* sendAndReceive takes the next line for its answer.  An answer to Ping   *)
(* that does not say OK closes the connection.                             *)
ReadPong(c) ==
  /\ place[c] = "ping" /\ answers # <<>>
  /\ IF Head(answers).kind = "ok"
       THEN /\ place' = [place EXCEPT ![c] = "exec"]
            /\ answers' = Tail(answers)
            /\ requests' = Append(requests, [from |-> c, kind |-> "execute"])
            /\ UNCHANGED conn
       ELSE place' = [place EXCEPT ![c] = "closed"] /\ ClosePort(c, 1)
  /\ UNCHANGED <<backlog, attempts, result, kills, abandoned>>

(* The answer to Execute; one longer than 64 KB is an error of the scanner.*)
ReadResult(c) ==
  /\ place[c] = "exec" /\ answers # <<>>
  /\ LET a == Head(answers) IN
     \/ a.kind # "ok" /\ Finish(c, "error")
     \/ a = [of |-> c, kind |-> "exit"] /\ Finish(c, "own")
     \/ a.kind # "error" /\ a # [of |-> c, kind |-> "exit"] /\ Finish(c, "foreign")
  /\ ClosePort(c, 1)
  /\ UNCHANGED backlog

KillExec(c) ==
  /\ place[c] \in Waiting /\ kills < MaxKills
  /\ kills' = kills + 1 /\ abandoned' = TRUE
  /\ place' = [place EXCEPT ![c] = "killed"]
  /\ ClosePort(c, 0)
  /\ UNCHANGED <<backlog, attempts, result>>

(* QEMU is gone, and with it the socket. *)
HangUp(c) ==
  /\ power = "off" /\ place[c] \in Waiting \cup {"new", "closed"}
  /\ Finish(c, "error") /\ UNCHANGED port

-----------------------------------------------------------------------------
AgentStep == AgentOpens \/ ServePing \/ ServeExecute \/ AnswerExecute
ExecStep(c) == Connect(c) \/ GiveUp(c) \/ ReadPong(c) \/ ReadResult(c) \/ KillExec(c)

PoweredOn ==
  \/ InitStep /\ UNCHANGED execVars
  \/ (MainEnds \/ Adopt \/ Terminate) /\ UNCHANGED execVars
  \/ OrphanDies /\ (agent = "draining" => orphans > 1) /\ UNCHANGED execVars
  \/ AgentStep /\ UNCHANGED <<initVars, exec>>
  \/ (JobEnds \/ PipeHolderDies) /\ UNCHANGED exec
  \/ Accept /\ UNCHANGED <<initVars, agent, job, runs>>
  \/ \E c \in Client : ExecStep(c) /\ UNCHANGED <<initVars, agent, job, runs>>

Next ==
  \/ power = "on" /\ PoweredOn
  \/ \E c \in Client : HangUp(c) /\ UNCHANGED <<initVars, agent, job, runs>>

Spec == Init /\ [][Next]_vars

(* The guest schedules process 1 and the agent, the host schedules exec    *)
(* and QEMU; a command given to exec ends, and so does what it leaves      *)
(* behind.  The container's own command need not end.                      *)
On(A) == power = "on" /\ A
Fairness ==
  /\ WF_vars(On(InitStep) /\ UNCHANGED execVars)
  /\ WF_vars(On(AgentStep) /\ UNCHANGED <<initVars, exec>>)
  /\ WF_vars(On(JobEnds \/ PipeHolderDies) /\ UNCHANGED exec)
  /\ WF_vars(On(Accept) /\ UNCHANGED <<initVars, agent, job, runs>>)
  /\ \A c \in Client :
       WF_vars((On(Connect(c) \/ GiveUp(c) \/ ReadPong(c) \/ ReadResult(c)) \/ HangUp(c))
                 /\ UNCHANGED <<initVars, agent, job, runs>>)

FairSpec == Spec /\ Fairness
=============================================================================
