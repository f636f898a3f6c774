---------------------------- MODULE GuestProofs ---------------------------
(***************************************************************************)
(* Proofs about process 1 and `poqman exec`, for any containers, modules,  *)
(* execs, attempts and kills.                                              *)
(***************************************************************************)
EXTENDS GuestProperties, SequenceTheorems, WellFoundedInduction, TLAPS

-----------------------------------------------------------------------------
(* What the signals that process 1 reads stand for.  Signals are received  *)
(* only from signal.Notify on, when the ip commands have all ended.        *)
SignalInv ==
  /\ notified => at = "wait"
  /\ ~notified => sigCh = <<>>
  /\ sigCh \in {<<>>, <<"CHLD">>, <<"TERM">>}
  /\ sigCh = <<"CHLD">> => main = "ended" \/ bereaved
  /\ sigCh = <<"TERM">> => asked
  /\ handler = "grace" => asked

LEMMA SignalInit == Init => SignalInv
BY DEF Init, InitInit, SignalInv

LEMMA SignalStep == SignalInv /\ [Next]_vars => SignalInv'
<1> SUFFICES ASSUME SignalInv, [Next]_vars PROVE SignalInv'
  OBVIOUS
<1> USE DEF SignalInv
<1>1. CASE UNCHANGED initVars
  BY <1>1 DEF initVars
<1>2. CASE InitStep
  <2>1. CASE Boot
    BY <2>1 DEF Boot, Goto, Off, running
  <2>2. CASE LoadModule \/ EndOfPass
    BY <2>2 DEF LoadModule, EndOfPass, Goto, running
  <2>3. CASE MountRoot
    BY <2>3 DEF MountRoot, Goto, Off, running
  <2>4. CASE Setup
    BY <2>4 DEF Setup, Goto, running
  <2>5. CASE IpCommand
    BY <2>5 DEF IpCommand, IpSteps, Goto, Post
  <2>6. CASE MountVolumes
    BY <2>6 DEF MountVolumes, Goto, running
  <2>7. CASE StartMain
    BY <2>7 DEF StartMain, Goto, Off
  <2>8. CASE Notify
    BY <2>8 DEF Notify, Goto
  <2>9. CASE WaitReturns
    BY <2>9 DEF WaitReturns, Off, booting
  <2>10. CASE HandleSignal
    <3>1. sigCh[1] # "CHLD" => asked
      BY <2>10 DEF HandleSignal
    <3> QED
      BY <2>10, <3>1 DEF HandleSignal, booting
  <2>11. CASE GraceOver
    BY <2>11 DEF GraceOver, booting
  <2> QED
    BY <1>2, <2>1, <2>2, <2>3, <2>4, <2>5, <2>6, <2>7, <2>8, <2>9, <2>10, <2>11
    DEF InitStep
<1>3. CASE MainEnds
  BY <1>3 DEF MainEnds, Post, booting
<1>4. CASE Adopt
  BY <1>4 DEF Adopt, booting
<1>5. CASE Terminate
  BY <1>5 DEF Terminate, Post, booting
<1>6. CASE OrphanDies
  BY <1>6 DEF OrphanDies, Post, booting
<1>7. CASE JobEnds
  BY <1>7 DEF JobEnds, booting
<1> QED
  BY <1>1, <1>2, <1>3, <1>4, <1>5, <1>6, <1>7
  DEF Next, PoweredOn, vars, PipeHolderDies

(* The step of PowersOffForAReason. *)
LEMMA PowerStep ==
  ASSUME SignalInv, [Next]_vars, power' # power
  PROVE  at \in {"boot", "root", "start"} \/ main = "ended" \/ asked \/ bereaved
<1> USE DEF SignalInv
<1>1. CASE UNCHANGED power
  BY <1>1
<1>2. CASE InitStep
  <2>1. CASE Boot \/ MountRoot \/ StartMain \/ WaitReturns \/ GraceOver
    BY <2>1 DEF Boot, MountRoot, StartMain, WaitReturns, GraceOver
  <2>2. CASE HandleSignal
    BY <2>2 DEF HandleSignal
  <2>3. CASE LoadModule \/ EndOfPass \/ Setup \/ IpCommand \/ MountVolumes \/ Notify
    BY <2>3 DEF LoadModule, EndOfPass, Setup, IpCommand, MountVolumes, Notify, running
  <2> QED
    BY <1>2, <2>1, <2>2, <2>3 DEF InitStep
<1>3. CASE MainEnds \/ Adopt \/ Terminate \/ OrphanDies \/ JobEnds
  BY <1>3 DEF MainEnds, Adopt, Terminate, OrphanDies, JobEnds
<1> QED
  BY <1>1, <1>2, <1>3 DEF Next, PoweredOn, vars, initVars, PipeHolderDies

(* A machine that has reached its command goes off only when the command   *)
(* has ended, SIGTERM was sent or an adopted process has died, for every   *)
(* container, and however signals and the two goroutines interleave        *)
(* (poqman-init/main.go:60-90).                                            *)
THEOREM PowerOffHasReason == Spec => PowersOffForAReason
<1>1. SignalInv /\ [Next]_vars =>
        [power' # power => at \in {"boot", "root", "start"} \/ main = "ended"
                             \/ asked \/ bereaved]_vars
  BY PowerStep
<1> QED
  BY SignalInit, SignalStep, <1>1, PTL DEF Spec, PowersOffForAReason

-----------------------------------------------------------------------------
(* What exec and the agent know of each other.                             *)

AgentIdle == agent \in {"absent", "reading"}
HasAsked == {"exec", "done", "killed"}

(* The variables of exec, the port and the agent.                          *)
PortTypeOK ==
  /\ agent \in {"absent", "reading", "running", "draining", "answering"}
  /\ job \in Client \cup {NoClient}
  /\ place \in [Client -> Waiting \cup {"new", "closed", "done", "killed"}]
  /\ result \in [Client -> {"none", "error", "own", "foreign"}]
  /\ conn \in Client \cup {NoClient}
  /\ backlog \in Seq(Client) /\ requests \in Seq(Request) /\ answers \in Seq(Answer)
  /\ runs \in [Client -> {0, 1}]
  /\ abandoned \in BOOLEAN

(* At any time, whoever was killed: a request to execute is the only one   *)
(* of its exec, which has gone on to wait for the answer, and its command  *)
(* has not been started; the commands that run and the exits in the stream *)
(* are those of commands that have been started.                           *)
ServedInv ==
  /\ \A i \in 1..Len(requests) : requests[i].kind = "execute" =>
       /\ runs[requests[i].from] = 0
       /\ place[requests[i].from] \in HasAsked
       /\ \A j \in 1..Len(requests) : requests[j] = requests[i] => j = i
  /\ ~AgentIdle => job \in Client /\ runs[job] = 1
  /\ \A i \in 1..Len(answers) : answers[i].kind = "exit" => runs[answers[i].of] = 1
  /\ \A c \in Client : runs[c] = 1 => place[c] \in HasAsked
  /\ \A c \in Client : place[c] # "done" => result[c] = "none"

(* As long as no exec was killed and the machine runs: what is under way   *)
(* is for the exec that QEMU serves, one request, one command or one       *)
(* answer; the others wait for their turn.                                 *)
Only(stream, message) == Len(stream) = 1 /\ stream[1] = message
Empty(stream) == Len(stream) = 0

OneUnderWay(c) ==
  \/ /\ place[c] = "ping" /\ AgentIdle
     /\ \/ Only(requests, Ping(c)) /\ Empty(answers)
        \/ Empty(requests) /\ Only(answers, [of |-> c, kind |-> "ok"])
  \/ /\ place[c] = "exec"
     /\ \/ AgentIdle /\ Only(requests, [from |-> c, kind |-> "execute"]) /\ Empty(answers)
        \/ ~AgentIdle /\ job = c /\ Empty(requests) /\ Empty(answers)
        \/ /\ AgentIdle /\ Empty(requests)
           /\ \E kind \in {"exit", "error"} : Only(answers, [of |-> c, kind |-> kind])

TurnInv ==
  ~abandoned /\ power = "on" =>
    /\ conn = NoClient => Empty(requests) /\ Empty(answers) /\ AgentIdle
    /\ conn # NoClient => OneUnderWay(conn)
    /\ \A c \in Client : place[c] \in {"ping", "exec"} => c = conn
    /\ \A i \in 1..Len(backlog) :
         /\ place[backlog[i]] = "queued"
         /\ \A j \in 1..Len(backlog) : backlog[j] = backlog[i] => j = i

PortInv == PortTypeOK /\ ServedInv /\ TurnInv

(* Taking the first message of a stream, adding one, and losing some.      *)
LEMMA TailFacts ==
  ASSUME NEW S, NEW s \in Seq(S), s # <<>>
  PROVE  /\ Head(s) \in S /\ Head(s) = s[1] /\ 1 \in 1..Len(s)
         /\ Tail(s) \in Seq(S) /\ Len(Tail(s)) = Len(s) - 1
         /\ \A i \in 1..Len(Tail(s)) : i + 1 \in 1..Len(s) /\ Tail(s)[i] = s[i + 1]
<1>1. Len(s) \in Nat \ {0}
  BY EmptySeq
<1>2. Head(s) = s[1]
  OBVIOUS
<1> QED
  BY <1>1, <1>2, HeadTailProperties

LEMMA AppendFacts ==
  ASSUME NEW S, NEW s \in Seq(S), NEW e \in S
  PROVE  /\ Append(s, e) \in Seq(S) /\ Len(Append(s, e)) = Len(s) + 1
         /\ \A i \in 1..Len(Append(s, e)) :
              \/ i \in 1..Len(s) /\ Append(s, e)[i] = s[i]
              \/ i = Len(s) + 1 /\ Append(s, e)[i] = e
         /\ Append(s, e)[Len(s) + 1] = e
<1>1. Len(s) \in Nat
  BY LenProperties
<1> QED
  BY <1>1, AppendProperties

LEMMA ClosePortFacts ==
  ASSUME PortTypeOK, NEW c \in Client, NEW read \in {0, 1}, read <= Len(answers),
         ClosePort(c, read)
  PROVE  /\ conn' = IF conn = c THEN NoClient ELSE conn
         /\ requests' \in Seq(Request) /\ answers' \in Seq(Answer)
         /\ \A i \in 1..Len(requests') : i \in 1..Len(requests) /\ requests'[i] = requests[i]
         /\ \A i \in 1..Len(answers') : \E j \in 1..Len(answers) : answers'[i] = answers[j]
         /\ conn = c /\ Empty(requests) => Empty(requests')
         /\ conn = c /\ Len(answers) = read => Empty(answers')
<1> USE DEF PortTypeOK
<1>1. CASE conn # c
  BY <1>1 DEF ClosePort
<1>2. CASE conn = c
  <2>1. PICK n \in 0..Len(requests) : requests' = SubSeq(requests, 1, n)
    BY <1>2 DEF ClosePort
  <2>2. PICK m \in read..Len(answers) : answers' = SubSeq(answers, m + 1, Len(answers))
    BY <1>2 DEF ClosePort
  <2>3. /\ requests' \in Seq(Request)
        /\ \A i \in 1..Len(requests') : i \in 1..Len(requests) /\ requests'[i] = requests[i]
        /\ Empty(requests) => Empty(requests')
    BY <2>1, LenProperties DEF Empty
  <2>4. /\ answers' \in Seq(Answer)
        /\ \A i \in 1..Len(answers') :
             i + m \in 1..Len(answers) /\ answers'[i] = answers[i + m]
        /\ Len(answers) = read => Empty(answers')
    BY <2>2, LenProperties DEF Empty
  <2>5. \A i \in 1..Len(answers') : \E j \in 1..Len(answers) : answers'[i] = answers[j]
    BY <2>4
  <2> QED
    BY <1>2, <2>3, <2>4, <2>5 DEF ClosePort
<1> QED
  BY <1>1, <1>2

LEMMA RequestTypes ==
  ASSUME PortTypeOK
  PROVE  \A i \in 1..Len(requests) : requests[i] \in Request /\ requests[i].from \in Client
<1>1. \A i \in 1..Len(requests) : requests[i] \in Request
  BY ElementOfSeq DEF PortTypeOK
<1> QED
  BY <1>1 DEF Request

LEMMA PortInit == Init => PortInv
<1> SUFFICES ASSUME Init PROVE PortInv
  OBVIOUS
<1> USE DEF Init
<1>1. PortTypeOK
  BY EmptySeq DEF PortTypeOK, Waiting
<1>2. ServedInv
  BY EmptySeq DEF ServedInv, AgentIdle
<1>3. TurnInv
  BY EmptySeq DEF TurnInv, AgentIdle, Empty
<1> QED
  BY <1>1, <1>2, <1>3 DEF PortInv

LEMMA PortStutter ==
  ASSUME PortInv, power = "on" \/ UNCHANGED power, UNCHANGED execVars
  PROVE  PortInv'
BY DEF PortInv, PortTypeOK, ServedInv, TurnInv, OneUnderWay, Only, Empty, AgentIdle,
       Ping, execVars

-----------------------------------------------------------------------------
(* The agent. *)

LEMMA AgentOpensInv ==
  ASSUME PortInv, power = "on", AgentOpens, UNCHANGED <<initVars, exec>>
  PROVE  PortInv'
BY DEF PortInv, PortTypeOK, ServedInv, TurnInv, OneUnderWay, Only, Empty, AgentIdle,
       Ping, AgentOpens, port, exec, initVars

(* What Send does to the stream. *)
LEMMA SendFacts ==
  ASSUME PortTypeOK, NEW answer \in Answer, Send(answer)
  PROVE  /\ answers' \in Seq(Answer)
         /\ \A i \in 1..Len(answers') :
              \/ i \in 1..Len(answers) /\ answers'[i] = answers[i]
              \/ answers'[i] = answer
         /\ conn # NoClient /\ Empty(answers) => Only(answers', answer)
<1>1. CASE answers' = Append(answers, answer)
  <2>1. answers \in Seq(Answer) /\ Len(answers) \in Nat
    BY LenProperties DEF PortTypeOK
  <2> QED
    BY <1>1, <2>1, AppendFacts DEF Only, Empty
<1>2. CASE conn = NoClient /\ UNCHANGED answers
  BY <1>2 DEF PortTypeOK
<1> QED
  BY <1>1, <1>2 DEF Send

LEMMA ServePingInv ==
  ASSUME PortInv, power = "on", ServePing, UNCHANGED <<initVars, exec>>
  PROVE  PortInv'
<1> DEFINE request == Head(requests)
           answer == [of |-> request.from, kind |-> "ok"]
<1> USE DEF PortInv
<1>1. /\ request \in Request /\ request = requests[1] /\ 1 \in 1..Len(requests)
      /\ requests' \in Seq(Request) /\ Len(requests') = Len(requests) - 1
      /\ \A i \in 1..Len(requests') :
           i + 1 \in 1..Len(requests) /\ requests'[i] = requests[i + 1]
  BY TailFacts DEF PortTypeOK, ServePing
<1>2. answer \in Answer
  BY <1>1 DEF Request, Answer
<1>3. /\ answers' \in Seq(Answer)
      /\ \A i \in 1..Len(answers') :
           \/ i \in 1..Len(answers) /\ answers'[i] = answers[i]
           \/ answers'[i] = answer
      /\ conn # NoClient /\ Empty(answers) => Only(answers', answer)
  BY <1>2, SendFacts DEF ServePing
<1>4. PortTypeOK'
  BY <1>1, <1>3 DEF PortTypeOK, ServePing, exec
<1>5. ServedInv'
  <2>1. \A i \in 1..Len(requests') : requests'[i].kind = "execute" =>
          /\ runs[requests'[i].from] = 0 /\ place[requests'[i].from] \in HasAsked
          /\ \A j \in 1..Len(requests') : requests'[j] = requests'[i] => j = i
    <3> SUFFICES ASSUME NEW i \in 1..Len(requests'), requests'[i].kind = "execute"
                 PROVE  /\ runs[requests'[i].from] = 0
                        /\ place[requests'[i].from] \in HasAsked
                        /\ \A j \in 1..Len(requests') : requests'[j] = requests'[i] => j = i
      OBVIOUS
    <3>1. i + 1 \in 1..Len(requests) /\ requests'[i] = requests[i + 1]
      BY <1>1
    <3>2. /\ runs[requests[i + 1].from] = 0 /\ place[requests[i + 1].from] \in HasAsked
          /\ \A j \in 1..Len(requests) : requests[j] = requests[i + 1] => j = i + 1
      BY <3>1 DEF ServedInv
    <3>3. ASSUME NEW j \in 1..Len(requests'), requests'[j] = requests'[i] PROVE j = i
      <4>1. j + 1 \in 1..Len(requests) /\ requests[j + 1] = requests[i + 1]
        BY <1>1, <3>1, <3>3
      <4>2. j + 1 = i + 1
        BY <3>2, <4>1
      <4> QED
        BY <4>2
    <3> QED
      BY <3>1, <3>2, <3>3
  <2>2. \A i \in 1..Len(answers') :
          answers'[i].kind = "exit" => runs[answers'[i].of] = 1
    BY <1>3 DEF ServedInv
  <2> QED
    BY <2>1, <2>2 DEF ServedInv, ServePing, exec, AgentIdle
<1>6. TurnInv'
  <2> SUFFICES ASSUME ~abandoned PROVE TurnInv'
    BY DEF TurnInv, exec
  <2>1. conn # NoClient /\ OneUnderWay(conn)
    BY <1>1 DEF TurnInv, Empty
  <2>2. /\ place[conn] = "ping" /\ Only(requests, Ping(conn)) /\ Empty(answers)
    BY <2>1, <1>1 DEF OneUnderWay, Only, Empty, ServePing, Ping
  <2>3. Empty(requests') /\ Only(answers', [of |-> conn, kind |-> "ok"])
    BY <2>1, <2>2, <1>1, <1>3 DEF Only, Empty, Ping
  <2> QED
    BY <2>1, <2>2, <2>3 DEF TurnInv, OneUnderWay, ServePing, exec, AgentIdle, Only, Empty
<1> QED
  BY <1>4, <1>5, <1>6

LEMMA ServeExecuteInv ==
  ASSUME PortInv, power = "on", ServeExecute, UNCHANGED <<initVars, exec>>
  PROVE  /\ PortInv'
         /\ \/ UNCHANGED runs
            \/ \E c \in Client : /\ runs[c] = 0
                                 /\ result[c] = "none" \/ abandoned
                                 /\ runs' = [runs EXCEPT ![c] = 1]
<1> DEFINE c == Head(requests).from
           answer == [of |-> c, kind |-> "error"]
<1> USE DEF PortInv
<1>1. /\ Head(requests) \in Request /\ Head(requests) = requests[1]
      /\ 1 \in 1..Len(requests)
      /\ requests' \in Seq(Request) /\ Len(requests') = Len(requests) - 1
      /\ \A i \in 1..Len(requests') :
           i + 1 \in 1..Len(requests) /\ requests'[i] = requests[i + 1]
  BY TailFacts DEF PortTypeOK, ServeExecute
<1>2. /\ c \in Client /\ answer \in Answer
      /\ requests[1] = [from |-> c, kind |-> "execute"]
      /\ runs[c] = 0 /\ place[c] \in HasAsked
      /\ \A j \in 1..Len(requests) : requests[j] = requests[1] => j = 1
  BY <1>1 DEF Request, Answer, ServedInv, ServeExecute
<1>3. \A i \in 1..Len(requests') : requests'[i].kind = "execute" =>
        /\ requests'[i].from # c /\ runs[requests'[i].from] = 0
        /\ place[requests'[i].from] \in HasAsked
        /\ \A j \in 1..Len(requests') : requests'[j] = requests'[i] => j = i
  <2> SUFFICES ASSUME NEW i \in 1..Len(requests'), requests'[i].kind = "execute"
               PROVE  /\ requests'[i].from # c /\ runs[requests'[i].from] = 0
                      /\ place[requests'[i].from] \in HasAsked
                      /\ \A j \in 1..Len(requests') : requests'[j] = requests'[i] => j = i
    OBVIOUS
  <2>1. requests'[i] \in Request
    BY <1>1, ElementOfSeq
  <2>2. requests'[i].from = c => requests'[i] = requests[1]
    BY <2>1, <1>2 DEF Request
  <2>3. i + 1 \in 1..Len(requests) /\ requests'[i] = requests[i + 1]
    BY <1>1
  <2>4. /\ runs[requests[i + 1].from] = 0 /\ place[requests[i + 1].from] \in HasAsked
        /\ \A j \in 1..Len(requests) : requests[j] = requests[i + 1] => j = i + 1
    BY <2>3 DEF ServedInv
  <2>5. ASSUME NEW j \in 1..Len(requests'), requests'[j] = requests'[i] PROVE j = i
    <3>1. j + 1 \in 1..Len(requests) /\ requests[j + 1] = requests[i + 1]
      BY <1>1, <2>3, <2>5
    <3>2. j + 1 = i + 1
      BY <2>4, <3>1
    <3> QED
      BY <3>2
  <2>6. requests'[i].from # c
    BY <1>2, <2>2, <2>3
  <2> QED
    BY <2>3, <2>4, <2>5, <2>6
<1>4. ~abandoned =>
        /\ conn = c /\ place[c] = "exec" /\ result[c] = "none"
        /\ Empty(requests') /\ Empty(answers)
  <2> SUFFICES ASSUME ~abandoned
               PROVE  /\ conn = c /\ place[c] = "exec" /\ result[c] = "none"
                      /\ Empty(requests') /\ Empty(answers)
    OBVIOUS
  <2>1. conn # NoClient /\ OneUnderWay(conn)
    BY <1>1 DEF TurnInv, Empty
  <2>2. /\ place[conn] = "exec" /\ Empty(answers)
        /\ Only(requests, [from |-> conn, kind |-> "execute"])
    BY <2>1, <1>1, <1>2 DEF OneUnderWay, Only, Empty, ServeExecute, Ping
  <2> QED
    BY <2>2, <1>1, <1>2 DEF Only, Empty, ServedInv
<1>5. CASE agent' = "running" /\ job' = c /\ runs' = [runs EXCEPT ![c] = @ + 1]
             /\ UNCHANGED answers
  <2>1. runs' = [runs EXCEPT ![c] = 1] /\ runs' \in [Client -> {0, 1}]
    BY <1>2, <1>5 DEF PortTypeOK
  <2>2. PortTypeOK'
    BY <1>1, <1>2, <1>5, <2>1 DEF PortTypeOK, ServeExecute, exec
  <2>3. ServedInv'
    <3>1. \A i \in 1..Len(requests') : requests'[i].kind = "execute" =>
            /\ runs'[requests'[i].from] = 0 /\ place[requests'[i].from] \in HasAsked
            /\ \A j \in 1..Len(requests') : requests'[j] = requests'[i] => j = i
      <4>1. \A i \in 1..Len(requests') : requests'[i] \in Request
        BY <1>1, ElementOfSeq
      <4>2. \A i \in 1..Len(requests') : requests'[i].from \in Client
        BY <4>1 DEF Request
      <4> QED
        BY <1>3, <2>1, <4>2 DEF PortTypeOK
    <3>2. \A i \in 1..Len(answers) : answers[i].of \in Client
      <4>1. \A i \in 1..Len(answers) : answers[i] \in Answer
        BY ElementOfSeq DEF PortTypeOK
      <4> QED
        BY <4>1 DEF Answer
    <3>3. \A i \in 1..Len(answers) : answers[i].kind = "exit" => runs'[answers[i].of] = 1
      BY <3>2, <1>2, <2>1 DEF ServedInv, PortTypeOK
    <3>4. \A d \in Client : runs'[d] = 1 => place[d] \in HasAsked
      BY <1>2, <2>1 DEF ServedInv, PortTypeOK
    <3>5. runs'[c] = 1
      BY <1>2, <2>1 DEF PortTypeOK
    <3> QED
      BY <1>2, <1>5, <3>1, <3>3, <3>4, <3>5 DEF ServedInv, exec, AgentIdle
  <2>4. TurnInv'
    BY <1>2, <1>4, <1>5 DEF TurnInv, OneUnderWay, ServeExecute, exec, AgentIdle, Empty
  <2> QED
    BY <1>2, <1>4, <2>1, <2>2, <2>3, <2>4
<1>6. CASE Send(answer) /\ UNCHANGED <<agent, job, runs>>
  <2>1. /\ answers' \in Seq(Answer)
        /\ \A i \in 1..Len(answers') :
             \/ i \in 1..Len(answers) /\ answers'[i] = answers[i]
             \/ answers'[i] = answer
        /\ conn # NoClient /\ Empty(answers) => Only(answers', answer)
    BY <1>2, <1>6, SendFacts
  <2>2. PortTypeOK'
    BY <1>1, <1>6, <2>1 DEF PortTypeOK, ServeExecute, exec
  <2>3. ServedInv'
    <3>1. \A i \in 1..Len(answers') :
            answers'[i].kind = "exit" => runs[answers'[i].of] = 1
      BY <2>1 DEF ServedInv
    <3> QED
      BY <1>3, <1>6, <3>1 DEF ServedInv, exec, AgentIdle
  <2>4. TurnInv'
    <3> SUFFICES ASSUME ~abandoned PROVE TurnInv'
      BY DEF TurnInv, exec
    <3>1. conn # NoClient
      BY <1>2, <1>4, ExecAssumption
    <3>2. OneUnderWay(conn)'
      BY <1>4, <1>6, <2>1, <3>1 DEF OneUnderWay, ServeExecute, exec, AgentIdle, Empty, Only
    <3> QED
      BY <3>1, <3>2, <1>6 DEF TurnInv, ServeExecute, exec
  <2> QED
    BY <1>6, <2>2, <2>3, <2>4
<1> QED
  BY <1>5, <1>6 DEF ServeExecute

LEMMA JobEndsInv ==
  ASSUME PortInv, power = "on", JobEnds \/ PipeHolderDies, UNCHANGED exec
  PROVE  PortInv'
<1> USE DEF PortInv
<1>1. /\ ~AgentIdle /\ ~AgentIdle' /\ agent' \in {"answering", "draining"}
      /\ UNCHANGED <<job, runs, power>> /\ UNCHANGED port /\ UNCHANGED exec
  BY DEF JobEnds, PipeHolderDies, OrphanDies, AgentIdle
<1>2. PortTypeOK'
  BY <1>1 DEF PortTypeOK, port, exec
<1>3. ServedInv'
  BY <1>1 DEF ServedInv, port, exec
<1>4. TurnInv'
  BY <1>1 DEF TurnInv, OneUnderWay, Only, Empty, Ping, port, exec
<1> QED
  BY <1>2, <1>3, <1>4

LEMMA AnswerExecuteInv ==
  ASSUME PortInv, power = "on", AnswerExecute, UNCHANGED <<initVars, exec>>
  PROVE  PortInv'
<1> DEFINE answer == [of |-> job, kind |-> "exit"]
<1> USE DEF PortInv
<1>1. /\ ~AgentIdle /\ AgentIdle' /\ agent' = "reading" /\ job' = NoClient
      /\ UNCHANGED <<conn, backlog, requests, runs>> /\ UNCHANGED exec
  BY DEF AnswerExecute, AgentIdle
<1>2. job \in Client /\ runs[job] = 1 /\ answer \in Answer
  BY <1>1 DEF ServedInv, Answer
<1>3. /\ answers' \in Seq(Answer)
      /\ \A i \in 1..Len(answers') :
           \/ i \in 1..Len(answers) /\ answers'[i] = answers[i]
           \/ answers'[i] = answer
      /\ conn # NoClient /\ Empty(answers) => Only(answers', answer)
  BY <1>2, SendFacts DEF AnswerExecute
<1>4. PortTypeOK'
  BY <1>1, <1>3 DEF PortTypeOK, exec
<1>5. ServedInv'
  <2>1. \A i \in 1..Len(answers') :
          answers'[i].kind = "exit" => runs[answers'[i].of] = 1
    BY <1>2, <1>3 DEF ServedInv
  <2> QED
    BY <1>1, <2>1 DEF ServedInv, exec
<1>6. TurnInv'
  <2> SUFFICES ASSUME ~abandoned PROVE TurnInv'
    BY DEF TurnInv, exec
  <2>1. /\ conn # NoClient /\ place[conn] = "exec" /\ job = conn
        /\ Empty(requests) /\ Empty(answers)
    BY <1>1 DEF TurnInv, OneUnderWay
  <2>2. OneUnderWay(conn)'
    BY <1>1, <1>3, <2>1 DEF OneUnderWay, Only, Empty, exec
  <2> QED
    BY <1>1, <2>1, <2>2 DEF TurnInv, exec
<1> QED
  BY <1>4, <1>5, <1>6

-----------------------------------------------------------------------------
(* Exec and QEMU. *)

LEMMA ConnectInv ==
  ASSUME PortInv, power = "on", NEW c \in Client, Connect(c),
         UNCHANGED <<initVars, agent, job, runs>>
  PROVE  PortInv'
<1> USE DEF PortInv
<1>1. /\ place[c] \notin HasAsked /\ place[c] \notin {"queued", "ping"}
      /\ place' = [place EXCEPT ![c] = "queued"] /\ backlog' = Append(backlog, c)
      /\ UNCHANGED <<result, abandoned, conn, requests, answers, agent, job, runs>>
  BY DEF Connect, HasAsked
<1>2. backlog \in Seq(Client) /\ Len(backlog) \in Nat
  BY LenProperties DEF PortTypeOK
<1>3. /\ backlog' \in Seq(Client)
      /\ \A i \in 1..Len(backlog') :
           \/ i \in 1..Len(backlog) /\ backlog'[i] = backlog[i]
           \/ i = Len(backlog) + 1 /\ backlog'[i] = c
  BY <1>1, <1>2, AppendFacts
<1>4. PortTypeOK'
  BY <1>1, <1>3 DEF PortTypeOK, Waiting
<1>5. ServedInv'
  <2>1. \A i \in 1..Len(requests) : requests[i].from \in Client
    BY RequestTypes
  <2>2. \A d \in Client : place[d] \in HasAsked => place'[d] = place[d]
    BY <1>1 DEF PortTypeOK
  <2>3. \A i \in 1..Len(requests) : requests[i].kind = "execute" =>
          place'[requests[i].from] \in HasAsked
    BY <2>1, <2>2 DEF ServedInv
  <2>4. \A d \in Client : place'[d] # "done" => result[d] = "none"
    BY <1>1 DEF ServedInv, PortTypeOK, HasAsked
  <2> QED
    BY <1>1, <2>2, <2>3, <2>4 DEF ServedInv, AgentIdle
<1>6. TurnInv'
  <2> SUFFICES ASSUME ~abandoned PROVE TurnInv'
    BY <1>1 DEF TurnInv
  <2>1. conn # NoClient => conn # c /\ OneUnderWay(conn)'
    <3> SUFFICES ASSUME conn # NoClient PROVE conn # c /\ OneUnderWay(conn)'
      OBVIOUS
    <3>1. OneUnderWay(conn) /\ place[conn] \in {"ping", "exec"} /\ conn \in Client
      BY <1>1 DEF TurnInv, OneUnderWay, PortTypeOK
    <3>2. conn # c /\ place'[conn] = place[conn]
      BY <1>1, <3>1 DEF PortTypeOK, HasAsked
    <3> QED
      BY <1>1, <3>1, <3>2 DEF OneUnderWay, AgentIdle, Only, Empty, Ping
  <2>2. \A i \in 1..Len(backlog) : backlog[i] # c
    BY <1>1 DEF TurnInv
  <2>3. \A i \in 1..Len(backlog') :
          /\ place'[backlog'[i]] = "queued"
          /\ \A j \in 1..Len(backlog') : backlog'[j] = backlog'[i] => j = i
    <3> SUFFICES ASSUME NEW i \in 1..Len(backlog')
                 PROVE  /\ place'[backlog'[i]] = "queued"
                        /\ \A j \in 1..Len(backlog') : backlog'[j] = backlog'[i] => j = i
      OBVIOUS
    <3>1. place'[backlog'[i]] = "queued"
      BY <1>1, <1>2, <1>3, <2>2, ElementOfSeq DEF TurnInv, PortTypeOK
    <3> QED
      BY <1>2, <1>3, <2>2, <3>1 DEF TurnInv
  <2> QED
    BY <1>1, <2>1, <2>3 DEF TurnInv, PortTypeOK, AgentIdle, Empty
<1> QED
  BY <1>4, <1>5, <1>6

(* An exec that ends, is killed or goes back, and what its close leaves.   *)
LEMMA LeaveInv ==
  ASSUME PortTypeOK, ServedInv, NEW c \in Client, NEW next \in {"closed", "done", "killed"},
         place[c] \notin HasAsked \/ next # "closed",
         place' = [place EXCEPT ![c] = next],
         \/ result' = result /\ next # "done"
         \/ next = "done" /\ \E how \in {"error", "own", "foreign"} :
                               result' = [result EXCEPT ![c] = how],
         place[c] # "done",
         \A i \in 1..Len(requests') : i \in 1..Len(requests) /\ requests'[i] = requests[i],
         \A i \in 1..Len(answers') : \E j \in 1..Len(answers) : answers'[i] = answers[j],
         UNCHANGED <<agent, job, runs>>
  PROVE  ServedInv'
<1>2. \A i \in 1..Len(requests) : requests[i].from \in Client
  BY RequestTypes
<1>3. \A d \in Client : place[d] \in HasAsked => place'[d] \in HasAsked
  BY DEF PortTypeOK, HasAsked
<1>4. \A i \in 1..Len(requests') : requests'[i].kind = "execute" =>
        /\ runs[requests'[i].from] = 0
        /\ place'[requests'[i].from] \in HasAsked
        /\ \A j \in 1..Len(requests') : requests'[j] = requests'[i] => j = i
  BY <1>2, <1>3 DEF ServedInv
<1>5. \A i \in 1..Len(answers') : answers'[i].kind = "exit" => runs[answers'[i].of] = 1
  BY DEF ServedInv
<1>6. \A d \in Client : runs[d] = 1 => place'[d] \in HasAsked
  BY <1>3 DEF ServedInv
<1>7. \A d \in Client : place'[d] # "done" => result'[d] = "none"
  BY DEF ServedInv, PortTypeOK
<1> QED
  BY <1>4, <1>5, <1>6, <1>7 DEF ServedInv, AgentIdle

(* What Finish needs and does. *)
LEMMA FinishFacts ==
  ASSUME PortTypeOK, NEW c \in Client, NEW how \in {"error", "own", "foreign"},
         Finish(c, how)
  PROVE  /\ place' = [place EXCEPT ![c] = "done"]
         /\ result' = [result EXCEPT ![c] = how]
         /\ place' \in [Client -> Waiting \cup {"new", "closed", "done", "killed"}]
         /\ result' \in [Client -> {"none", "error", "own", "foreign"}]
         /\ UNCHANGED abandoned
BY DEF Finish, PortTypeOK

LEMMA GiveUpInv ==
  ASSUME PortInv, NEW c \in Client,
         UNCHANGED <<initVars, agent, job, runs>>,
         (GiveUp(c) /\ power = "on") \/ (HangUp(c) /\ power = "off")
  PROVE  PortInv'
<1> USE DEF PortInv
<1>1. /\ place[c] # "done" /\ Finish(c, "error")
      /\ UNCHANGED <<power, conn, backlog, requests, answers, agent, job, runs>>
  BY DEF GiveUp, HangUp, port, initVars, Waiting
<1>2. /\ place' = [place EXCEPT ![c] = "done"]
      /\ result' = [result EXCEPT ![c] = "error"]
      /\ place' \in [Client -> Waiting \cup {"new", "closed", "done", "killed"}]
      /\ result' \in [Client -> {"none", "error", "own", "foreign"}]
      /\ UNCHANGED abandoned
  BY <1>1, FinishFacts
<1>3. PortTypeOK'
  BY <1>1, <1>2 DEF PortTypeOK
<1>4. ServedInv'
  BY <1>1, <1>2, LeaveInv
<1>5. TurnInv'
  <2> SUFFICES ASSUME ~abandoned, power = "on" PROVE TurnInv'
    BY <1>1, <1>2 DEF TurnInv
  <2>1. place[c] = "closed"
    BY DEF GiveUp
  <2>2. conn # NoClient => OneUnderWay(conn)'
    <3> SUFFICES ASSUME conn # NoClient PROVE OneUnderWay(conn)'
      OBVIOUS
    <3>1. OneUnderWay(conn) /\ place[conn] \in {"ping", "exec"} /\ conn \in Client
      BY DEF TurnInv, OneUnderWay, PortTypeOK
    <3>2. place'[conn] = place[conn]
      BY <1>2, <2>1, <3>1 DEF PortTypeOK
    <3> QED
      BY <1>1, <3>1, <3>2 DEF OneUnderWay, AgentIdle, Only, Empty, Ping
  <2>3. \A i \in 1..Len(backlog) : place'[backlog[i]] = "queued"
    BY <1>2, <2>1, ElementOfSeq DEF TurnInv, PortTypeOK
  <2> QED
    BY <1>1, <1>2, <2>2, <2>3 DEF TurnInv, AgentIdle, Empty, PortTypeOK
<1> QED
  BY <1>3, <1>4, <1>5

LEMMA KillExecInv ==
  ASSUME PortInv, NEW c \in Client, KillExec(c), UNCHANGED <<initVars, agent, job, runs>>
  PROVE  PortInv'
<1> USE DEF PortInv
<1>1. /\ place[c] # "done" /\ place' = [place EXCEPT ![c] = "killed"]
      /\ abandoned' = TRUE /\ UNCHANGED <<backlog, result>>
  BY DEF KillExec, Waiting
<1>2. /\ conn' = IF conn = c THEN NoClient ELSE conn
      /\ requests' \in Seq(Request) /\ answers' \in Seq(Answer)
      /\ \A i \in 1..Len(requests') : i \in 1..Len(requests) /\ requests'[i] = requests[i]
      /\ \A i \in 1..Len(answers') : \E j \in 1..Len(answers) : answers'[i] = answers[j]
  <2>1. 0 <= Len(answers)
    BY LenProperties DEF PortTypeOK
  <2> QED
    BY <2>1, ClosePortFacts DEF KillExec
<1>3. PortTypeOK'
  BY <1>1, <1>2 DEF PortTypeOK
<1>4. ServedInv'
  BY <1>1, <1>2, LeaveInv
<1>5. TurnInv'
  BY <1>1 DEF TurnInv
<1> QED
  BY <1>3, <1>4, <1>5

LEMMA ReadResultInv ==
  ASSUME PortInv, power = "on", NEW c \in Client, ReadResult(c),
         UNCHANGED <<initVars, agent, job, runs>>
  PROVE  /\ PortInv'
         /\ result[c] = "none" /\ UNCHANGED abandoned
         /\ \/ result' = [result EXCEPT ![c] = "error"]
            \/ runs[c] = 1 /\ result' = [result EXCEPT ![c] = "own"]
            \/ abandoned /\ result' = [result EXCEPT ![c] = "foreign"]
<1> USE DEF PortInv
<1>1. /\ place[c] = "exec" /\ result[c] = "none" /\ UNCHANGED backlog
      /\ 1 \in 1..Len(answers) /\ Head(answers) = answers[1] /\ 1 <= Len(answers)
  BY TailFacts, LenProperties DEF ReadResult, ServedInv, PortTypeOK
<1>2. PICK how \in {"error", "own", "foreign"} :
        /\ Finish(c, how)
        /\ how = "own" => Head(answers) = [of |-> c, kind |-> "exit"]
        /\ how = "foreign" => /\ Head(answers).kind # "error"
                              /\ Head(answers) # [of |-> c, kind |-> "exit"]
  BY DEF ReadResult
<1>3. /\ place' = [place EXCEPT ![c] = "done"]
      /\ result' = [result EXCEPT ![c] = how]
      /\ place' \in [Client -> Waiting \cup {"new", "closed", "done", "killed"}]
      /\ result' \in [Client -> {"none", "error", "own", "foreign"}]
      /\ UNCHANGED abandoned
  BY <1>2, FinishFacts
<1>4. /\ conn' = IF conn = c THEN NoClient ELSE conn
      /\ requests' \in Seq(Request) /\ answers' \in Seq(Answer)
      /\ \A i \in 1..Len(requests') : i \in 1..Len(requests) /\ requests'[i] = requests[i]
      /\ \A i \in 1..Len(answers') : \E j \in 1..Len(answers) : answers'[i] = answers[j]
      /\ conn = c /\ Empty(requests) => Empty(requests')
      /\ conn = c /\ Len(answers) = 1 => Empty(answers')
  BY <1>1, ClosePortFacts DEF ReadResult
<1>5. ~abandoned => /\ conn = c /\ AgentIdle /\ Empty(requests)
                    /\ \E kind \in {"exit", "error"} : Only(answers, [of |-> c, kind |-> kind])
  BY <1>1, ExecAssumption DEF TurnInv, OneUnderWay, Empty
<1>6. PortTypeOK'
  BY <1>1, <1>3, <1>4 DEF PortTypeOK
<1>7. ServedInv'
  BY <1>1, <1>3, <1>4, LeaveInv
<1>8. TurnInv'
  <2> SUFFICES ASSUME ~abandoned PROVE TurnInv'
    BY <1>3 DEF TurnInv
  <2>1. conn' = NoClient /\ Empty(requests)' /\ Empty(answers)' /\ AgentIdle'
    BY <1>4, <1>5 DEF Only, AgentIdle, Empty
  <2>2. \A d \in Client : place'[d] \notin {"ping", "exec"}
    BY <1>3, <1>5 DEF TurnInv, PortTypeOK
  <2>3. \A i \in 1..Len(backlog) : place'[backlog[i]] = "queued"
    BY <1>1, <1>3, ElementOfSeq DEF TurnInv, PortTypeOK
  <2> QED
    BY <1>1, <2>1, <2>2, <2>3 DEF TurnInv
<1>9. how = "own" => runs[c] = 1
  BY <1>1, <1>2 DEF ServedInv
<1>10. how = "foreign" => abandoned
  BY <1>1, <1>2, <1>5 DEF Only
<1> QED
  BY <1>1, <1>3, <1>6, <1>7, <1>8, <1>9, <1>10

LEMMA ReadPongInv ==
  ASSUME PortInv, power = "on", NEW c \in Client, ReadPong(c),
         UNCHANGED <<initVars, agent, job, runs>>
  PROVE  PortInv'
<1> DEFINE request == [from |-> c, kind |-> "execute"]
<1> USE DEF PortInv
<1>1. /\ place[c] = "ping" /\ runs[c] = 0 /\ answers \in Seq(Answer) /\ answers # <<>>
      /\ 1 \in 1..Len(answers) /\ Head(answers) = answers[1] /\ 1 <= Len(answers)
      /\ UNCHANGED <<backlog, result, abandoned>>
  <2>1. place[c] = "ping" /\ answers \in Seq(Answer) /\ answers # <<>>
    BY DEF ReadPong, PortTypeOK
  <2>2. runs[c] = 0
    BY <2>1 DEF ServedInv, PortTypeOK, HasAsked
  <2>3. 1 \in 1..Len(answers) /\ Head(answers) = answers[1] /\ 1 <= Len(answers)
    BY <2>1, TailFacts
  <2>4. UNCHANGED <<backlog, result, abandoned>>
    BY DEF ReadPong
  <2> QED
    BY <2>1, <2>2, <2>3, <2>4
<1>2. ~abandoned => /\ conn = c /\ AgentIdle /\ Empty(requests)
                    /\ Only(answers, [of |-> c, kind |-> "ok"])
  BY <1>1, ExecAssumption DEF TurnInv, OneUnderWay, Empty
<1>3. CASE Head(answers).kind = "ok"
  <2>1. /\ place' = [place EXCEPT ![c] = "exec"] /\ UNCHANGED conn
        /\ requests' = Append(requests, request) /\ answers' = Tail(answers)
    BY <1>3 DEF ReadPong
  <2>2. requests \in Seq(Request) /\ request \in Request /\ Len(requests) \in Nat
    BY LenProperties DEF PortTypeOK, Request
  <2>3. /\ requests' \in Seq(Request) /\ Len(requests') = Len(requests) + 1
        /\ \A i \in 1..Len(requests') :
             \/ i \in 1..Len(requests) /\ requests'[i] = requests[i]
             \/ i = Len(requests) + 1 /\ requests'[i] = request
        /\ requests'[Len(requests) + 1] = request
    BY <2>1, <2>2, AppendFacts
  <2>4. /\ answers' \in Seq(Answer) /\ Len(answers') = Len(answers) - 1
        /\ \A i \in 1..Len(answers') :
             i + 1 \in 1..Len(answers) /\ answers'[i] = answers[i + 1]
    BY <1>1, <2>1, TailFacts
  <2>5. PortTypeOK'
    BY <1>1, <2>1, <2>3, <2>4 DEF PortTypeOK, Waiting
  <2>6. ServedInv'
    <3>1. \A d \in Client : place[d] \in HasAsked => place'[d] \in HasAsked
      BY <2>1 DEF PortTypeOK, HasAsked
    <3>2. \A i \in 1..Len(requests) : requests[i] # request
      BY <1>1 DEF ServedInv, HasAsked
    <3>3. \A i \in 1..Len(requests') : requests'[i].kind = "execute" =>
            /\ runs[requests'[i].from] = 0 /\ place'[requests'[i].from] \in HasAsked
            /\ \A j \in 1..Len(requests') : requests'[j] = requests'[i] => j = i
      <4> SUFFICES ASSUME NEW i \in 1..Len(requests'), requests'[i].kind = "execute"
                   PROVE  /\ runs[requests'[i].from] = 0
                          /\ place'[requests'[i].from] \in HasAsked
                          /\ \A j \in 1..Len(requests') :
                               requests'[j] = requests'[i] => j = i
        OBVIOUS
      <4>1. CASE i \in 1..Len(requests) /\ requests'[i] = requests[i]
        <5>1. requests[i].from \in Client
          BY <4>1, RequestTypes
        <5>2. /\ runs[requests[i].from] = 0 /\ place[requests[i].from] \in HasAsked
              /\ \A j \in 1..Len(requests) : requests[j] = requests[i] => j = i
          BY <4>1 DEF ServedInv
        <5>3. ASSUME NEW j \in 1..Len(requests'), requests'[j] = requests'[i] PROVE j = i
          <6>1. requests'[j] # request
            BY <4>1, <5>3, <3>2
          <6>2. j \in 1..Len(requests) /\ requests'[j] = requests[j]
            BY <2>3, <6>1
          <6> QED
            BY <4>1, <5>2, <5>3, <6>2
        <5> QED
          BY <4>1, <5>1, <5>2, <5>3, <3>1
      <4>2. CASE i = Len(requests) + 1 /\ requests'[i] = request
        <5>1. runs[c] = 0 /\ place'[c] \in HasAsked
          BY <1>1, <2>1 DEF PortTypeOK, HasAsked
        <5>2. ASSUME NEW j \in 1..Len(requests'), requests'[j] = requests'[i] PROVE j = i
          BY <2>3, <3>2, <4>2, <5>2
        <5> QED
          BY <4>2, <5>1, <5>2
      <4> QED
        BY <2>3, <4>1, <4>2
    <3>4. \A i \in 1..Len(answers') : answers'[i].kind = "exit" => runs[answers'[i].of] = 1
      BY <2>4 DEF ServedInv
    <3>5. \A d \in Client : place'[d] # "done" => result[d] = "none"
      BY <1>1, <2>1 DEF ServedInv, PortTypeOK
    <3>6. \A d \in Client : runs[d] = 1 => place'[d] \in HasAsked
      BY <3>1 DEF ServedInv
    <3> QED
      BY <1>1, <3>3, <3>4, <3>5, <3>6 DEF ServedInv, AgentIdle
  <2>7. TurnInv'
    <3> SUFFICES ASSUME ~abandoned PROVE TurnInv'
      BY <1>1 DEF TurnInv
    <3>1. place'[c] = "exec" /\ Only(requests', request) /\ Empty(answers')
      BY <1>2, <2>1, <2>3, <2>4 DEF Only, Empty, PortTypeOK
    <3>2. conn' # NoClient /\ OneUnderWay(conn)'
      BY <1>2, <2>1, <3>1, ExecAssumption DEF OneUnderWay, Only, Empty, AgentIdle
    <3>3. \A d \in Client : place'[d] \in {"ping", "exec"} => d = conn'
      BY <1>2, <2>1 DEF TurnInv, PortTypeOK
    <3>4. \A i \in 1..Len(backlog) : place'[backlog[i]] = "queued"
      BY <1>1, <2>1, ElementOfSeq DEF TurnInv, PortTypeOK
    <3> QED
      BY <1>1, <3>2, <3>3, <3>4 DEF TurnInv
  <2> QED
    BY <2>5, <2>6, <2>7
<1>4. CASE Head(answers).kind # "ok"
  <2>1. place' = [place EXCEPT ![c] = "closed"] /\ ClosePort(c, 1)
    BY <1>4 DEF ReadPong
  <2>2. /\ conn' = IF conn = c THEN NoClient ELSE conn
        /\ requests' \in Seq(Request) /\ answers' \in Seq(Answer)
        /\ \A i \in 1..Len(requests') : i \in 1..Len(requests) /\ requests'[i] = requests[i]
        /\ \A i \in 1..Len(answers') : \E j \in 1..Len(answers) : answers'[i] = answers[j]
    BY <1>1, <2>1, ClosePortFacts
  <2>3. PortTypeOK'
    BY <1>1, <2>1, <2>2 DEF PortTypeOK
  <2>4. ServedInv'
    BY <1>1, <2>1, <2>2, LeaveInv DEF HasAsked
  <2>5. TurnInv'
    BY <1>1, <1>2, <1>4 DEF TurnInv, Only
  <2> QED
    BY <2>3, <2>4, <2>5
<1> QED
  BY <1>3, <1>4

LEMMA AcceptInv ==
  ASSUME PortInv, power = "on", Accept, UNCHANGED <<initVars, agent, job, runs>>
  PROVE  PortInv'
<1> DEFINE c == Head(backlog)
<1> USE DEF PortInv
<1>1. /\ conn = NoClient /\ backlog \in Seq(Client) /\ backlog # <<>>
      /\ backlog' = Tail(backlog) /\ UNCHANGED <<result, abandoned, answers>>
  BY DEF Accept, PortTypeOK
<1>2. /\ c \in Client /\ c = backlog[1] /\ 1 \in 1..Len(backlog)
      /\ backlog' \in Seq(Client) /\ Len(backlog') = Len(backlog) - 1
      /\ \A i \in 1..Len(backlog') :
           i + 1 \in 1..Len(backlog) /\ backlog'[i] = backlog[i + 1]
  BY <1>1, TailFacts
<1>3. requests \in Seq(Request) /\ Ping(c) \in Request /\ Len(requests) \in Nat
  BY <1>2, LenProperties DEF PortTypeOK, Request, Ping
<1>4. ASSUME NEW new, new = Append(requests, Ping(c))
      PROVE  /\ new \in Seq(Request) /\ Len(new) = Len(requests) + 1
             /\ \A i \in 1..Len(new) : \/ i \in 1..Len(requests) /\ new[i] = requests[i]
                                       \/ new[i].kind = "ping"
             /\ new[Len(requests) + 1] = Ping(c)
  BY <1>3, <1>4, AppendFacts DEF Ping
<1>5. CASE /\ place[c] = "queued" /\ conn' = c
           /\ place' = [place EXCEPT ![c] = "ping"]
           /\ requests' = Append(requests, Ping(c))
  <2>1. PortTypeOK'
    BY <1>1, <1>2, <1>4, <1>5 DEF PortTypeOK, Waiting
  <2>2. ServedInv'
    <3>1. \A d \in Client : place[d] \in HasAsked => place'[d] \in HasAsked
      BY <1>5 DEF PortTypeOK, HasAsked
    <3>2. \A i \in 1..Len(requests') : requests'[i].kind = "execute" =>
            /\ runs[requests'[i].from] = 0 /\ place'[requests'[i].from] \in HasAsked
            /\ \A j \in 1..Len(requests') : requests'[j] = requests'[i] => j = i
      <4> SUFFICES ASSUME NEW i \in 1..Len(requests'), requests'[i].kind = "execute"
                   PROVE  /\ runs[requests'[i].from] = 0
                          /\ place'[requests'[i].from] \in HasAsked
                          /\ \A j \in 1..Len(requests') :
                               requests'[j] = requests'[i] => j = i
        OBVIOUS
      <4>1. i \in 1..Len(requests) /\ requests'[i] = requests[i]
        BY <1>4, <1>5
      <4>2. requests[i].from \in Client
        BY <4>1, RequestTypes
      <4>3. /\ runs[requests[i].from] = 0 /\ place[requests[i].from] \in HasAsked
            /\ \A j \in 1..Len(requests) : requests[j] = requests[i] => j = i
        BY <4>1 DEF ServedInv
      <4>4. ASSUME NEW j \in 1..Len(requests'), requests'[j] = requests'[i] PROVE j = i
        <5>1. j \in 1..Len(requests) /\ requests'[j] = requests[j]
          BY <1>4, <1>5, <4>4
        <5> QED
          BY <4>1, <4>3, <4>4, <5>1
      <4> QED
        BY <4>1, <4>2, <4>3, <4>4, <3>1
    <3>3. \A d \in Client : place'[d] # "done" => result[d] = "none"
      BY <1>5 DEF ServedInv, PortTypeOK
    <3>4. \A d \in Client : runs[d] = 1 => place'[d] \in HasAsked
      BY <3>1 DEF ServedInv
    <3> QED
      BY <1>1, <3>2, <3>3, <3>4 DEF ServedInv, AgentIdle
  <2>3. TurnInv'
    <3> SUFFICES ASSUME ~abandoned PROVE TurnInv'
      BY <1>1 DEF TurnInv
    <3>1. Empty(requests) /\ Empty(answers) /\ AgentIdle
      BY <1>1 DEF TurnInv
    <3>2. conn' # NoClient /\ OneUnderWay(conn)'
      BY <1>1, <1>2, <1>4, <1>5, <3>1, ExecAssumption
      DEF OneUnderWay, Only, Empty, AgentIdle, PortTypeOK, Ping
    <3>3. \A d \in Client : place'[d] \in {"ping", "exec"} => d = conn'
      BY <1>1, <1>5, ExecAssumption DEF TurnInv, PortTypeOK
    <3>4. \A i \in 1..Len(backlog') :
            /\ place'[backlog'[i]] = "queued"
            /\ \A j \in 1..Len(backlog') : backlog'[j] = backlog'[i] => j = i
      <4> SUFFICES ASSUME NEW i \in 1..Len(backlog')
                   PROVE  /\ place'[backlog'[i]] = "queued"
                          /\ \A j \in 1..Len(backlog') : backlog'[j] = backlog'[i] => j = i
        OBVIOUS
      <4>1. backlog[i + 1] # c
        BY <1>2 DEF TurnInv
      <4>2. backlog[i + 1] \in Client
        BY <1>1, <1>2, ElementOfSeq
      <4>3. /\ place[backlog[i + 1]] = "queued"
            /\ \A j \in 1..Len(backlog) : backlog[j] = backlog[i + 1] => j = i + 1
        BY <1>2 DEF TurnInv
      <4>4. place'[backlog'[i]] = "queued"
        BY <1>2, <1>5, <4>1, <4>2, <4>3 DEF PortTypeOK
      <4>5. ASSUME NEW j \in 1..Len(backlog'), backlog'[j] = backlog'[i] PROVE j = i
        <5>1. j + 1 \in 1..Len(backlog) /\ backlog[j + 1] = backlog[i + 1]
          BY <1>2, <4>5
        <5>2. j + 1 = i + 1
          BY <4>3, <5>1
        <5> QED
          BY <5>2
      <4> QED
        BY <4>4, <4>5
    <3> QED
      BY <3>2, <3>3, <3>4 DEF TurnInv
  <2> QED
    BY <2>1, <2>2, <2>3
<1>6. CASE /\ place[c] # "queued"
           /\ requests' \in {requests, Append(requests, Ping(c))}
           /\ UNCHANGED <<place, conn>>
  <2>1. /\ requests' \in Seq(Request)
        /\ \A i \in 1..Len(requests') : \/ i \in 1..Len(requests) /\ requests'[i] = requests[i]
                                        \/ requests'[i].kind = "ping"
    BY <1>3, <1>4, <1>6
  <2>2. PortTypeOK'
    BY <1>1, <1>2, <1>6, <2>1 DEF PortTypeOK
  <2>3. ServedInv'
    BY <1>1, <1>6, <2>1 DEF ServedInv, AgentIdle
  <2>4. TurnInv'
    BY <1>1, <1>2, <1>6 DEF TurnInv
  <2> QED
    BY <2>2, <2>3, <2>4
<1> QED
  BY <1>5, <1>6 DEF Accept

-----------------------------------------------------------------------------
(* All steps together, and what they are to the users of exec.             *)

LEMMA ServiceStep ==
  ASSUME PortInv, [Next]_vars
  PROVE  PortInv' /\ [Service!Next]_<<runs, result, abandoned>>
<1> USE DEF Service!Next, Service!Start, Service!Report, Service!Desert
<1>1. CASE UNCHANGED vars
  BY <1>1, PortStutter DEF vars, initVars, execVars
<1>2. CASE power = "on" /\ UNCHANGED execVars
  BY <1>2, PortStutter DEF execVars
<1>3. CASE power = "on" /\ AgentStep /\ UNCHANGED <<initVars, exec>>
  <2>1. CASE AgentOpens
    BY <1>3, <2>1, AgentOpensInv DEF AgentOpens, exec
  <2>2. CASE ServePing
    BY <1>3, <2>2, ServePingInv DEF ServePing, exec
  <2>3. CASE ServeExecute
    <3>1. /\ PortInv'
          /\ \/ UNCHANGED runs
             \/ \E c \in Client : /\ runs[c] = 0
                                  /\ result[c] = "none" \/ abandoned
                                  /\ runs' = [runs EXCEPT ![c] = 1]
      BY <1>3, <2>3, ServeExecuteInv
    <3>2. UNCHANGED <<result, abandoned>>
      BY <1>3 DEF exec
    <3> QED
      BY <3>1, <3>2
  <2>4. CASE AnswerExecute
    BY <1>3, <2>4, AnswerExecuteInv DEF AnswerExecute, exec
  <2> QED
    BY <1>3, <2>1, <2>2, <2>3, <2>4 DEF AgentStep
<1>4. CASE power = "on" /\ (JobEnds \/ PipeHolderDies) /\ UNCHANGED exec
  BY <1>4, JobEndsInv DEF JobEnds, PipeHolderDies, exec
<1>5. CASE power = "on" /\ Accept /\ UNCHANGED <<initVars, agent, job, runs>>
  BY <1>5, AcceptInv DEF Accept
<1>6. ASSUME NEW c \in Client, power = "on", ExecStep(c),
             UNCHANGED <<initVars, agent, job, runs>>
      PROVE  PortInv' /\ [Service!Next]_<<runs, result, abandoned>>
  <2>1. CASE Connect(c)
    BY <1>6, <2>1, ConnectInv DEF Connect
  <2>2. CASE GiveUp(c)
    <3>1. result[c] = "none" /\ result' = [result EXCEPT ![c] = "error"] /\ UNCHANGED abandoned
      BY <2>2, FinishFacts DEF GiveUp, PortInv, ServedInv
    <3> QED
      BY <1>6, <2>2, <3>1, GiveUpInv
  <2>3. CASE ReadPong(c)
    BY <1>6, <2>3, ReadPongInv DEF ReadPong
  <2>4. CASE ReadResult(c)
    BY <1>6, <2>4, ReadResultInv
  <2>5. CASE KillExec(c)
    BY <1>6, <2>5, KillExecInv DEF KillExec
  <2> QED
    BY <1>6, <2>1, <2>2, <2>3, <2>4, <2>5 DEF ExecStep
<1>7. ASSUME NEW c \in Client, HangUp(c), UNCHANGED <<initVars, agent, job, runs>>
      PROVE  PortInv' /\ [Service!Next]_<<runs, result, abandoned>>
  <2>1. place[c] # "done"
    BY <1>7 DEF HangUp, Waiting
  <2>2. result[c] = "none" /\ result' = [result EXCEPT ![c] = "error"] /\ UNCHANGED abandoned
    BY <1>7, <2>1, FinishFacts DEF HangUp, PortInv, ServedInv
  <2>3. power = "off"
    BY <1>7 DEF HangUp
  <2> QED
    BY <1>7, <2>2, <2>3, GiveUpInv
<1> QED
  BY <1>1, <1>2, <1>3, <1>4, <1>5, <1>6, <1>7 DEF Next, PoweredOn

(* Whatever is killed and however the connections interleave: requests to  *)
(* execute, commands and answers stay with the exec they are for, as       *)
(* PortInv says, and while no exec was killed the port serves one exec at  *)
(* a time (agent.go:125, poqman-agent/main.go:40-110).                     *)
THEOREM PortIsOrderly == Spec => []PortInv
BY PortInit, ServiceStep, PTL DEF Spec

(* Exec keeps the promise of ExecService, for any number of execs,         *)
(* attempts and kills: a command is started at most once and never after   *)
(* its exec has reported, and what an exec reports is an error or its own  *)
(* outcome, until an exec is killed.                                       *)
THEOREM ExecServiceIsImplemented == Spec => ImplementsExecService
<1>1. Init => Service!Init
  BY DEF Init, Service!Init
<1>2. PortInv /\ [Next]_vars => [Service!Next]_<<runs, result, abandoned>>
  BY ServiceStep
<1> QED
  BY <1>1, <1>2, PortIsOrderly, PTL DEF Spec, Service!Spec, ImplementsExecService

-----------------------------------------------------------------------------
(* Types, and how far loadNinePModules has come.                           *)

InLoop == at = "load" => passes < MaxPasses
Fresh == at = "boot" => passes = 0 /\ entry = 1
BootInv == InitTypeOK /\ InLoop /\ Fresh

LEMMA BootInit == Init => BootInv
<1> SUFFICES ASSUME Init PROVE BootInv
  OBVIOUS
<1>1. Len(ModuleOrder) \in Nat
  BY ModuleAssumption, LenProperties
<1>2. /\ passes \in 0..MaxPasses /\ entry \in 1..(Len(ModuleOrder) + 1)
      /\ orphans \in 0..MaxOrphans
  BY <1>1, ModuleAssumption DEF Init, InitInit
<1>3. {notified, asked, bereaved} \subseteq BOOLEAN /\ anyLoaded \in BOOLEAN
  BY DEF Init, InitInit
<1>4. at \in Places
  BY DEF Init, InitInit, Places
<1>5. InitTypeOK
  BY <1>2, <1>3, <1>4 DEF Init, InitInit, InitTypeOK
<1> QED
  BY <1>5 DEF Init, InitInit, BootInv, InLoop, Fresh

(* Volumes are numbered from zero.                                         *)
LEMMA MountTypes ==
  ASSUME settings \in Settings, NEW m \in Mounts(cmdline),
         m.volume \in Attached(settings.volumes)
  PROVE  m.volume \in Nat /\ m.readonly \in BOOLEAN
<1>1. settings.volumes \in Seq(Range(settings.volumes))
  BY SettingsAssumption
<1>2. DOMAIN settings.volumes = 1..Len(settings.volumes)
  BY <1>1, LenProperties
<1>3. m.volume \in Nat
  BY <1>2 DEF Attached
<1> DEFINE on(i) == Param(cmdline, VolumeKey("target", i))
           readonly(i) == Param(cmdline, VolumeKey("readonly", i)).word = "true"
<1>4. PICK i \in Volumes(cmdline) : m = [volume |-> i, on |-> on(i), readonly |-> readonly(i)]
  BY DEF Mounts
<1>5. readonly(i) \in BOOLEAN
  OBVIOUS
<1> HIDE DEF on, readonly
<1>6. m.readonly \in BOOLEAN
  BY <1>4, <1>5
<1> QED
  BY <1>3, <1>6

LEMMA LoadTypes ==
  ASSUME BootInv, LoadModule \/ EndOfPass
  PROVE  BootInv'
<1>1. Len(ModuleOrder) \in Nat /\ \A i \in 1..Len(ModuleOrder) : ModuleOrder[i] \in Module
  BY ModuleAssumption, LenProperties, ElementOfSeq
<1>2. /\ at = "load" /\ passes \in Nat /\ passes < MaxPasses /\ MaxPasses \in Nat
      /\ loaded \subseteq Module /\ anyLoaded \in BOOLEAN
      /\ entry \in 1..(Len(ModuleOrder) + 1)
  BY ModuleAssumption DEF LoadModule, EndOfPass, BootInv, InitTypeOK, InLoop
<1>3. /\ loaded' \subseteq Module /\ passes' \in 0..MaxPasses
      /\ entry' \in 1..(Len(ModuleOrder) + 1) /\ anyLoaded' \in BOOLEAN
      /\ at' \in {"load", "root"}
      /\ at' = "load" => passes' < MaxPasses
  <2>1. CASE LoadModule
    <3>1. entry \in 1..Len(ModuleOrder) /\ ModuleOrder[entry] \in Module
      BY <1>1, <1>2, <2>1 DEF LoadModule
    <3>2. loaded' \subseteq Module /\ anyLoaded' \in BOOLEAN
      BY <1>2, <2>1, <3>1 DEF LoadModule
    <3> QED
      BY <1>1, <1>2, <2>1, <3>1, <3>2 DEF LoadModule
  <2>2. CASE EndOfPass
    <3>1. /\ passes' = passes + 1 /\ UNCHANGED loaded /\ Len(ModuleOrder) \in Nat
          /\ \/ at' = at /\ entry' = 1 /\ anyLoaded' = FALSE /\ passes' < MaxPasses
             \/ at' = "root" /\ UNCHANGED <<entry, anyLoaded>>
      BY <1>1, <2>2 DEF EndOfPass, Goto
    <3>2. passes' \in 0..MaxPasses /\ 1 \in 1..(Len(ModuleOrder) + 1)
      BY <1>2, <3>1
    <3> QED
      BY <1>2, <3>1, <3>2
  <2> QED
    BY <2>1, <2>2
<1>4. UNCHANGED <<settings, mounted, main, orphans, notified, sigCh, handler, power,
                  asked, bereaved>>
  BY DEF LoadModule, EndOfPass, running
<1>5. InitTypeOK'
  BY <1>3, <1>4 DEF BootInv, InitTypeOK, Places
<1> QED
  BY <1>3, <1>5 DEF BootInv, InLoop, Fresh

LEMMA BootStep == BootInv /\ SignalInv /\ [Next]_vars => BootInv'
<1> SUFFICES ASSUME BootInv, SignalInv, [Next]_vars PROVE BootInv'
  OBVIOUS
<1> USE DEF BootInv, InitTypeOK, InLoop, Fresh, Places
<1>0. sigCh' \in {<<>>, <<"CHLD">>, <<"TERM">>}
  BY SignalStep DEF SignalInv
<1>1. CASE UNCHANGED initVars
  BY <1>1 DEF initVars
<1>2. CASE InitStep
  <2>1. CASE Boot
    BY <2>1, ModuleAssumption DEF Boot, Goto, Off, running, loading
  <2>2. CASE LoadModule \/ EndOfPass
    BY <2>2, LoadTypes
  <2>3. CASE MountRoot
    BY <2>3 DEF MountRoot, Goto, Off, running, loading
  <2>4. CASE Setup
    BY <2>4 DEF Setup, Goto, running, loading, IpSteps
  <2>5. CASE IpCommand
    BY <1>0, <2>5 DEF IpCommand, IpSteps, Goto, loading
  <2>6. CASE MountVolumes
    <3>1. \A m \in mounted' : m.volume \in Nat /\ m.readonly \in BOOLEAN
      BY <2>6, MountTypes DEF MountVolumes
    <3> QED
      BY <2>6, <3>1 DEF MountVolumes, Goto, running, loading
  <2>7. CASE StartMain
    BY <2>7 DEF StartMain, Goto, Off, loading
  <2>8. CASE Notify
    BY <2>8 DEF Notify, Goto, loading
  <2>9. CASE WaitReturns
    BY <2>9 DEF WaitReturns, Off, booting, loading
  <2>10. CASE HandleSignal
    BY <1>0, <2>10 DEF HandleSignal, booting, loading
  <2>11. CASE GraceOver
    BY <2>11 DEF GraceOver, booting, loading
  <2> QED
    BY <1>2, <2>1, <2>2, <2>3, <2>4, <2>5, <2>6, <2>7, <2>8, <2>9, <2>10, <2>11
    DEF InitStep
<1>3. CASE MainEnds
  BY <1>0, <1>3 DEF MainEnds, booting, loading
<1>4. CASE Adopt
  BY <1>4, ModuleAssumption DEF Adopt, booting, loading
<1>5. CASE Terminate
  BY <1>0, <1>5 DEF Terminate, booting, loading
<1>6. CASE OrphanDies
  BY <1>0, <1>6, ModuleAssumption DEF OrphanDies, booting, loading
<1>7. CASE JobEnds
  BY <1>7, ModuleAssumption DEF JobEnds, booting, loading
<1> QED
  BY <1>1, <1>2, <1>3, <1>4, <1>5, <1>6, <1>7
  DEF Next, PoweredOn, vars, PipeHolderDies

(* The counters of exec.                                                   *)
CountInv == attempts \in [Client -> 0..MaxAttempts] /\ kills \in 0..MaxKills

LEMMA CountStep == CountInv /\ [Next]_vars => CountInv'
<1> SUFFICES ASSUME CountInv, [Next]_vars PROVE CountInv'
  OBVIOUS
<1> USE ExecAssumption DEF CountInv
<1>1. CASE UNCHANGED <<attempts, kills>>
  BY <1>1
<1>2. ASSUME NEW c \in Client, ExecStep(c) \/ HangUp(c) PROVE CountInv'
  <2>1. CASE Connect(c)
    BY <2>1 DEF Connect
  <2>2. CASE KillExec(c)
    BY <2>2 DEF KillExec
  <2>3. CASE GiveUp(c) \/ ReadPong(c) \/ ReadResult(c) \/ HangUp(c)
    BY <2>3 DEF GiveUp, ReadPong, ReadResult, HangUp, Finish
  <2> QED
    BY <1>2, <2>1, <2>2, <2>3 DEF ExecStep
<1>3. CASE Accept
  BY <1>3 DEF Accept
<1> QED
  BY <1>1, <1>2, <1>3 DEF Next, PoweredOn, vars, execVars, exec

(* The variables keep their types: the loop over the modules ends, only    *)
(* volumes that the host attached are mounted, and no exec makes more than *)
(* MaxAttempts connections.                                                *)
THEOREM TypeCorrect == Spec => []TypeOK
<1>1. Init => CountInv
  BY ExecAssumption DEF Init, CountInv
<1>2. PortInv /\ BootInv /\ CountInv => TypeOK
  BY ExecAssumption DEF PortInv, PortTypeOK, BootInv, CountInv, TypeOK
<1> QED
  BY <1>1, <1>2, PortIsOrderly, SignalInit, SignalStep, BootInit, BootStep, CountStep,
     PTL DEF Spec

(* A module that is not deep is loaded early: after as many passes as it   *)
(* is deep all that it needs is there or never will be.                    *)
DepthOf == CHOOSE depth \in [Module -> Depth] :
             \A m \in Module : \A n \in Needs[m] \cap Module : depth[n] < depth[m]

LEMMA DepthFacts ==
  /\ DepthOf \in [Module -> Depth]
  /\ \A m \in Module : \A n \in Needs[m] \cap Module : DepthOf[n] < DepthOf[m]
BY DepthAssumption DEF DepthOf

Loadable(m) == Needs[m] \subseteq loaded
Tried(i) ==
  LET m == ModuleOrder[i]
  IN  Loadable(m) /\ (DepthOf[m] <= passes \/ ~anyLoaded) => m \in loaded
PassInv ==
  /\ at = "load" =>
       /\ \A m \in Module : DepthOf[m] < passes /\ Loadable(m) => m \in loaded
       /\ \A i \in 1..(entry - 1) : Tried(i)
  /\ ModulesLoaded

LEMMA LoadModuleKeeps ==
  ASSUME BootInv, PassInv, LoadModule
  PROVE  PassInv'
<1>0. Len(ModuleOrder) \in Nat /\ \A i \in 1..Len(ModuleOrder) : ModuleOrder[i] \in Module
  BY ModuleAssumption, LenProperties, ElementOfSeq
<1> DEFINE m == ModuleOrder[entry]
<1>1. /\ at = "load" /\ at' = at /\ passes' = passes /\ entry' = entry + 1
      /\ entry \in 1..Len(ModuleOrder) /\ m \in Module /\ passes \in Nat
  BY <1>0 DEF LoadModule, BootInv, InitTypeOK
<1>2. CASE m \notin loaded /\ Loadable(m)
  <2>0. loaded' = loaded \cup {m} /\ anyLoaded' = TRUE
    BY <1>2 DEF LoadModule, Loadable
  <2>1. passes <= DepthOf[m]
    BY <1>1, <1>2, DepthFacts DEF PassInv, Depth
  <2>2. ASSUME NEW n \in Module, DepthOf[n] <= passes, Needs[n] \subseteq loaded'
        PROVE  Loadable(n)
    <3>1. m \notin Needs[n]
      BY <1>1, <2>1, <2>2, DepthFacts DEF Depth
    <3> QED
      BY <2>0, <2>2, <3>1 DEF Loadable
  <2>3. ASSUME NEW n \in Module, DepthOf[n] < passes, Needs[n] \subseteq loaded'
        PROVE  n \in loaded'
    <3>1. DepthOf[n] <= passes
      BY <1>1, <2>3, DepthFacts DEF Depth
    <3> QED
      BY <1>1, <2>0, <2>2, <2>3, <3>1 DEF PassInv
  <2>4. ASSUME NEW i \in 1..(entry' - 1), DepthOf[ModuleOrder[i]] <= passes,
               Needs[ModuleOrder[i]] \subseteq loaded'
        PROVE  ModuleOrder[i] \in loaded'
    <3>1. CASE i = entry
      BY <2>0, <3>1
    <3>2. CASE i # entry
      <4>1. i \in 1..(entry - 1) /\ ModuleOrder[i] \in Module
        BY <1>0, <1>1, <3>2
      <4>2. Tried(i) /\ Loadable(ModuleOrder[i])
        BY <1>1, <2>2, <2>4, <4>1 DEF PassInv
      <4> QED
        BY <2>0, <2>4, <4>2 DEF Tried
    <3> QED
      BY <3>1, <3>2
  <2> QED
    BY <1>1, <2>0, <2>3, <2>4 DEF PassInv, Tried, Loadable, ModulesLoaded
<1>3. CASE ~(m \notin loaded /\ Loadable(m))
  <2>1. loaded' = loaded /\ anyLoaded' = anyLoaded
    BY <1>3 DEF LoadModule, Loadable
  <2>2. \A i \in 1..(entry' - 1) : i \in 1..(entry - 1) \/ i = entry
    BY <1>1
  <2>3. Tried(entry)
    BY <1>3 DEF Tried
  <2> QED
    BY <1>1, <2>1, <2>2, <2>3 DEF PassInv, Tried, Loadable, ModulesLoaded
<1> QED
  BY <1>2, <1>3

LEMMA EndOfPassKeeps ==
  ASSUME BootInv, PassInv, EndOfPass
  PROVE  PassInv'
<1>0. Len(ModuleOrder) \in Nat /\ DOMAIN ModuleOrder = 1..Len(ModuleOrder)
  BY ModuleAssumption, LenProperties
<1>1. /\ at = "load" /\ entry \in Nat /\ entry > Len(ModuleOrder)
      /\ passes \in Nat /\ passes' = passes + 1 /\ loaded' = loaded
  BY <1>0 DEF EndOfPass, BootInv, InitTypeOK
<1>2. ASSUME NEW m \in Module, Loadable(m), DepthOf[m] <= passes \/ ~anyLoaded
      PROVE  m \in loaded
  <2>1. PICK i \in DOMAIN ModuleOrder : ModuleOrder[i] = m
    BY ModuleAssumption DEF Range
  <2>2. i \in 1..(entry - 1)
    BY <1>0, <1>1
  <2>3. Tried(i)
    BY <1>1, <2>2 DEF PassInv
  <2> QED
    BY <1>2, <2>1, <2>3 DEF Tried
<1>3. CASE anyLoaded /\ passes' < MaxPasses
  <2>1. at' = at /\ entry' = 1
    BY <1>3 DEF EndOfPass
  <2>2. \A m \in Module : DepthOf[m] < passes' => DepthOf[m] <= passes
    BY <1>1, DepthFacts DEF Depth
  <2> QED
    BY <1>1, <1>2, <2>1, <2>2 DEF PassInv, Loadable, ModulesLoaded
<1>4. CASE ~(anyLoaded /\ passes' < MaxPasses)
  <2>1. at' = "root"
    BY <1>4 DEF EndOfPass, Goto
  <2>2. \A m \in Module : DepthOf[m] <= passes \/ ~anyLoaded
    BY <1>1, <1>4, DepthFacts, ModuleAssumption DEF Depth
  <2> QED
    BY <1>1, <1>2, <2>1, <2>2 DEF PassInv, Loadable, ModulesLoaded
<1> QED
  BY <1>3, <1>4

LEMMA PassStep == BootInv /\ PassInv /\ [Next]_vars => PassInv'
<1> SUFFICES ASSUME BootInv, PassInv, [Next]_vars PROVE PassInv'
  OBVIOUS
<1>1. CASE LoadModule
  BY <1>1, LoadModuleKeeps
<1>2. CASE EndOfPass
  BY <1>2, EndOfPassKeeps
<1>3. CASE Boot
  <2>1. passes = 0 /\ entry = 1 /\ at' # "root" /\ UNCHANGED <<loaded, passes, entry, anyLoaded>>
    BY <1>3 DEF Boot, Goto, BootInv, Fresh, loading
  <2>2. \A m \in Module : ~(DepthOf[m] < passes')
    BY <2>1, DepthFacts DEF Depth
  <2> QED
    BY <2>1, <2>2 DEF PassInv, ModulesLoaded
<1>4. CASE UNCHANGED <<at, loaded, passes, entry, anyLoaded>>
  BY <1>4 DEF PassInv, Tried, Loadable, ModulesLoaded
<1>5. CASE at' \notin {"load", "root"}
  BY <1>5 DEF PassInv, ModulesLoaded
<1>6. CASE UNCHANGED initVars
  BY <1>4, <1>6 DEF initVars
<1>7. CASE InitStep
  <2>1. CASE MountRoot
    BY <1>4, <1>5, <2>1 DEF MountRoot, Goto, loading
  <2>2. CASE Setup \/ IpCommand \/ MountVolumes \/ Notify
    BY <1>5, <2>2 DEF Setup, IpCommand, MountVolumes, Notify, Goto, IpSteps
  <2>3. CASE StartMain
    BY <1>4, <1>5, <2>3 DEF StartMain, Goto, loading
  <2>4. CASE WaitReturns \/ HandleSignal \/ GraceOver
    BY <1>4, <2>4 DEF WaitReturns, HandleSignal, GraceOver, booting, loading
  <2> QED
    BY <1>1, <1>2, <1>3, <1>7, <2>1, <2>2, <2>3, <2>4 DEF InitStep
<1>8. CASE MainEnds \/ Adopt \/ Terminate \/ OrphanDies \/ JobEnds
  BY <1>4, <1>8 DEF MainEnds, Adopt, Terminate, OrphanDies, JobEnds, booting, loading
<1> QED
  BY <1>6, <1>7, <1>8 DEF Next, PoweredOn, vars, PipeHolderDies

(* Whatever the initrd holds and however its directory lists it: as long   *)
(* as no chain of modules is longer than there are passes, the root is     *)
(* mounted with every module that can be loaded (poqman-init/main.go:189). *)
THEOREM LoadingCompletes == Spec => []ModulesLoaded
<1>1. Init => PassInv
  BY DEF Init, InitInit, PassInv, ModulesLoaded
<1>2. PassInv => ModulesLoaded
  BY DEF PassInv
<1> QED
  BY <1>1, <1>2, SignalInit, SignalStep, BootInit, BootStep, PassStep, PTL DEF Spec

-----------------------------------------------------------------------------
(* Folds over sequences.  A set of numbers that is not empty has a         *)
(* smallest one, and a greatest one when it is bounded.                    *)
LEMMA MinExists ==
  ASSUME NEW T \in SUBSET Nat, T # {}
  PROVE  \E x \in T : \A y \in T : x <= y
<1> DEFINE R == OpToRel(<, Nat)
<1>1. IsWellFoundedOn(R, Nat)
  BY NatLessThanWellFounded
<1>2. PICK x \in T : \A y \in T : ~(<<y, x>> \in R)
  <2> HIDE DEF R
  <2>1. QED
    BY <1>1, WFMin
<1>3. ASSUME NEW y \in T
      PROVE  x <= y
  <2>1. ~(<<y, x>> \in R)
    BY <1>2
  <2>2. y \in Nat /\ x \in Nat
    OBVIOUS
  <2>3. ~(y < x)
    BY <2>1, <2>2, Zenon DEF OpToRel
  <2>4. QED
    BY <2>2, <2>3
<1>4. QED
  BY <1>2, <1>3

(* Induction up to n, over the set of the numbers that have a property.    *)
LEMMA UpTo ==
  ASSUME NEW n \in Nat, NEW T, 0 \in T, \A k \in 0 .. n - 1 : k \in T => k + 1 \in T
  PROVE  \A k \in 0 .. n : k \in T
<1> DEFINE U == {k \in 0 .. n : k \notin T}
<1> SUFFICES ASSUME U # {}
             PROVE  FALSE
  OBVIOUS
<1>1. PICK k \in U : \A j \in U : k <= j
  <2>1. U \in SUBSET Nat
    OBVIOUS
  <2> HIDE DEF U
  <2>2. QED
    BY <2>1, MinExists
<1>2. k \in 0 .. n /\ k \notin T /\ k # 0
  BY <1>1
<1>3. k - 1 \in 0 .. n - 1 /\ ~(k <= k - 1)
  BY <1>2
<1>4. k - 1 \notin U
  BY <1>1, <1>3
<1>5. k - 1 \in T
  BY <1>3, <1>4
<1>6. (k - 1) + 1 \in T
  BY <1>3, <1>5
<1>7. QED
  BY <1>2, <1>6

LEMMA MaxExists ==
  ASSUME NEW n \in Nat, NEW T \in SUBSET (0 .. n), T # {}
  PROVE  Max(T) \in T /\ \A y \in T : Max(T) >= y
<1> DEFINE U == {n - x : x \in T}
<1>1. U \in SUBSET Nat /\ U # {}
  <2>1. \A x \in T : n - x \in Nat
    OBVIOUS
  <2>2. QED
    BY <2>1
<1>2. PICK u \in U : \A v \in U : u <= v
  <2> HIDE DEF U
  <2>1. QED
    BY <1>1, MinExists
<1>3. PICK x \in T : u = n - x
  OBVIOUS
<1>4. ASSUME NEW y \in T
      PROVE  x >= y
  <2>1. n - x <= n - y
    BY <1>2, <1>3
  <2>2. QED
    BY <2>1
<1>5. QED
  BY <1>4 DEF Max

-----------------------------------------------------------------------------
(* FlattenSeq appends one sequence after the other. *)
LEMMA FlattenSteps ==
  ASSUME NEW ss, NEW n \in Nat \ {0}, Len(ss) = n
  PROVE  \E f : /\ FlattenSeq(ss) = f[n] /\ f[1] = ss[1]
                /\ \A k \in 1 .. n - 1 : f[k + 1] = f[k] \o ss[k + 1]
<1> DEFINE Is(f, k) == f = [i \in 1 .. k |-> IF i = 1 THEN ss[i] ELSE f[i - 1] \o ss[i]]
           T == {k \in Nat : \E f : Is(f, k)}
<1>1. 0 \in T
  <2>1. Is([i \in 1 .. 0 |-> 0], 0)
    OBVIOUS
  <2>2. QED
    BY <2>1
<1>2. ASSUME NEW k \in 0 .. n - 1, k \in T
      PROVE  k + 1 \in T
  <2>1. PICK f : Is(f, k)
    BY <1>2
  <2> DEFINE last == IF k = 0 THEN ss[1] ELSE f[k] \o ss[k + 1]
             g == [i \in 1 .. k + 1 |-> IF i = k + 1 THEN last ELSE f[i]]
  <2>2. ASSUME NEW i \in 1 .. k + 1
        PROVE  g[i] = IF i = 1 THEN ss[i] ELSE g[i - 1] \o ss[i]
    <3>1. CASE i = k + 1
      <4>1. k # 0 => g[k] = f[k]
        OBVIOUS
      <4>2. QED
        BY <3>1, <4>1
    <3>2. CASE i # k + 1
      <4>1. i \in 1 .. k
        BY <3>2
      <4>2. g[i] = f[i] /\ (i # 1 => g[i - 1] = f[i - 1])
        BY <4>1
      <4>3. f[i] = IF i = 1 THEN ss[i] ELSE f[i - 1] \o ss[i]
        BY <2>1, <4>1
      <4>4. QED
        BY <4>2, <4>3
    <3>3. QED
      BY <3>1, <3>2
  <2>3. Is(g, k + 1)
    BY <2>2
  <2> HIDE DEF g, Is
  <2>4. QED
    BY <2>3
<1>3. n \in T
  <2>1. n \in Nat /\ n \in 0 .. n
    OBVIOUS
  <2> HIDE DEF T
  <2>2. \A k \in 0 .. n : k \in T
    BY <1>1, <1>2, <2>1, UpTo
  <2>3. QED
    BY <2>1, <2>2
<1> DEFINE f == CHOOSE f : Is(f, n)
<1>4. Is(f, n)
  <2>1. \E g : Is(g, n)
    BY <1>3
  <2> HIDE DEF Is
  <2>2. QED
    BY <2>1
<1>5. FlattenSeq(ss) = f[n]
  BY DEF FlattenSeq
<1>6. f[1] = ss[1]
  <2>1. 1 \in 1 .. n
    OBVIOUS
  <2> HIDE DEF f
  <2>2. QED
    BY <1>4, <2>1
<1>7. ASSUME NEW k \in 1 .. n - 1
      PROVE  f[k + 1] = f[k] \o ss[k + 1]
  <2>1. k + 1 \in 1 .. n /\ k + 1 # 1 /\ (k + 1) - 1 = k
    OBVIOUS
  <2> HIDE DEF f
  <2>2. f[k + 1] = f[(k + 1) - 1] \o ss[k + 1]
    BY <1>4, <2>1
  <2>3. QED
    BY <2>1, <2>2
<1> HIDE DEF f
<1>8. QED
  BY <1>5, <1>6, <1>7

LEMMA RangeOfConcat ==
  ASSUME NEW S, NEW s \in Seq(S), NEW t \in Seq(S)
  PROVE  Range(s \o t) = Range(s) \cup Range(t)
<1>1. /\ Len(s) \in Nat /\ DOMAIN s = 1 .. Len(s)
      /\ Len(t) \in Nat /\ DOMAIN t = 1 .. Len(t)
  BY LenProperties
<1>2. /\ s \o t \in Seq(S) /\ Len(s \o t) = Len(s) + Len(t)
      /\ \A i \in 1 .. Len(s) + Len(t) :
           (s \o t)[i] = IF i <= Len(s) THEN s[i] ELSE t[i - Len(s)]
  BY ConcatProperties
<1>3. DOMAIN (s \o t) = 1 .. Len(s) + Len(t)
  BY <1>2, LenProperties
<1> DEFINE c == s \o t
<1>4. /\ \A i \in 1 .. Len(s) : i \in DOMAIN c /\ c[i] = s[i]
      /\ \A i \in 1 .. Len(t) : i + Len(s) \in DOMAIN c /\ c[i + Len(s)] = t[i]
  <2>1. \A i \in 1 .. Len(s) : i \in 1 .. Len(s) + Len(t) /\ i <= Len(s)
    BY <1>1
  <2>2. \A i \in 1 .. Len(t) : /\ i + Len(s) \in 1 .. Len(s) + Len(t)
                               /\ ~(i + Len(s) <= Len(s)) /\ (i + Len(s)) - Len(s) = i
    BY <1>1
  <2>3. \A i \in 1 .. Len(t) : c[i + Len(s)] = t[(i + Len(s)) - Len(s)]
    BY <1>2, <2>2
  <2>4. QED
    BY <1>2, <1>3, <2>1, <2>2, <2>3
<1>5. \A i \in DOMAIN c : \/ i \in 1 .. Len(s) /\ c[i] = s[i]
                          \/ i - Len(s) \in 1 .. Len(t) /\ c[i] = t[i - Len(s)]
  <2>1. \A i \in 1 .. Len(s) + Len(t) : i \in 1 .. Len(s) \/ i - Len(s) \in 1 .. Len(t)
    BY <1>1
  <2>2. \A i \in 1 .. Len(s) : i <= Len(s)
    BY <1>1
  <2>3. \A i \in 1 .. Len(s) + Len(t) : i - Len(s) \in 1 .. Len(t) => ~(i <= Len(s))
    BY <1>1
  <2>4. QED
    BY <1>2, <1>3, <2>1, <2>2, <2>3
<1> HIDE DEF c
<1>6. Range(c) = Range(s) \cup Range(t)
  BY <1>1, <1>4, <1>5 DEF Range
<1>7. QED
  BY <1>6 DEF c

(* A sequence that is given by its elements. *)
LEMMA LenOf ==
  ASSUME NEW S, NEW n \in Nat, NEW s \in [1 .. n -> S]
  PROVE  s \in Seq(S) /\ Len(s) = n /\ (n = 0 => s = <<>>)
<1>1. s \in Seq(S)
  BY SeqDef
<1>2. DOMAIN s = 1 .. Len(s) /\ Len(s) \in Nat
  BY <1>1, LenProperties
<1>3. PICK m \in Nat : m = Len(s)
  BY <1>2
<1>4. 1 .. m = 1 .. n
  BY <1>2, <1>3
<1>5. m = n
  <2>1. m # 0 => m \in 1 .. n
    BY <1>4
  <2>2. n # 0 => n \in 1 .. m
    BY <1>4
  <2>3. QED
    BY <2>1, <2>2
<1>6. QED
  BY <1>1, <1>3, <1>5, EmptySeq

LEMMA FlattenFacts ==
  ASSUME NEW S, NEW n \in Nat, NEW ss \in [1 .. n -> Seq(S)]
  PROVE  /\ FlattenSeq(ss) \in Seq(S)
         /\ Range(FlattenSeq(ss)) = UNION {Range(ss[i]) : i \in 1 .. n}
         /\ (\A i \in 1 .. n : ss[i] # <<>>) => Len(FlattenSeq(ss)) >= n
<1>1. Len(ss) = n /\ (n = 0 => ss = <<>>)
  BY LenOf
<1>2. CASE n = 0
  <2>1. FlattenSeq(ss) = <<>>
    BY <1>1, <1>2 DEF FlattenSeq
  <2>2. <<>> \in Seq(S) /\ Len(<<>>) = 0 /\ Range(<<>>) = {}
    BY EmptySeq DEF Range
  <2>3. {Range(ss[i]) : i \in 1 .. n} = {}
    BY <1>2
  <2>4. QED
    BY <1>2, <2>1, <2>2, <2>3
<1>3. CASE n # 0
  <2>0. n \in Nat \ {0}
    BY <1>3
  <2>1. PICK f : /\ FlattenSeq(ss) = f[n] /\ f[1] = ss[1]
                 /\ \A k \in 1 .. n - 1 : f[k + 1] = f[k] \o ss[k + 1]
    BY <1>1, <2>0, FlattenSteps
  <2> DEFINE Good(k) == /\ f[k] \in Seq(S)
                        /\ Range(f[k]) = UNION {Range(ss[i]) : i \in 1 .. k}
                        /\ (\A i \in 1 .. n : ss[i] # <<>>) => Len(f[k]) >= k
             T == {k \in 0 .. n : k # 0 => Good(k)}
  <2>2. 0 \in T
    OBVIOUS
  <2>3. ASSUME NEW k \in 0 .. n - 1, k \in T
        PROVE  k + 1 \in T
    <3>0. k + 1 \in 1 .. n /\ ss[k + 1] \in Seq(S)
      OBVIOUS
    <3>a. /\ Len(ss[k + 1]) \in Nat
          /\ (\A i \in 1 .. n : ss[i] # <<>>) => Len(ss[k + 1]) >= 1
      <4>1. ss[k + 1] # <<>> => Len(ss[k + 1]) \in Nat \ {0}
        BY <3>0, EmptySeq
      <4>2. PICK m \in Nat : m = Len(ss[k + 1])
        BY <3>0, LenProperties
      <4>3. QED
        BY <3>0, <4>1, <4>2
    <3>1. CASE k = 0
      <4>1. f[k + 1] = ss[k + 1] /\ 1 .. k + 1 = {k + 1}
        BY <2>1, <3>1
      <4>2. Good(k + 1)
        BY <3>0, <3>a, <3>1, <4>1
      <4>3. QED
        BY <3>0, <4>2
    <3>2. CASE k # 0
      <4>1. k \in 1 .. n - 1
        BY <3>2
      <4>2. f[k + 1] = f[k] \o ss[k + 1]
        BY <2>1, <4>1
      <4>3. Good(k)
        BY <2>3, <3>2
      <4>4. 1 .. k + 1 = (1 .. k) \cup {k + 1}
        BY <4>1
      <4>5. f[k] \in Seq(S) /\ Len(f[k]) \in Nat
        BY <4>3, LenProperties
      <4>6. /\ f[k + 1] \in Seq(S) /\ Len(f[k + 1]) = Len(f[k]) + Len(ss[k + 1])
            /\ Range(f[k + 1]) = Range(f[k]) \cup Range(ss[k + 1])
        BY <3>0, <4>2, <4>5, ConcatProperties, RangeOfConcat
      <4>7. Range(f[k + 1]) = UNION {Range(ss[i]) : i \in 1 .. k + 1}
        BY <4>3, <4>4, <4>6
      <4>8. (\A i \in 1 .. n : ss[i] # <<>>) => Len(f[k + 1]) >= k + 1
        <5>1. PICK a \in Nat : a = Len(f[k])
          BY <4>5
        <5>2. PICK b \in Nat : b = Len(ss[k + 1])
          BY <3>a
        <5>3. (\A i \in 1 .. n : ss[i] # <<>>) => a >= k /\ b >= 1
          BY <3>a, <4>3, <5>1, <5>2
        <5>4. Len(f[k + 1]) = a + b
          BY <4>6, <5>1, <5>2
        <5>5. a >= k /\ b >= 1 => a + b >= k + 1
          BY <4>1
        <5>6. QED
          BY <5>3, <5>4, <5>5
      <4>9. Good(k + 1)
        BY <4>6, <4>7, <4>8
      <4>10. k + 1 \in 0 .. n
        BY <3>0
      <4> HIDE DEF Good
      <4>11. QED
        BY <4>9, <4>10
    <3>3. QED
      BY <3>1, <3>2
  <2>4. n \in T
    <3>1. n \in 0 .. n
      OBVIOUS
    <3> HIDE DEF T
    <3>2. \A k \in 0 .. n : k \in T
      BY <2>2, <2>3, UpTo
    <3>3. QED
      BY <3>1, <3>2
  <2>5. QED
    BY <1>3, <2>1, <2>4
<1>4. QED
  BY <1>2, <1>3

-----------------------------------------------------------------------------
(* The tokens of the command line.                                         *)
Keys == {NoKey, Key("ip"), Key("cmd")}
        \cup {VolumeKey(name, i) : name \in {"source", "target", "readonly"}, i \in Nat}
Tokens(W) == [key : Keys, word : W, open : BOOLEAN]
First(key, arg) == [key |-> key, word |-> arg[1], open |-> Len(arg) > 1]

LEMMA EscapedFacts ==
  ASSUME NEW W, NEW key \in Keys, NEW arg \in Seq(W)
  PROVE  /\ Escaped(key, arg) \in Seq(Tokens(W))
         /\ \A t \in Range(Escaped(key, arg)) :
              t.key = NoKey \/ (arg # <<>> /\ t = First(key, arg))
         /\ arg # <<>> => /\ First(key, arg) \in Range(Escaped(key, arg))
                          /\ Escaped(key, arg) # <<>>
<1>1. Len(arg) \in Nat /\ DOMAIN arg = 1 .. Len(arg) /\ \A i \in 1 .. Len(arg) : arg[i] \in W
  BY LenProperties, ElementOfSeq
<1>2. PICK n \in Nat : n = Len(arg)
  BY <1>1
<1>3. Escaped(key, arg) = [i \in 1 .. n |-> [key |-> IF i = 1 THEN key ELSE NoKey,
                                             word |-> arg[i], open |-> i = 1 /\ n > 1]]
  BY <1>1, <1>2 DEF Escaped
<1>4. NoKey \in Keys
  BY DEF Keys
<1>5. Escaped(key, arg) \in [1 .. n -> Tokens(W)]
  BY <1>1, <1>2, <1>3, <1>4 DEF Tokens
<1>6. Escaped(key, arg) \in Seq(Tokens(W)) /\ Len(Escaped(key, arg)) = n
  BY <1>5, LenOf
<1>7. ASSUME NEW t \in Range(Escaped(key, arg)), t.key # NoKey
      PROVE  arg # <<>> /\ t = First(key, arg)
  <2>1. PICK i \in 1 .. n : t = Escaped(key, arg)[i]
    BY <1>3, <1>7 DEF Range
  <2>2. i = 1
    BY <1>3, <1>7, <2>1
  <2>3. arg # <<>>
    BY <1>2, <2>1, EmptySeq
  <2>4. QED
    BY <1>2, <1>3, <2>1, <2>2, <2>3 DEF First
<1>8. ASSUME arg # <<>>
      PROVE  First(key, arg) \in Range(Escaped(key, arg)) /\ Escaped(key, arg) # <<>>
  <2>1. Len(arg) \in Nat \ {0}
    BY <1>8, EmptySeq
  <2>2. 1 \in 1 .. n
    BY <1>2, <2>1
  <2>3. Escaped(key, arg)[1] = First(key, arg) /\ DOMAIN Escaped(key, arg) = 1 .. n
    BY <1>2, <1>3, <2>2 DEF First
  <2>4. First(key, arg) \in Range(Escaped(key, arg))
    BY <2>2, <2>3 DEF Range
  <2>5. Escaped(key, arg) # <<>>
    BY <1>2, <1>6, <2>1, EmptySeq
  <2>6. QED
    BY <2>4, <2>5
<1>9. QED
  BY <1>6, <1>7, <1>8

LEMMA ParamIs ==
  ASSUME NEW S, NEW tokens \in Seq(S), NEW key, NEW arg,
         \A t \in Range(tokens) : t.key = key => t = First(key, arg),
         First(key, arg) \in Range(tokens)
  PROVE  Param(tokens, key) = [word |-> arg[1], open |-> Len(arg) > 1]
<1> DEFINE those == {i \in DOMAIN tokens : tokens[i].key = key}
<1>1. DOMAIN tokens = 1 .. Len(tokens) /\ Len(tokens) \in Nat
  BY LenProperties
<1>2. those # {}
  <2>1. PICK i \in DOMAIN tokens : tokens[i] = First(key, arg)
    BY DEF Range
  <2>2. QED
    BY <2>1 DEF First
<1>3. Max(those) \in those
  <2>1. those \in SUBSET (0 .. Len(tokens))
    BY <1>1
  <2> HIDE DEF those
  <2>2. QED
    BY <1>1, <1>2, <2>1, MaxExists
<1>4. tokens[Max(those)] = First(key, arg)
  <2>1. ASSUME NEW i \in those
        PROVE  tokens[i] = First(key, arg)
    BY DEF Range
  <2> HIDE DEF those
  <2>2. QED
    BY <1>3, <2>1
<1>5. Param(tokens, key) = [word |-> tokens[Max(those)].word, open |-> tokens[Max(those)].open]
  BY <1>2 DEF Param
<1> HIDE DEF those
<1>6. QED
  BY <1>4, <1>5 DEF First

LEMMA ParamAbsent ==
  ASSUME NEW tokens, NEW key, \A t \in Range(tokens) : t.key # key
  PROVE  Param(tokens, key) = Absent
BY DEF Param, Range

VolumeArgs == {"source", "target", "readonly"}
Arg(vol, name) ==
  CASE name = "source" -> vol.source [] name = "target" -> vol.target
    [] name = "readonly" -> <<Mode(vol)>>

LEMMA NotEmpty ==
  ASSUME NEW S, NEW s \in Seq(S), NEW x \in Range(s)
  PROVE  s # <<>> /\ Len(s) >= 1
<1>1. PICK i \in 1 .. Len(s) : x = s[i]
  BY LenProperties DEF Range
<1>2. Len(s) \in Nat
  BY LenProperties
<1>3. QED
  BY <1>1, <1>2, EmptySeq

LEMMA VolumeTokensFacts ==
  ASSUME NEW W, {"true", "false"} \subseteq W, NEW i \in Nat,
         NEW vol, vol.source \in Seq(W), vol.target \in Seq(W)
  PROVE  /\ VolumeTokens(vol, i) \in Seq(Tokens(W)) /\ VolumeTokens(vol, i) # <<>>
         /\ \A t \in Range(VolumeTokens(vol, i)) :
              \/ t.key = NoKey
              \/ \E name \in VolumeArgs :
                   Arg(vol, name) # <<>> /\ t = First(VolumeKey(name, i), Arg(vol, name))
         /\ \A name \in VolumeArgs :
              Arg(vol, name) # <<>> =>
                First(VolumeKey(name, i), Arg(vol, name)) \in Range(VolumeTokens(vol, i))
<1> DEFINE E(name) == Escaped(VolumeKey(name, i), Arg(vol, name))
<1>1. ASSUME NEW name \in VolumeArgs
      PROVE  Arg(vol, name) \in Seq(W) /\ VolumeKey(name, i) \in Keys
  <2>1. <<Mode(vol)>> \in Seq(W)
    BY DEF Mode
  <2>2. QED
    BY <2>1 DEF VolumeArgs, Arg, Keys
<1>2. VolumeTokens(vol, i) = (E("source") \o E("target")) \o E("readonly")
  BY DEF VolumeTokens, Arg
<1>3. ASSUME NEW name \in VolumeArgs
      PROVE  /\ E(name) \in Seq(Tokens(W))
             /\ \A t \in Range(E(name)) :
                  \/ t.key = NoKey
                  \/ Arg(vol, name) # <<>> /\ t = First(VolumeKey(name, i), Arg(vol, name))
             /\ Arg(vol, name) # <<>> =>
                  First(VolumeKey(name, i), Arg(vol, name)) \in Range(E(name))
  BY <1>1, EscapedFacts
<1> HIDE DEF E
<1>4. /\ E("source") \in Seq(Tokens(W)) /\ E("target") \in Seq(Tokens(W))
      /\ E("readonly") \in Seq(Tokens(W))
  BY <1>3 DEF VolumeArgs
<1>5. /\ E("source") \o E("target") \in Seq(Tokens(W))
      /\ Range(E("source") \o E("target")) = Range(E("source")) \cup Range(E("target"))
  BY <1>4, ConcatProperties, RangeOfConcat
<1>6. /\ VolumeTokens(vol, i) \in Seq(Tokens(W))
      /\ Range(VolumeTokens(vol, i)) = UNION {Range(E(name)) : name \in VolumeArgs}
  <2>1. VolumeTokens(vol, i) \in Seq(Tokens(W))
    BY <1>2, <1>4, <1>5, ConcatProperties
  <2>2. Range((E("source") \o E("target")) \o E("readonly"))
          = Range(E("source") \o E("target")) \cup Range(E("readonly"))
    <3>1. PICK c, r : c = E("source") \o E("target") /\ r = E("readonly")
      OBVIOUS
    <3>2. c \in Seq(Tokens(W)) /\ r \in Seq(Tokens(W))
      BY <1>4, <1>5, <3>1
    <3>3. Range(c \o r) = Range(c) \cup Range(r)
      BY <3>2, RangeOfConcat
    <3>4. QED
      BY <3>1, <3>3
  <2>3. Range(VolumeTokens(vol, i))
          = (Range(E("source")) \cup Range(E("target"))) \cup Range(E("readonly"))
    BY <1>2, <1>5, <2>2
  <2>4. QED
    BY <2>1, <2>3 DEF VolumeArgs
<1>7. VolumeTokens(vol, i) # <<>>
  <2>1. Arg(vol, "readonly") # <<>> /\ "readonly" \in VolumeArgs
    BY DEF Arg, VolumeArgs
  <2>2. First(VolumeKey("readonly", i), Arg(vol, "readonly")) \in Range(VolumeTokens(vol, i))
    BY <1>3, <1>6, <2>1
  <2>3. QED
    BY <1>6, <2>2, NotEmpty
<1>8. QED
  BY <1>3, <1>6, <1>7

(* What the host writes for the settings s. *)
Line(s) == BuildInitCmdline(s.cmd, s.ip, s.volumes)
Volume(s, i) == s.volumes[i + 1]
VolumeLine(s) == FlattenSeq([i \in DOMAIN s.volumes |-> VolumeTokens(s.volumes[i], i - 1)])
CommandLine(s) ==
  IF s.cmd = <<>> THEN Escaped(Key("cmd"), <<"/sbin/init">>)
  ELSE FlattenSeq([i \in DOMAIN s.cmd |->
                     Escaped(IF i = 1 THEN Key("cmd") ELSE NoKey, s.cmd[i])])
CommandWords(s) == UNION {Range(arg) : arg \in Range(s.cmd)}
VolumeWords(s) == UNION {Range(v.source) \cup Range(v.target) : v \in Range(s.volumes)}
WordsOf(s) ==
  {"true", "false", "/sbin/init"} \cup Range(s.ip) \cup CommandWords(s) \cup VolumeWords(s)

LEMMA VolumeLineFacts ==
  ASSUME NEW s \in Settings, NEW W, W = WordsOf(s)
  PROVE  /\ VolumeLine(s) \in Seq(Tokens(W)) /\ Len(VolumeLine(s)) >= Len(s.volumes)
         /\ \A t \in Range(VolumeLine(s)) :
              \/ t.key = NoKey
              \/ \E i \in 0 .. Len(s.volumes) - 1 : \E name \in VolumeArgs :
                   /\ Arg(Volume(s, i), name) # <<>>
                   /\ t = First(VolumeKey(name, i), Arg(Volume(s, i), name))
         /\ \A i \in 0 .. Len(s.volumes) - 1 : \A name \in VolumeArgs :
              Arg(Volume(s, i), name) # <<>> =>
                First(VolumeKey(name, i), Arg(Volume(s, i), name)) \in Range(VolumeLine(s))
<1>1. /\ s.volumes \in Seq(Range(s.volumes))
      /\ \A v \in Range(s.volumes) : IsArg(v.source) /\ IsArg(v.target)
  BY SettingsAssumption
<1>2. PICK n \in Nat : n = Len(s.volumes)
  BY <1>1, LenProperties
<1>3. DOMAIN s.volumes = 1 .. n
  BY <1>1, <1>2, LenProperties
<1> DEFINE ss == [i \in 1 .. n |-> VolumeTokens(s.volumes[i], i - 1)]
<1>4. VolumeLine(s) = FlattenSeq(ss)
  BY <1>3 DEF VolumeLine
<1>5. ASSUME NEW i \in 1 .. n
      PROVE  /\ s.volumes[i].source \in Seq(W) /\ s.volumes[i].target \in Seq(W)
             /\ i - 1 \in Nat /\ {"true", "false"} \subseteq W
  <2>1. s.volumes[i] \in Range(s.volumes)
    BY <1>3 DEF Range
  <2>2. /\ Range(s.volumes[i].source) \subseteq W /\ Range(s.volumes[i].target) \subseteq W
        /\ {"true", "false"} \subseteq W
    <3>1. VolumeWords(s) \subseteq W
      BY DEF WordsOf
    <3>2. Range(s.volumes[i].source) \cup Range(s.volumes[i].target) \subseteq VolumeWords(s)
      BY <2>1 DEF VolumeWords
    <3>3. {"true", "false"} \subseteq W
      BY DEF WordsOf
    <3>4. QED
      BY <3>1, <3>2, <3>3
  <2>3. /\ s.volumes[i].source \in Seq(Range(s.volumes[i].source))
        /\ s.volumes[i].target \in Seq(Range(s.volumes[i].target))
    BY <1>1, <2>1 DEF IsArg
  <2>4. QED
    BY <2>2, <2>3, SeqMonotonic
<1>6. ASSUME NEW i \in 1 .. n
      PROVE  /\ ss[i] \in Seq(Tokens(W)) /\ ss[i] # <<>>
             /\ \A t \in Range(ss[i]) :
                  \/ t.key = NoKey
                  \/ \E name \in VolumeArgs :
                       /\ Arg(s.volumes[i], name) # <<>>
                       /\ t = First(VolumeKey(name, i - 1), Arg(s.volumes[i], name))
             /\ \A name \in VolumeArgs :
                  Arg(s.volumes[i], name) # <<>> =>
                    First(VolumeKey(name, i - 1), Arg(s.volumes[i], name)) \in Range(ss[i])
  <2>1. ss[i] = VolumeTokens(s.volumes[i], i - 1)
    OBVIOUS
  <2>2. PICK j, v : j = i - 1 /\ v = s.volumes[i]
    OBVIOUS
  <2>3. j \in Nat /\ v.source \in Seq(W) /\ v.target \in Seq(W) /\ {"true", "false"} \subseteq W
    BY <1>5, <2>2
  <2>4. /\ VolumeTokens(v, j) \in Seq(Tokens(W)) /\ VolumeTokens(v, j) # <<>>
        /\ \A t \in Range(VolumeTokens(v, j)) :
             \/ t.key = NoKey
             \/ \E name \in VolumeArgs :
                  Arg(v, name) # <<>> /\ t = First(VolumeKey(name, j), Arg(v, name))
        /\ \A name \in VolumeArgs :
             Arg(v, name) # <<>> =>
               First(VolumeKey(name, j), Arg(v, name)) \in Range(VolumeTokens(v, j))
    BY <2>3, VolumeTokensFacts
  <2>5. ss[i] = VolumeTokens(v, j)
    BY <2>1, <2>2
  <2> HIDE DEF ss
  <2>6. QED
    BY <2>2, <2>4, <2>5
<1>7. ss \in [1 .. n -> Seq(Tokens(W))]
  BY <1>6
<1> HIDE DEF ss
<1>8. /\ VolumeLine(s) \in Seq(Tokens(W))
      /\ Range(VolumeLine(s)) = UNION {Range(ss[i]) : i \in 1 .. n}
      /\ Len(VolumeLine(s)) >= n
  BY <1>4, <1>6, <1>7, FlattenFacts
<1>9. ASSUME NEW t \in Range(VolumeLine(s)), t.key # NoKey
      PROVE  \E i \in 0 .. n - 1 : \E name \in VolumeArgs :
               /\ Arg(Volume(s, i), name) # <<>>
               /\ t = First(VolumeKey(name, i), Arg(Volume(s, i), name))
  <2>1. PICK i \in 1 .. n : t \in Range(ss[i])
    BY <1>8
  <2>2. i - 1 \in 0 .. n - 1 /\ Volume(s, i - 1) = s.volumes[i]
    BY DEF Volume
  <2>3. QED
    BY <1>6, <1>9, <2>1, <2>2
<1>10. ASSUME NEW i \in 0 .. n - 1, NEW name \in VolumeArgs, Arg(Volume(s, i), name) # <<>>
       PROVE  First(VolumeKey(name, i), Arg(Volume(s, i), name)) \in Range(VolumeLine(s))
  <2>1. i + 1 \in 1 .. n /\ (i + 1) - 1 = i
    OBVIOUS
  <2>2. First(VolumeKey(name, i), Arg(Volume(s, i), name)) \in Range(ss[i + 1])
    BY <1>6, <1>10, <2>1 DEF Volume
  <2>3. QED
    BY <1>8, <2>1, <2>2
<1>11. QED
  BY <1>2, <1>8, <1>9, <1>10

FirstArg(s) == IF s.cmd = <<>> THEN <<"/sbin/init">> ELSE s.cmd[1]

LEMMA CommandLineFacts ==
  ASSUME NEW s \in Settings, NEW W, W = WordsOf(s)
  PROVE  /\ CommandLine(s) \in Seq(Tokens(W))
         /\ \A t \in Range(CommandLine(s)) :
              t.key = NoKey \/ t = First(Key("cmd"), FirstArg(s))
         /\ FirstArg(s) # <<>> => First(Key("cmd"), FirstArg(s)) \in Range(CommandLine(s))
<1>1. s.cmd \in Seq(Range(s.cmd)) /\ \A arg \in Range(s.cmd) : IsArg(arg)
  BY SettingsAssumption
<1>2. PICK n \in Nat : n = Len(s.cmd)
  BY <1>1, LenProperties
<1>3. DOMAIN s.cmd = 1 .. n
  BY <1>1, <1>2, LenProperties
<1>4. Key("cmd") \in Keys /\ NoKey \in Keys
  BY DEF Keys
<1>5. CASE s.cmd = <<>>
  <2>1. <<"/sbin/init">> \in Seq(W)
    <3>1. "/sbin/init" \in W
      BY DEF WordsOf
    <3>2. QED
      BY <3>1
  <2>2. CommandLine(s) = Escaped(Key("cmd"), FirstArg(s)) /\ FirstArg(s) = <<"/sbin/init">>
    BY <1>5 DEF CommandLine, FirstArg
  <2>3. QED
    BY <1>4, <2>1, <2>2, EscapedFacts
<1>6. CASE s.cmd # <<>>
  <2> DEFINE key(i) == IF i = 1 THEN Key("cmd") ELSE NoKey
             ss == [i \in 1 .. n |-> Escaped(key(i), s.cmd[i])]
  <2>1. CommandLine(s) = FlattenSeq(ss)
    BY <1>3, <1>6 DEF CommandLine
  <2>2. ASSUME NEW i \in 1 .. n
        PROVE  s.cmd[i] \in Seq(W) /\ key(i) \in Keys
    <3>1. s.cmd[i] \in Range(s.cmd)
      BY <1>3 DEF Range
    <3>2. Range(s.cmd[i]) \subseteq CommandWords(s) /\ CommandWords(s) \subseteq W
      BY <3>1 DEF WordsOf, CommandWords
    <3>3. s.cmd[i] \in Seq(Range(s.cmd[i]))
      BY <1>1, <3>1 DEF IsArg
    <3>4. QED
      BY <1>4, <3>2, <3>3, SeqMonotonic
  <2>3. ASSUME NEW i \in 1 .. n
        PROVE  /\ ss[i] \in Seq(Tokens(W))
               /\ \A t \in Range(ss[i]) :
                    t.key = NoKey \/ (s.cmd[i] # <<>> /\ t = First(key(i), s.cmd[i]))
               /\ s.cmd[i] # <<>> => First(key(i), s.cmd[i]) \in Range(ss[i])
    <3>1. PICK k, arg : k = key(i) /\ arg = s.cmd[i]
      OBVIOUS
    <3>2. k \in Keys /\ arg \in Seq(W)
      BY <2>2, <3>1
    <3>3. /\ Escaped(k, arg) \in Seq(Tokens(W))
          /\ \A t \in Range(Escaped(k, arg)) :
               t.key = NoKey \/ (arg # <<>> /\ t = First(k, arg))
          /\ arg # <<>> => First(k, arg) \in Range(Escaped(k, arg))
      BY <3>2, EscapedFacts
    <3>4. ss[i] = Escaped(k, arg)
      BY <3>1
    <3> HIDE DEF ss, key
    <3>5. QED
      BY <3>1, <3>3, <3>4
  <2>4. ss \in [1 .. n -> Seq(Tokens(W))]
    BY <2>3
  <2> HIDE DEF ss
  <2>5. /\ CommandLine(s) \in Seq(Tokens(W))
        /\ Range(CommandLine(s)) = UNION {Range(ss[i]) : i \in 1 .. n}
    BY <2>1, <2>4, FlattenFacts
  <2>6. ASSUME NEW t \in Range(CommandLine(s)), t.key # NoKey
        PROVE  t = First(Key("cmd"), FirstArg(s))
    <3>1. PICK i \in 1 .. n : t \in Range(ss[i])
      BY <2>5
    <3>2. t = First(key(i), s.cmd[i])
      BY <2>3, <2>6, <3>1
    <3>3. i = 1
      BY <2>6, <3>2 DEF First
    <3>4. QED
      BY <1>6, <3>2, <3>3 DEF FirstArg
  <2>7. ASSUME FirstArg(s) # <<>>
        PROVE  First(Key("cmd"), FirstArg(s)) \in Range(CommandLine(s))
    <3>1. 1 \in 1 .. n
      BY <1>1, <1>2, <1>6, EmptySeq
    <3>2. FirstArg(s) = s.cmd[1] /\ key(1) = Key("cmd")
      BY <1>6 DEF FirstArg
    <3>3. First(Key("cmd"), FirstArg(s)) \in Range(ss[1])
      BY <2>3, <2>7, <3>1, <3>2
    <3>4. QED
      BY <2>5, <3>1, <3>3
  <2>8. QED
    BY <2>5, <2>6, <2>7
<1>7. QED
  BY <1>5, <1>6

LEMMA LineFacts ==
  ASSUME NEW s \in Settings
  PROVE  /\ \E S : Line(s) \in Seq(S)
         /\ Len(Line(s)) >= Len(s.volumes)
         /\ \A t \in Range(Line(s)) :
              \/ t.key = NoKey
              \/ t.key = Key("ip")
              \/ t = First(Key("cmd"), FirstArg(s))
              \/ \E i \in 0 .. Len(s.volumes) - 1 : \E name \in VolumeArgs :
                   /\ Arg(Volume(s, i), name) # <<>>
                   /\ t = First(VolumeKey(name, i), Arg(Volume(s, i), name))
         /\ FirstArg(s) # <<>> => First(Key("cmd"), FirstArg(s)) \in Range(Line(s))
         /\ \A i \in 0 .. Len(s.volumes) - 1 : \A name \in VolumeArgs :
              Arg(Volume(s, i), name) # <<>> =>
                First(VolumeKey(name, i), Arg(Volume(s, i), name)) \in Range(Line(s))
<1> DEFINE W == WordsOf(s)
           A == Escaped(Key("ip"), s.ip)
<1>1. /\ A \in Seq(Tokens(W))
      /\ \A t \in Range(A) : t.key = NoKey \/ t.key = Key("ip")
  <2>1. s.ip \in Seq(W)
    <3>1. s.ip \in Seq(Range(s.ip)) /\ Range(s.ip) \subseteq W
      BY SettingsAssumption DEF IsArg, WordsOf
    <3>2. QED
      BY <3>1, SeqMonotonic
  <2>2. Key("ip") \in Keys
    BY DEF Keys
  <2> HIDE DEF W
  <2>3. /\ A \in Seq(Tokens(W))
        /\ \A t \in Range(A) : t.key = NoKey \/ t = First(Key("ip"), s.ip)
    BY <2>1, <2>2, EscapedFacts
  <2>4. QED
    BY <2>3 DEF First
<1> HIDE DEF A, W
<1>2. Line(s) = (A \o VolumeLine(s)) \o CommandLine(s)
  BY DEF Line, BuildInitCmdline, A, VolumeLine, CommandLine
<1>3. VolumeLine(s) \in Seq(Tokens(W)) /\ CommandLine(s) \in Seq(Tokens(W))
  BY VolumeLineFacts, CommandLineFacts DEF W
<1>4. PICK c : c = A \o VolumeLine(s)
  OBVIOUS
<1>5. /\ c \in Seq(Tokens(W)) /\ Range(c) = Range(A) \cup Range(VolumeLine(s))
      /\ Len(c) = Len(A) + Len(VolumeLine(s))
  BY <1>1, <1>3, <1>4, ConcatProperties, RangeOfConcat
<1>6. /\ Line(s) \in Seq(Tokens(W)) /\ Range(Line(s)) = Range(c) \cup Range(CommandLine(s))
      /\ Len(Line(s)) = Len(c) + Len(CommandLine(s))
  <2>1. PICK d : d = CommandLine(s)
    OBVIOUS
  <2>2. c \in Seq(Tokens(W)) /\ d \in Seq(Tokens(W))
    BY <1>3, <1>5, <2>1
  <2>3. /\ c \o d \in Seq(Tokens(W)) /\ Range(c \o d) = Range(c) \cup Range(d)
        /\ Len(c \o d) = Len(c) + Len(d)
    BY <2>2, ConcatProperties, RangeOfConcat
  <2>4. Line(s) = c \o d
    BY <1>2, <1>4, <2>1
  <2>5. QED
    BY <2>1, <2>3, <2>4
<1>7. Len(Line(s)) >= Len(s.volumes)
  <2>1. PICK a \in Nat : a = Len(A)
    BY <1>1, LenProperties
  <2>2. PICK v \in Nat : v = Len(VolumeLine(s))
    BY <1>3, LenProperties
  <2>3. PICK d \in Nat : d = Len(CommandLine(s))
    BY <1>3, LenProperties
  <2>4. PICK n \in Nat : n = Len(s.volumes)
    BY SettingsAssumption, LenProperties
  <2>5. v >= n
    BY <2>2, <2>4, VolumeLineFacts
  <2>6. Len(Line(s)) = (a + v) + d
    BY <1>5, <1>6, <2>1, <2>2, <2>3
  <2>7. (a + v) + d >= n
    BY <2>5
  <2>8. QED
    BY <2>4, <2>6, <2>7
<1>8. ASSUME NEW t \in Range(Line(s))
      PROVE  \/ t.key = NoKey
             \/ t.key = Key("ip")
             \/ t = First(Key("cmd"), FirstArg(s))
             \/ \E i \in 0 .. Len(s.volumes) - 1 : \E name \in VolumeArgs :
                  /\ Arg(Volume(s, i), name) # <<>>
                  /\ t = First(VolumeKey(name, i), Arg(Volume(s, i), name))
  <2>1. CASE t \in Range(A)
    BY <1>1, <2>1
  <2>2. CASE t \in Range(VolumeLine(s))
    BY <2>2, VolumeLineFacts
  <2>3. CASE t \in Range(CommandLine(s))
    BY <2>3, CommandLineFacts
  <2>4. QED
    BY <1>5, <1>6, <2>1, <2>2, <2>3
<1>9. FirstArg(s) # <<>> => First(Key("cmd"), FirstArg(s)) \in Range(Line(s))
  BY <1>6, CommandLineFacts
<1>10. \A i \in 0 .. Len(s.volumes) - 1 : \A name \in VolumeArgs :
         Arg(Volume(s, i), name) # <<>> =>
           First(VolumeKey(name, i), Arg(Volume(s, i), name)) \in Range(Line(s))
  BY <1>5, <1>6, VolumeLineFacts
<1>11. QED
  BY <1>6, <1>7, <1>8, <1>9, <1>10

(* What process 1 finds on the command line.                               *)
LEMMA SettingsFacts ==
  ASSUME NEW s \in Settings
  PROVE  /\ Len(s.volumes) \in Nat /\ DOMAIN s.volumes = 1 .. Len(s.volumes)
         /\ \A i \in 0 .. Len(s.volumes) - 1 : i \in Nat
         /\ \A i \in 0 .. Len(s.volumes) - 1 :
              /\ Volume(s, i).source # <<>> /\ Volume(s, i).source[1] # ""
              /\ Volume(s, i).target # <<>> => Volume(s, i).target[1] # ""
         /\ \A arg \in Range(s.cmd) : arg # <<>> => arg[1] # ""
<1>1. /\ s.volumes \in Seq(Range(s.volumes))
      /\ \A arg \in Range(s.cmd) : IsArg(arg)
      /\ \A v \in Range(s.volumes) : IsArg(v.source) /\ v.source # <<>> /\ IsArg(v.target)
  BY SettingsAssumption
<1>2. Len(s.volumes) \in Nat /\ DOMAIN s.volumes = 1 .. Len(s.volumes)
  BY <1>1, LenProperties
<1>3. ASSUME NEW arg, IsArg(arg), arg # <<>>
      PROVE  arg[1] # ""
  <2>1. arg \in Seq(Range(arg)) /\ "" \notin Range(arg)
    BY <1>3 DEF IsArg
  <2>2. Len(arg) \in Nat \ {0} /\ DOMAIN arg = 1 .. Len(arg)
    BY <1>3, <2>1, EmptySeq, LenProperties
  <2>3. 1 \in DOMAIN arg
    BY <2>2
  <2>4. QED
    BY <2>1, <2>3 DEF Range
<1>4. ASSUME NEW i \in 0 .. Len(s.volumes) - 1
      PROVE  Volume(s, i) \in Range(s.volumes)
  <2>1. i + 1 \in DOMAIN s.volumes
    BY <1>2
  <2>2. QED
    BY <2>1 DEF Volume, Range
<1>5. \A i \in 0 .. Len(s.volumes) - 1 : i \in Nat
  <2>1. PICK n \in Nat : n = Len(s.volumes)
    BY <1>2
  <2>2. \A i \in 0 .. n - 1 : i \in Nat
    OBVIOUS
  <2>3. QED
    BY <2>1, <2>2
<1>6. QED
  BY <1>1, <1>2, <1>3, <1>4, <1>5

LEMMA VolumeParams ==
  ASSUME NEW s \in Settings, NEW name \in VolumeArgs, NEW i \in Nat
  PROVE  Param(Line(s), VolumeKey(name, i)) =
           IF i < Len(s.volumes) /\ Arg(Volume(s, i), name) # <<>>
             THEN [word |-> Arg(Volume(s, i), name)[1], open |-> Len(Arg(Volume(s, i), name)) > 1]
             ELSE Absent
<1>1. PICK S : Line(s) \in Seq(S)
  BY LineFacts
<1>2. VolumeKey(name, i) \notin {NoKey, Key("ip"), Key("cmd")}
  BY DEF VolumeKey, VolumeArgs, NoKey, Key
<1>3. ASSUME NEW t \in Range(Line(s)), t.key = VolumeKey(name, i)
      PROVE  /\ i < Len(s.volumes) /\ Arg(Volume(s, i), name) # <<>>
             /\ t = First(VolumeKey(name, i), Arg(Volume(s, i), name))
  <2>1. t # First(Key("cmd"), FirstArg(s))
    BY <1>2, <1>3 DEF First
  <2>2. PICK j \in 0 .. Len(s.volumes) - 1 : \E other \in VolumeArgs :
          /\ Arg(Volume(s, j), other) # <<>>
          /\ t = First(VolumeKey(other, j), Arg(Volume(s, j), other))
    BY <1>2, <1>3, <2>1, LineFacts
  <2>3. PICK other \in VolumeArgs :
          /\ Arg(Volume(s, j), other) # <<>>
          /\ t = First(VolumeKey(other, j), Arg(Volume(s, j), other))
    BY <2>2
  <2>4. VolumeKey(other, j) = VolumeKey(name, i)
    BY <1>3, <2>3 DEF First
  <2>5. other = name /\ j = i
    BY <2>4 DEF VolumeKey
  <2>6. i < Len(s.volumes)
    <3>1. PICK n \in Nat : n = Len(s.volumes)
      BY SettingsFacts
    <3>2. QED
      BY <2>5, <3>1
  <2>7. QED
    BY <2>3, <2>5, <2>6
<1>4. CASE i < Len(s.volumes) /\ Arg(Volume(s, i), name) # <<>>
  <2>1. i \in 0 .. Len(s.volumes) - 1
    <3>1. PICK n \in Nat : n = Len(s.volumes)
      BY SettingsFacts
    <3>2. QED
      BY <1>4, <3>1
  <2>2. First(VolumeKey(name, i), Arg(Volume(s, i), name)) \in Range(Line(s))
    BY <1>4, <2>1, LineFacts
  <2>3. Param(Line(s), VolumeKey(name, i)) =
          [word |-> Arg(Volume(s, i), name)[1], open |-> Len(Arg(Volume(s, i), name)) > 1]
    BY <1>1, <1>3, <2>2, ParamIs
  <2>4. QED
    BY <1>4, <2>3
<1>5. CASE ~(i < Len(s.volumes) /\ Arg(Volume(s, i), name) # <<>>)
  <2>1. \A t \in Range(Line(s)) : t.key # VolumeKey(name, i)
    BY <1>3, <1>5
  <2>2. Param(Line(s), VolumeKey(name, i)) = Absent
    BY <2>1, ParamAbsent
  <2>3. QED
    BY <1>5, <2>2
<1>6. QED
  BY <1>4, <1>5

LEMMA CommandArrives ==
  ASSUME NEW s \in Settings, FirstArg(s) # <<>>, FirstArg(s)[1] # ""
  PROVE  Command(Line(s)) = [word |-> FirstArg(s)[1], open |-> Len(FirstArg(s)) > 1]
<1>1. PICK S : Line(s) \in Seq(S)
  BY LineFacts
<1>2. \A n, i : Key("cmd") \notin {NoKey, Key("ip")}
  BY DEF NoKey, Key
<1>3. \A name \in VolumeArgs : \A i \in Nat : VolumeKey(name, i) # Key("cmd")
  BY DEF VolumeKey, VolumeArgs, Key
<1>4. ASSUME NEW t \in Range(Line(s)), t.key = Key("cmd")
      PROVE  t = First(Key("cmd"), FirstArg(s))
  <2>0. \A i \in 0 .. Len(s.volumes) - 1 : i \in Nat
    BY SettingsFacts
  <2>1. ASSUME NEW i \in 0 .. Len(s.volumes) - 1, NEW name \in VolumeArgs,
               t = First(VolumeKey(name, i), Arg(Volume(s, i), name))
        PROVE  FALSE
    <3>1. t.key = VolumeKey(name, i)
      BY <2>1 DEF First
    <3>2. QED
      BY <1>3, <1>4, <2>1, <2>0, <3>1
  <2>2. QED
    BY <1>2, <1>4, <2>1, LineFacts
<1>5. Param(Line(s), Key("cmd")) = [word |-> FirstArg(s)[1], open |-> Len(FirstArg(s)) > 1]
  BY <1>1, <1>4, LineFacts, ParamIs
<1>6. Param(Line(s), Key("cmd")) # Absent
  <2>1. Param(Line(s), Key("cmd")).word # ""
    <3>1. PICK w, o : w = FirstArg(s)[1] /\ o = (Len(FirstArg(s)) > 1)
      OBVIOUS
    <3>2. Param(Line(s), Key("cmd")) = [word |-> w, open |-> o] /\ w # ""
      BY <1>5, <3>1
    <3>3. PICK r : r = Param(Line(s), Key("cmd"))
      OBVIOUS
    <3>4. r = [word |-> w, open |-> o]
      BY <3>2, <3>3
    <3>5. r.word # ""
      BY <3>2, <3>4
    <3>6. QED
      BY <3>3, <3>5
  <2>2. Absent.word = ""
    BY DEF Absent
  <2>3. QED
    BY <2>1, <2>2
<1>7. QED
  BY <1>5, <1>6 DEF Command

LEMMA VolumesGiven ==
  ASSUME NEW s \in Settings, \A i \in DOMAIN s.volumes : OneWord(s.volumes[i].target)
  PROVE  Volumes(Line(s)) = 0 .. Len(s.volumes) - 1
<1>1. PICK n \in Nat : n = Len(s.volumes)
  BY SettingsFacts
<1>2. PICK m \in Nat : m = Len(Line(s))
  <2>1. PICK S : Line(s) \in Seq(S)
    BY LineFacts
  <2>2. QED
    BY <2>1, LenProperties
<1>3. n <= m
  BY <1>1, <1>2, LineFacts
<1> DEFINE given(i) == /\ Param(Line(s), VolumeKey("source", i)) # Absent
                       /\ Param(Line(s), VolumeKey("target", i)) # Absent
<1>4. ASSUME NEW i \in Nat
      PROVE  given(i) <=> i < n
  <2>0. "source" \in VolumeArgs /\ "target" \in VolumeArgs
    BY DEF VolumeArgs
  <2>1. CASE i < n
    <3>1. i \in 0 .. Len(s.volumes) - 1
      BY <1>1, <2>1
    <3>2. /\ Volume(s, i).source # <<>> /\ Volume(s, i).source[1] # ""
          /\ Volume(s, i).target # <<>> /\ Volume(s, i).target[1] # ""
      <4>1. i + 1 \in DOMAIN s.volumes
        <5>1. DOMAIN s.volumes = 1 .. n
          BY <1>1, SettingsFacts
        <5>2. QED
          BY <2>1, <5>1
      <4>2. Len(Volume(s, i).target) = 1
        BY <4>1 DEF OneWord, Volume
      <4>3. Volume(s, i).target # <<>>
        BY <4>2
      <4>4. QED
        BY <3>1, <4>3, SettingsFacts
    <3>3. /\ Param(Line(s), VolumeKey("source", i)).word = Volume(s, i).source[1]
          /\ Param(Line(s), VolumeKey("target", i)).word = Volume(s, i).target[1]
      <4>1. /\ Arg(Volume(s, i), "source") = Volume(s, i).source
            /\ Arg(Volume(s, i), "target") = Volume(s, i).target
        BY DEF Arg
      <4>2. ASSUME NEW name \in VolumeArgs, NEW arg, arg = Arg(Volume(s, i), name), arg # <<>>
            PROVE  Param(Line(s), VolumeKey(name, i)).word = arg[1]
        <5>1. PICK o : o = (Len(arg) > 1)
          OBVIOUS
        <5>2. Param(Line(s), VolumeKey(name, i)) = [word |-> arg[1], open |-> o]
          BY <1>1, <2>1, <4>2, <5>1, VolumeParams
        <5>3. QED
          BY <5>2
      <4>3. QED
        BY <2>0, <3>2, <4>1, <4>2
    <3>4. Absent.word = ""
      BY DEF Absent
    <3>5. QED
      BY <2>1, <3>2, <3>3, <3>4
  <2>2. CASE ~(i < n)
    <3>1. Param(Line(s), VolumeKey("source", i)) = Absent
      BY <1>1, <2>0, <2>2, VolumeParams
    <3>2. QED
      BY <2>2, <3>1
  <2>3. QED
    BY <2>1, <2>2
<1> HIDE DEF given
<1>5. Volumes(Line(s)) = {i \in 0 .. m : \A j \in 0 .. i : given(j)}
  BY <1>2 DEF Volumes, given
<1>6. ASSUME NEW i \in 0 .. m
      PROVE  (\A j \in 0 .. i : given(j)) <=> i \in 0 .. n - 1
  <2>1. CASE i < n
    <3>1. \A j \in 0 .. i : j \in Nat /\ j < n
      BY <2>1
    <3>2. QED
      BY <1>4, <2>1, <3>1
  <2>2. CASE ~(i < n)
    <3>1. i \in 0 .. i /\ i \in Nat /\ i \notin 0 .. n - 1
      BY <2>2
    <3>2. QED
      BY <1>4, <2>2, <3>1
  <2>3. QED
    BY <2>1, <2>2
<1>7. 0 .. n - 1 \subseteq 0 .. m
  BY <1>3
<1>8. QED
  BY <1>1, <1>5, <1>6, <1>7

LEMMA MountsWanted ==
  ASSUME NEW s \in Settings, \A i \in DOMAIN s.volumes : OneWord(s.volumes[i].target)
  PROVE  {m \in Mounts(Line(s)) : m.volume \in Attached(s.volumes)} =
           {[volume |-> i - 1,
             on |-> [word |-> s.volumes[i].target[1], open |-> FALSE],
             readonly |-> s.volumes[i].readonly] : i \in DOMAIN s.volumes}
<1>1. PICK n \in Nat : n = Len(s.volumes)
  BY SettingsFacts
<1>2. DOMAIN s.volumes = 1 .. n
  BY <1>1, SettingsFacts
<1> DEFINE on(i) == Param(Line(s), VolumeKey("target", i))
           readonly(i) == Param(Line(s), VolumeKey("readonly", i)).word = "true"
           wanted(i) == [volume |-> i - 1,
                         on |-> [word |-> s.volumes[i].target[1], open |-> FALSE],
                         readonly |-> s.volumes[i].readonly]
<1>3. ASSUME NEW i \in 0 .. n - 1
      PROVE  /\ on(i) = [word |-> s.volumes[i + 1].target[1], open |-> FALSE]
             /\ readonly(i) = s.volumes[i + 1].readonly
  <2>0. i \in Nat /\ i < n /\ i + 1 \in DOMAIN s.volumes
    BY <1>2
  <2>1. /\ "target" \in VolumeArgs /\ "readonly" \in VolumeArgs
        /\ Arg(Volume(s, i), "target") = s.volumes[i + 1].target
        /\ Arg(Volume(s, i), "readonly") = <<Mode(s.volumes[i + 1])>>
    BY DEF VolumeArgs, Arg, Volume
  <2>2. PICK target : target = s.volumes[i + 1].target
    OBVIOUS
  <2>3. Len(target) = 1 /\ target # <<>>
    BY <2>0, <2>2 DEF OneWord
  <2>4. PICK mode : mode = Mode(s.volumes[i + 1])
    OBVIOUS
  <2>5. on(i) = [word |-> target[1], open |-> Len(target) > 1]
    BY <1>1, <2>0, <2>1, <2>2, <2>3, VolumeParams
  <2>6. Param(Line(s), VolumeKey("readonly", i)) = [word |-> mode, open |-> FALSE]
    <3>1. PICK arg : arg = <<mode>>
      OBVIOUS
    <3>2. arg # <<>> /\ arg[1] = mode /\ Len(arg) = 1
      BY <3>1
    <3>3. Param(Line(s), VolumeKey("readonly", i)) = [word |-> arg[1], open |-> Len(arg) > 1]
      BY <1>1, <2>0, <2>1, <2>4, <3>1, <3>2, VolumeParams
    <3>4. (Len(arg) > 1) = FALSE
      BY <3>2
    <3>5. QED
      BY <3>2, <3>3, <3>4
  <2>7. s.volumes[i + 1].readonly \in BOOLEAN
    <3>1. s.volumes[i + 1] \in Range(s.volumes)
      BY <2>0 DEF Range
    <3>2. QED
      BY <3>1, SettingsAssumption
  <2>8. on(i) = [word |-> target[1], open |-> FALSE]
    <3>1. (Len(target) > 1) = FALSE
      BY <2>3
    <3> HIDE DEF on
    <3>2. QED
      BY <2>5, <3>1
  <2>9. (mode = "true") = s.volumes[i + 1].readonly
    BY <2>4, <2>7 DEF Mode
  <2> HIDE DEF on
  <2>10. QED
    BY <2>2, <2>6, <2>8, <2>9
<1>4. Volumes(Line(s)) = 0 .. n - 1
  BY <1>1, VolumesGiven
<1>5. Attached(s.volumes) = 0 .. n - 1
  <2>1. Attached(s.volumes) = {i - 1 : i \in 1 .. n}
    BY <1>2 DEF Attached
  <2>2. \A i \in 0 .. n - 1 : i + 1 \in 1 .. n /\ (i + 1) - 1 = i
    OBVIOUS
  <2>3. \A i \in 1 .. n : i - 1 \in 0 .. n - 1
    OBVIOUS
  <2>4. QED
    BY <2>1, <2>2, <2>3
<1> DEFINE mount(i) == [volume |-> i, on |-> on(i), readonly |-> readonly(i)]
<1>6. Mounts(Line(s)) = {mount(i) : i \in 0 .. n - 1}
  BY <1>4 DEF Mounts
<1>7. ASSUME NEW i \in 0 .. n - 1
      PROVE  mount(i) = wanted(i + 1) /\ mount(i).volume = i
  <2>1. PICK o, r : o = on(i) /\ r = readonly(i)
    OBVIOUS
  <2>2. (i + 1) - 1 = i
    OBVIOUS
  <2>3. mount(i) = [volume |-> i, on |-> o, readonly |-> r]
    BY <2>1
  <2>4. wanted(i + 1) = [volume |-> i, on |-> o, readonly |-> r]
    <3> HIDE DEF on, readonly
    <3>1. QED
      BY <1>3, <2>1, <2>2
  <2> HIDE DEF mount, wanted
  <2>5. QED
    BY <2>3, <2>4
<1>8. DOMAIN s.volumes = {i + 1 : i \in 0 .. n - 1}
  <2>1. \A i \in 1 .. n : i - 1 \in 0 .. n - 1 /\ (i - 1) + 1 = i
    OBVIOUS
  <2>2. \A i \in 0 .. n - 1 : i + 1 \in 1 .. n
    OBVIOUS
  <2>3. QED
    BY <1>2, <2>1, <2>2
<1> HIDE DEF mount, wanted
<1>9. {m \in Mounts(Line(s)) : m.volume \in Attached(s.volumes)} = {mount(i) : i \in 0 .. n - 1}
  BY <1>5, <1>6, <1>7
<1>10. {mount(i) : i \in 0 .. n - 1} = {wanted(i) : i \in DOMAIN s.volumes}
  BY <1>7, <1>8
<1>11. QED
  BY <1>9, <1>10 DEF wanted

-----------------------------------------------------------------------------
(* What process 1 has mounted and will start.                              *)
ArriveInv ==
  /\ settings \in Settings /\ cmdline = Line(settings)
  /\ at \in {"start", "notify", "wait"} =>
       mounted = {m \in Mounts(cmdline) : m.volume \in Attached(settings.volumes)}

LEMMA ArriveInit == Init => ArriveInv
BY DEF Init, InitInit, ArriveInv, Line

LEMMA ArriveStep == ArriveInv /\ [Next]_vars => ArriveInv'
<1> SUFFICES ASSUME ArriveInv, [Next]_vars
             PROVE  ArriveInv'
  OBVIOUS
<1>1. CASE UNCHANGED booting
  BY <1>1 DEF booting, ArriveInv
<1>2. CASE InitStep
  <2>1. CASE Boot
    BY <2>1 DEF Boot, Goto, ArriveInv
  <2>2. CASE LoadModule
    BY <2>2 DEF LoadModule, ArriveInv
  <2>3. CASE EndOfPass
    BY <2>3 DEF EndOfPass, Goto, ArriveInv
  <2>4. CASE MountRoot
    BY <2>4 DEF MountRoot, Goto, ArriveInv
  <2>5. CASE Setup
    BY <2>5 DEF Setup, Goto, ArriveInv
  <2>6. CASE IpCommand
    BY <2>6 DEF IpCommand, IpSteps, Goto, ArriveInv
  <2>7. CASE MountVolumes
    BY <2>7 DEF MountVolumes, Goto, ArriveInv
  <2>8. CASE StartMain
    BY <2>8 DEF StartMain, Goto, ArriveInv
  <2>9. CASE Notify
    BY <2>9 DEF Notify, Goto, ArriveInv
  <2>10. CASE WaitReturns \/ HandleSignal \/ GraceOver
    BY <1>1, <2>10 DEF WaitReturns, HandleSignal, GraceOver
  <2>11. QED
    BY <1>2, <2>1, <2>2, <2>3, <2>4, <2>5, <2>6, <2>7, <2>8, <2>9, <2>10 DEF InitStep
<1>3. CASE UNCHANGED initVars
  BY <1>1, <1>3 DEF initVars, booting, loading
<1>4. CASE MainEnds \/ Adopt \/ Terminate \/ OrphanDies
  BY <1>1, <1>4 DEF MainEnds, Adopt, Terminate, OrphanDies
<1>5. CASE JobEnds \/ PipeHolderDies
  BY <1>1, <1>5 DEF JobEnds, PipeHolderDies, OrphanDies
<1>6. CASE UNCHANGED vars
  BY <1>3, <1>6 DEF vars
<1>7. QED
  BY <1>2, <1>3, <1>4, <1>5, <1>6 DEF Next, PoweredOn

(* For any settings: the volumes of a container are mounted, all of them   *)
(* and nothing else, and its command is the one that is started, as long   *)
(* as targets and command are one word each (args.go:120,                  *)
(* poqman-init/main.go:242).                                               *)
THEOREM SettingsReachTheGuest == Spec => []SettingsArrive
<1>1. ArriveInv => SettingsArrive
  <2> SUFFICES ASSUME ArriveInv, at \in {"start", "notify", "wait"}
               PROVE  /\ (\A i \in DOMAIN settings.volumes : OneWord(settings.volumes[i].target))
                           => mounted = Wanted
                      /\ settings.cmd = <<>> => Command(cmdline).word = "/sbin/init"
                      /\ Len(settings.cmd) = 1 /\ OneWord(settings.cmd[1])
                           => Command(cmdline) = [word |-> settings.cmd[1][1], open |-> FALSE]
    BY DEF SettingsArrive
  <2>1. /\ settings \in Settings /\ cmdline = Line(settings)
        /\ mounted = {m \in Mounts(cmdline) : m.volume \in Attached(settings.volumes)}
    BY DEF ArriveInv
  <2>2. ASSUME \A i \in DOMAIN settings.volumes : OneWord(settings.volumes[i].target)
        PROVE  mounted = Wanted
    BY <2>1, <2>2, MountsWanted DEF Wanted
  <2>3. ASSUME settings.cmd = <<>>
        PROVE  Command(cmdline).word = "/sbin/init"
    <3>1. FirstArg(settings) = <<"/sbin/init">>
      BY <2>3 DEF FirstArg
    <3>2. FirstArg(settings) # <<>> /\ FirstArg(settings)[1] = "/sbin/init"
      BY <3>1
    <3>3. PICK o : o = (Len(FirstArg(settings)) > 1)
      OBVIOUS
    <3>4. Command(cmdline) = [word |-> "/sbin/init", open |-> o]
      BY <2>1, <3>2, <3>3, CommandArrives
    <3>5. QED
      BY <3>4
  <2>4. ASSUME Len(settings.cmd) = 1, OneWord(settings.cmd[1])
        PROVE  Command(cmdline) = [word |-> settings.cmd[1][1], open |-> FALSE]
    <3>1. settings.cmd \in Seq(Range(settings.cmd))
      BY <2>1, SettingsAssumption
    <3>2. settings.cmd # <<>> /\ 1 \in DOMAIN settings.cmd
      BY <2>4, <3>1, LenProperties
    <3>3. FirstArg(settings) = settings.cmd[1] /\ settings.cmd[1] \in Range(settings.cmd)
      BY <3>2 DEF FirstArg, Range
    <3>4. settings.cmd[1] # <<>>
      BY <2>4 DEF OneWord
    <3>5. settings.cmd[1][1] # ""
      BY <2>1, <3>3, <3>4, SettingsFacts
    <3>6. Command(cmdline) = [word |-> FirstArg(settings)[1], open |-> Len(FirstArg(settings)) > 1]
      BY <2>1, <3>3, <3>4, <3>5, CommandArrives
    <3>7. PICK n : n = Len(FirstArg(settings))
      OBVIOUS
    <3>8. n = 1
      BY <2>4, <3>3, <3>7 DEF OneWord
    <3>9. Command(cmdline) = [word |-> FirstArg(settings)[1], open |-> n > 1]
      BY <3>6, <3>7
    <3>10. (n > 1) = FALSE
      BY <3>8
    <3>11. QED
      BY <3>3, <3>9, <3>10
  <2>5. QED
    BY <2>2, <2>3, <2>4
<1>2. QED
  BY <1>1, ArriveInit, ArriveStep, PTL DEF Spec
=============================================================================
