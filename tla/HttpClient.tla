----------------------------- MODULE HttpClient -----------------------------
(***************************************************************************)
(* JobHttpClient (job_http_client.cpp): one request at a time over a       *)
(* TcpClient and its TcpSocket (tcp_client.cpp, tcp_socket.cpp), whose     *)
(* events a JobIoAsyncThread delivers, edge-triggered, as tasks in its     *)
(* queue: a task names the socket it is for, and is still there when that  *)
(* socket is gone.  The handlers run on the loop's thread; a handler is    *)
(* split at its system calls and at each turn of JobHttpParser::parse().   *)
(* The peer reads the request, replies in pieces, and may close or reset   *)
(* the connection at any point.                                            *)
(***************************************************************************)
EXTENDS HttpParser

CONSTANTS
    Replies,        \* what the peer may reply: [method, wire, good, code, body]
    RequestSize,    \* m_requestData.size()
    SendBuffer,     \* what the kernel takes before send() would block
    BufferSize,     \* of the TcpClient
    EarlyReply,     \* may the peer reply before it has the whole request?
    MaxRequests,    \* bound: send() calls
    MaxTasks        \* bound: events of sockets waiting in the loop's queue

ASSUME ClientAssumption ==
    /\ {RequestSize, SendBuffer, BufferSize} \subseteq Nat \ {0} /\ {MaxRequests, MaxTasks} \subseteq Nat
    /\ EarlyReply \in BOOLEAN

(* What a reply says of itself is what its wire means: it is good when the   *)
(* wire is one whole response, which ends where the wire does or runs to the *)
(* close, and has that code and so many bytes of body.                       *)
Described(r) ==
    LET f == Prefixes(r.method, r.wire)
        end == f[Len(r.wire)]
    IN  /\ r.wire \in Seq(STRING \X Nat)
        /\ \A i \in 0..(Len(r.wire) - 1) : f[i].state # "Complete"
        /\ r.good <=> end.state = "Complete" \/ (end.state = "Body" /\ end.framing = "CloseDelimited")
        /\ r.good => r.code = end.code /\ r.body = end.body

ASSUME ReplyAssumption == Replies # {} /\ \A r \in Replies : Described(r)

VARIABLES
    m_state, m_parser, m_requestBytesSent,
    sock, writeInterest, armed, \* TcpSocket: its state, does m_events have Write?  is it on epoll's ready list?
    tasks, resolving,           \* the loop's queue: [to, events]; the sockets the resolver owes an answer
    hpc, input, thenRead,       \* the loop's thread: the piece being parsed; onRead() to come
    est, rx, tx, peer, soError, \* the connection: accepted; bytes each way; "open", "eof", "rst"
    reply, out,                 \* the reply chosen for this request, what of it is not sent
    requests,                   \* send() calls so far; the last one's number is its socket's
    accepted, outcome,          \* what the last send() returned; what was reported of its request
    thrown, bodyCancelled       \* by its body callback

clientVars == <<m_state, m_parser, m_requestBytesSent>>
sockVars == <<sock, writeInterest, armed>>
taskVars == <<tasks, resolving>>
handlerVars == <<hpc, input, thenRead>>
netVars == <<est, rx, tx, peer, soError, out>>
ghosts == <<requests, accepted, outcome, thrown, bodyCancelled>>
httpVars == <<clientVars, sockVars, taskVars, handlerVars, netVars, reply, ghosts>>

HttpInit ==
    /\ m_state = "Idle" /\ m_parser = NewParser /\ m_requestBytesSent = 0
    /\ sock = "none" /\ writeInterest = FALSE /\ armed = FALSE /\ tasks = <<>> /\ resolving = {}
    /\ hpc = "idle" /\ input = <<>> /\ thenRead = FALSE
    /\ est = FALSE /\ rx = <<>> /\ tx = 0 /\ peer = "open" /\ soError = FALSE
    /\ reply = (CHOOSE r \in Replies : TRUE) /\ out = <<>>
    /\ requests = 0 /\ accepted = FALSE /\ outcome = "over" /\ thrown = FALSE /\ bodyCancelled = FALSE

-----------------------------------------------------------------------------
IsBusy == m_state \in {"Connecting", "Sending", "Receiving"}
Report(o) == outcome' = IF outcome = "none" THEN o ELSE "twice"
Go(next) == hpc' = next /\ input' = <<>> /\ thenRead' = FALSE

(* detachTransportCallbacks() and closeTransport(): the socket is destroyed, *)
(* what the loop has queued for it stays.                                    *)
CloseTransport ==
    /\ sock' = "none" /\ writeInterest' = FALSE /\ armed' = FALSE
    /\ m_requestBytesSent' = 0

(* fail(): nothing when it has failed already *)
Fail ==
    /\ m_state' = "Error" /\ CloseTransport /\ Go("idle")
    /\ IF m_state = "Error" THEN UNCHANGED outcome ELSE Report("error")
    /\ UNCHANGED <<m_parser, requests, accepted, thrown, bodyCancelled>>

CompleteResponse ==
    /\ m_state' = "Complete" /\ CloseTransport /\ Go("idle")
    /\ IF m_state = "Complete" THEN UNCHANGED outcome ELSE Report("response")
    /\ UNCHANGED <<requests, accepted, thrown, bodyCancelled>>

(* send(), beginRequest(): refused while busy.  A request that cannot be     *)
(* built fails in the state the last one left: silently when that was Error. *)
(* One that cannot be connected fails as Connecting.  Otherwise the name is  *)
(* resolved on the pool.                                                     *)
Send ==
    /\ hpc = "idle" /\ ~IsBusy /\ requests < MaxRequests /\ requests' = requests + 1
    /\ m_parser' = NewParser /\ m_requestBytesSent' = 0 /\ writeInterest' = FALSE /\ armed' = FALSE
    /\ \/ /\ m_state' = "Connecting" /\ sock' = "resolving" /\ resolving' = resolving \cup {requests'}
          /\ accepted' = TRUE /\ outcome' = "none"
       \/ /\ m_state' = "Error" /\ sock' = "none" /\ UNCHANGED resolving
          /\ accepted' = FALSE /\ outcome' \in {"error"} \cup (IF m_state = "Error" THEN {"none"} ELSE {})
    /\ reply' \in Replies /\ out' = reply'.wire
    /\ est' = FALSE /\ rx' = <<>> /\ tx' = 0 /\ peer' = "open" /\ soError' = FALSE
    /\ thrown' = FALSE /\ bodyCancelled' = FALSE
    /\ UNCHANGED <<handlerVars, tasks>>

(* What cancel() and reset() have in common: no report, now or later *)
Withdraw ==
    /\ m_state' = "Idle" /\ CloseTransport /\ m_parser' = NewParser /\ outcome' = "over"
    /\ UNCHANGED <<taskVars, handlerVars, netVars, reply, requests, accepted, thrown, bodyCancelled>>

(* Mutant: the transport is closed before its callbacks are detached *)
Cancel_StillAttached ==
    /\ hpc = "idle" /\ IsBusy
    /\ m_state' = "Idle" /\ CloseTransport /\ m_parser' = NewParser
    /\ outcome' = IF sock = "Connected" THEN "error" ELSE "over"
    /\ UNCHANGED <<taskVars, handlerVars, netVars, reply, requests, accepted, thrown, bodyCancelled>>

(* cancel() and reset(), between two handlers *)
Cancel == hpc = "idle" /\ IsBusy /\ Withdraw
Reset == hpc = "idle" /\ m_state # "Idle" /\ Withdraw

-----------------------------------------------------------------------------
(* The resolver's callback, which holds a weak pointer to the socket: no     *)
(* address, or connect(): refused at once for every address, in progress, or *)
(* established, with onConnect() called.                                     *)
Resolved(n) ==
    /\ hpc = "idle" /\ resolving' = resolving \ {n}
    /\ \/ /\ n # requests \/ sock = "none"
          /\ UNCHANGED <<clientVars, sockVars, handlerVars, ghosts, est>>
       \/ n = requests /\ sock = "resolving" /\ Fail /\ UNCHANGED est
       \/ /\ n = requests /\ sock = "resolving"
          /\ sock' = "Connecting" /\ writeInterest' = TRUE /\ armed' = TRUE
          /\ UNCHANGED <<clientVars, handlerVars, ghosts, est>>
       \/ /\ n = requests /\ sock = "resolving"
          /\ sock' = "Connected" /\ armed' = TRUE /\ est' = TRUE /\ m_state' = "Sending" /\ Go("send")
          /\ UNCHANGED <<m_parser, m_requestBytesSent, writeInterest, ghosts>>
    /\ UNCHANGED <<rx, tx, peer, soError, out, reply, tasks>>

(* epoll: what the socket is ready for, reported once per edge or change of  *)
(* interest.  Error and HangUp are always of interest.                       *)
Ready ==
    (IF peer = "rst" THEN {"hup"} ELSE {})
    \cup (IF est /\ (rx # <<>> \/ peer # "open") THEN {"read"} ELSE {})
    \cup (IF est /\ writeInterest /\ tx < SendBuffer THEN {"write"} ELSE {})

Open == sock \in {"Connecting", "Connected"}

Epoll ==
    /\ hpc = "idle" /\ armed /\ armed' = FALSE /\ Open /\ Len(tasks) < MaxTasks
    /\ tasks' = IF Ready = {} THEN tasks ELSE Append(tasks, [to |-> requests, events |-> Ready])
    /\ UNCHANGED <<clientVars, sock, writeInterest, resolving, handlerVars, netVars, reply, ghosts>>

SetWriteInterest(on) == writeInterest' = on /\ armed' = (armed \/ writeInterest # on)

(* handleDisconnected(), from disconnect() of a connected socket *)
HandleDisconnected ==
    LET p == NotifyEof(m_parser) IN
    IF m_state = "Receiving" /\ p.state = "Complete"
    THEN m_parser' = p /\ CompleteResponse
    ELSE Fail

(* disconnect(): only a connected socket says so *)
Disconnect ==
    IF sock = "Connected" THEN HandleDisconnected
    ELSE /\ sock' = IF Open THEN "closed" ELSE sock
         /\ writeInterest' = FALSE /\ armed' = FALSE
         /\ UNCHANGED <<clientVars, handlerVars, ghosts>>

(* Mutant: a queued event goes to whichever socket has the descriptor now *)
WeakSelf_ByDescriptor(task) == sock # "none"

(* registerEvents(): the callback's weak pointer to its socket *)
WeakSelf(task) == task.to = requests /\ sock # "none"

(* The next task of the loop's queue: onEvents() of its socket, if any *)
OnEvents ==
    LET events == Head(tasks).events IN
    /\ hpc = "idle" /\ tasks # <<>> /\ tasks' = Tail(tasks)
    /\ \/ /\ ~WeakSelf(Head(tasks)) /\ UNCHANGED <<clientVars, sockVars, handlerVars, ghosts, soError>>
       \/ /\ WeakSelf(Head(tasks)) /\ "hup" \in events /\ soError /\ Fail
          /\ soError' = FALSE
       \/ /\ WeakSelf(Head(tasks)) /\ "hup" \in events /\ ~soError /\ Disconnect
          /\ UNCHANGED soError
       \/ /\ WeakSelf(Head(tasks)) /\ "hup" \notin events /\ sock # "Connected"
          /\ \/ /\ sock = "Connecting" /\ "write" \in events /\ ~soError
                /\ sock' = "Connected" /\ SetWriteInterest(FALSE) /\ m_state' = "Sending" /\ Go("send")
                /\ UNCHANGED <<m_parser, m_requestBytesSent, ghosts, soError>>
             \/ sock = "Connecting" /\ "write" \in events /\ soError /\ Fail /\ soError' = FALSE
             \/ /\ sock # "Connecting" \/ "write" \notin events
                /\ UNCHANGED <<clientVars, sockVars, handlerVars, ghosts, soError>>
       \/ /\ WeakSelf(Head(tasks)) /\ "hup" \notin events /\ sock = "Connected"
          /\ IF "write" \in events /\ m_state = "Sending"
             THEN /\ SetWriteInterest(FALSE)
                  /\ hpc' = "send" /\ thenRead' = ("read" \in events)
             ELSE /\ hpc' = IF "read" \in events THEN "read" ELSE "idle"
                  /\ UNCHANGED <<writeInterest, armed, thenRead>>
          /\ UNCHANGED <<clientVars, sock, input, ghosts, soError>>
    /\ UNCHANGED <<est, rx, tx, peer, out, reply, resolving>>

-----------------------------------------------------------------------------
(* sendPendingData(): send() takes some, or would block (or is interrupted), *)
(* or fails.                                                                 *)
AfterSend == Go(IF thenRead THEN "read" ELSE "idle")

SendSome ==
    /\ hpc = "send" /\ m_requestBytesSent < RequestSize /\ peer # "rst"
    /\ \E n \in 1..(RequestSize - m_requestBytesSent) :
          /\ tx + n <= SendBuffer /\ tx' = tx + n
          /\ m_requestBytesSent' = m_requestBytesSent + n
    /\ UNCHANGED <<m_state, m_parser, sockVars, handlerVars, ghosts, est, rx, peer, soError, out, reply, taskVars>>

(* Mutant: nobody asks to be told when the socket is writable again *)
WouldBlock_Silent ==
    /\ hpc = "send" /\ m_requestBytesSent < RequestSize /\ peer # "rst" /\ AfterSend
    /\ UNCHANGED <<clientVars, sockVars, ghosts, netVars, reply, taskVars>>

WouldBlock ==
    /\ hpc = "send" /\ m_requestBytesSent < RequestSize /\ peer # "rst"
    /\ SetWriteInterest(TRUE) /\ AfterSend
    /\ UNCHANGED <<clientVars, sock, ghosts, netVars, reply, taskVars>>

SendEnds ==
    /\ hpc = "send"
    /\ \/ /\ m_requestBytesSent = RequestSize
          /\ m_state' = "Receiving" /\ SetWriteInterest(FALSE) /\ AfterSend
          /\ UNCHANGED <<m_parser, m_requestBytesSent, sock, ghosts, soError>>
       \/ m_requestBytesSent < RequestSize /\ peer = "rst" /\ Fail /\ soError' = FALSE
    /\ UNCHANGED <<est, rx, tx, peer, out, reply, taskVars>>

SendPendingData == SendSome \/ WouldBlock \/ SendEnds

(* TcpClient's onRead: read until nothing is left.  A message is looked at   *)
(* only when the client is receiving.                                        *)
Read ==
    LET n == IF Len(rx) < BufferSize THEN Len(rx) ELSE BufferSize IN
    /\ hpc = "read"
    /\ \/ /\ sock = "none" /\ Go("idle") /\ UNCHANGED <<clientVars, sockVars, rx, soError, ghosts>>
       \/ /\ sock # "none" /\ n > 0 /\ rx' = SubSeq(rx, n + 1, Len(rx))
          /\ IF m_state = "Receiving" THEN hpc' = "parse" /\ input' = SubSeq(rx, 1, n) ELSE UNCHANGED <<hpc, input>>
          /\ UNCHANGED <<thenRead, clientVars, sockVars, soError, ghosts>>
       \/ /\ sock # "none" /\ n = 0 /\ peer = "open" /\ Go("idle")
          /\ UNCHANGED <<clientVars, sockVars, rx, soError, ghosts>>
       \/ /\ sock # "none" /\ n = 0 /\ (peer = "eof" \/ (peer = "rst" /\ ~soError))
          /\ HandleDisconnected /\ UNCHANGED <<rx, soError>>
       \/ /\ sock # "none" /\ n = 0 /\ soError
          /\ soError' = FALSE /\ Go("idle")
          /\ UNCHANGED <<clientVars, sockVars, rx, ghosts>>
    /\ UNCHANGED <<est, tx, peer, out, reply, taskVars>>

(* parse(): one turn of its loop *)
ParseEnds ==
    /\ \/ m_parser.state = "Error" /\ Fail
       \/ m_parser.state = "Complete" /\ UNCHANGED m_parser /\ CompleteResponse
    /\ UNCHANGED <<netVars, reply, taskVars>>

NeedMoreData == Go("read")

ParseLine ==
    LET r == ConsumeLine(m_parser, input) IN
    /\ m_parser.state \in LineStates
    /\ IF r.got THEN m_parser' = ByLine(r.p, reply.method, r.line) /\ input' = r.rest /\ UNCHANGED <<hpc, thenRead>>
       ELSE /\ m_parser' = r.p
            /\ IF r.p.state = "Error" THEN UNCHANGED handlerVars ELSE NeedMoreData
    /\ UNCHANGED <<m_state, m_requestBytesSent, sockVars, netVars, reply, ghosts, taskVars>>

(* consumeBody(): the body callback may throw, or cancel the request *)
ParseBody ==
    LET n == BodyTake(m_parser, input)
        Consumed(p) == /\ m_parser' = AfterBody(ConsumeBody(p, n), m_parser.state, n)
                       /\ input' = SubSeq(input, n + 1, Len(input))
                       /\ UNCHANGED <<hpc, thenRead>>
    IN
    /\ m_parser.state \in {"Body", "ChunkData"}
    /\ \/ input = <<>> /\ NeedMoreData /\ UNCHANGED <<clientVars, sockVars, ghosts>>
       \/ input # <<>> /\ Consumed(m_parser) /\ UNCHANGED <<m_state, m_requestBytesSent, sockVars, ghosts>>
       \/ /\ input # <<>> /\ m_parser' = SetError(m_parser) /\ thrown' = TRUE
          /\ UNCHANGED <<m_state, m_requestBytesSent, sockVars, handlerVars, requests, accepted, outcome, bodyCancelled>>
       \/ /\ input # <<>> /\ IsBusy /\ bodyCancelled' = TRUE
          /\ m_state' = "Idle" /\ CloseTransport /\ Consumed(NewParser)
          /\ UNCHANGED <<requests, accepted, outcome, thrown>>
    /\ UNCHANGED <<netVars, reply, taskVars>>

Parse == hpc = "parse" /\ (ParseEnds \/ ParseLine \/ ParseBody)

-----------------------------------------------------------------------------
(* The peer *)
PeerAccept ==
    /\ sock = "Connecting" /\ peer = "open" /\ ~est /\ est' = TRUE /\ armed' = TRUE
    /\ UNCHANGED <<clientVars, sock, writeInterest, taskVars, handlerVars, rx, tx, peer, soError, out, reply, ghosts>>
PeerRead ==
    /\ tx > 0 /\ peer = "open" /\ tx' = 0 /\ armed' = Open
    /\ UNCHANGED <<clientVars, sock, writeInterest, taskVars, handlerVars, est, rx, peer, soError, out, reply, ghosts>>
PeerReply ==
    /\ est /\ peer = "open" /\ Open /\ (EarlyReply \/ (m_requestBytesSent = RequestSize /\ tx = 0))
    /\ \E n \in 1..Len(out) : rx' = rx \o SubSeq(out, 1, n) /\ out' = SubSeq(out, n + 1, Len(out))
    /\ armed' = TRUE
    /\ UNCHANGED <<clientVars, sock, writeInterest, taskVars, handlerVars, est, tx, peer, soError, reply, ghosts>>
PeerEnds ==
    /\ Open /\ peer = "open"
    /\ \/ est /\ peer' = "eof" /\ UNCHANGED soError
       \/ peer' = "rst" /\ soError' = TRUE
    /\ armed' = TRUE
    /\ UNCHANGED <<clientVars, sock, writeInterest, taskVars, handlerVars, est, rx, tx, out, reply, ghosts>>

Loop == (\E n \in resolving : Resolved(n)) \/ Epoll \/ OnEvents \/ SendPendingData \/ Read \/ Parse
Peer == PeerAccept \/ PeerRead \/ PeerReply \/ PeerEnds
HttpNext == Send \/ Cancel \/ Reset \/ Loop \/ Peer

(* The loop's thread runs, and send() is not interrupted for ever.  The peer *)
(* accepts and reads, until it ends the connection; it may not do that, and  *)
(* it need not reply.                                                        *)
HttpSpec ==
    /\ HttpInit /\ [][HttpNext]_httpVars
    /\ WF_httpVars(Loop) /\ SF_httpVars(SendSome) /\ WF_httpVars(PeerAccept) /\ WF_httpVars(PeerRead)

-----------------------------------------------------------------------------
(* A request that send() accepted is reported once it has ended, once and    *)
(* as what its state says, and not before; one that was cancelled or reset   *)
(* between two handlers is not reported any more.  A request that send()     *)
(* refused is reported as an error, or not at all after one that failed.     *)
OneOutcome ==
    /\ IsBusy => outcome = "none"
    /\ m_state = "Complete" => outcome = "response"
    /\ m_state = "Error" => outcome = "error" \/ (outcome = "none" /\ ~accepted)
    /\ m_state = "Idle" => outcome = "over" \/ (outcome = "none" /\ bodyCancelled)

(* A response that is reported is the one that was sent, however it was cut  *)
(* into pieces, and whole; one that runs to the close has all bytes sent.    *)
(* (Unless the body callback cancelled the request it belongs to.)           *)
ResponseWhole ==
    m_state = "Complete" /\ ~bodyCancelled =>
        /\ reply.good /\ m_parser.code = reply.code
        /\ m_parser.body = reply.body - Len(out)
        /\ m_parser.framing # "CloseDelimited" => out = <<>>

(* A well-formed reply that arrived whole, before an orderly close if any,   *)
(* is never an error, whatever an earlier connection left in the queue.      *)
GoodReplySucceeds ==
    m_state = "Error" =>
        sock = "none" /\ (~reply.good \/ out # <<>> \/ peer = "rst" \/ thrown \/ bodyCancelled)

(* The reply says by itself where it ends, and all of it was sent. *)
Answered ==
    out = <<>> /\ Prefixes(reply.method, reply.wire)[Len(reply.wire)].state \in {"Complete", "Error"}

(* Every request goes out, to a peer that accepts and reads, and every       *)
(* request ends that the peer has answered in full or whose connection it    *)
(* has ended: no edge of writability or readability is lost.                 *)
RequestEnds ==
    /\ (m_state \in {"Connecting", "Sending"}) ~> (m_state \notin {"Connecting", "Sending"})
    /\ (IsBusy /\ (Answered \/ peer # "open")) ~> ~IsBusy

(* Between two handlers an idle client is idle for good: until the next      *)
(* send() it reports nothing, whatever events and answers of the resolver    *)
(* come late.                                                                *)
IdleUntilSend ==
    [][m_state = "Idle" /\ hpc # "parse" => requests' > requests \/ UNCHANGED <<m_state, outcome>>]_httpVars

(* "JobHttpClient cancel during streamed response stops further delivery":   *)
(* a cancelled request reports nothing.                                      *)
CancelIsFinal == [][m_state = "Idle" /\ m_state' # "Idle" => requests' > requests]_httpVars

(* "HangUp with no real SO_ERROR just means the peer closed normally": a     *)
(* body that runs to the close is not complete when the connection was reset.*)
HangUpIsClose == m_state = "Complete" /\ m_parser.framing = "CloseDelimited" => peer = "eof"
=============================================================================
