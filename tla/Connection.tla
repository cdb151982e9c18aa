----------------------------- MODULE Connection -----------------------------
(***************************************************************************)
(* One connection of a server: the goroutines that read from it and write  *)
(* to it, the handler that registers its user and executes its commands,   *)
(* the monitors that forward what the user receives, and the contexts and  *)
(* channels by which they wait for each other.                             *)
(*                                                                         *)
(* A message is only counted; the handler chooses what it turns out to be. *)
(***************************************************************************)
EXTENDS Naturals, FiniteSets

CONSTANTS
    RchCap,       \* capacity of rch: 1024 in the code
    MaxInput,     \* bound: messages from the peer
    MaxEvents,    \* bound: messages for the monitors to forward
    MaxReplies    \* bound: messages that a command answers with

ASSUME ConnectionBounds ==
    RchCap \in Nat \ {0} /\ MaxInput \in Nat /\ MaxEvents \in Nat /\ MaxReplies \in Nat

VARIABLES
    peer,      \* does the other end read, stall, or is it gone?
    input,     \* messages decoded so far
    rch,       \* messages in the channel to the handler
    errc,      \* errors in the channel to the handler
    reader,    \* the goroutine read
    writer,    \* the goroutine write
    wmu,       \* who holds the lock on the encoder
    at, left,  \* where the handler is, and how many messages it has to go
    srv, ctx,  \* are the contexts of the server, of the client cancelled?
    key,       \* the user's message key
    monitor,   \* the goroutines that watch keys
    events,    \* messages forwarded so far
    told       \* was the client sent ERROR?

ioVars   == <<reader, writer, wmu, errc>>
cliVars  == <<srv, ctx, key>>
monVars  == <<monitor, events, told>>
vars     == <<peer, input, rch, at, left, ioVars, cliVars, monVars>>

Monitor == {"user", "chan"}

(* An error is sent at most once by each of read and write.                *)
ErrCap == 2

(* Contexts: the client's derives from the server's.                       *)
CtxDone == ctx \/ srv

(* The connection is closed when the handler returns.                      *)
Closed == at = "returned"

Init ==
    /\ peer = "reads" /\ input = 0 /\ rch = 0 /\ errc = 0
    /\ reader = "decode" /\ writer = "wait" /\ wmu = "free"
    /\ at = "request" /\ left = 2
    /\ srv = FALSE /\ ctx = FALSE /\ key = "none"
    /\ monitor = [m \in Monitor |-> "none"] /\ events = 0 /\ told = FALSE

-----------------------------------------------------------------------------
(***************************************************************************)
(* The environment.                                                        *)
(***************************************************************************)
PeerStalls == peer = "reads" /\ peer' = "stalls" /\ UNCHANGED <<input, rch, at, left, ioVars, cliVars, monVars>>
PeerReads  == peer = "stalls" /\ peer' = "reads" /\ UNCHANGED <<input, rch, at, left, ioVars, cliVars, monVars>>
PeerGoes   == peer # "gone" /\ peer' = "gone" /\ UNCHANGED <<input, rch, at, left, ioVars, cliVars, monVars>>

(* etcd's client is closed.                                                *)
Shutdown ==
    /\ ~srv
    /\ srv' = TRUE
    /\ UNCHANGED <<peer, input, rch, at, left, ioVars, ctx, key, monVars>>

(* The lease is lost, or the user quit.                                    *)
KeyGoes ==
    /\ key = "there"
    /\ key' = "deleted"
    /\ UNCHANGED <<peer, input, rch, at, left, ioVars, srv, ctx, monVars>>

-----------------------------------------------------------------------------
(***************************************************************************)
(* read and write.  Nobody closes stopc: the handler does not call         *)
(* Conn.Close.                                                             *)
(***************************************************************************)

(* What was sent before the peer went may still arrive.                    *)
Decode ==
    /\ reader = "decode" /\ ~Closed
    /\ input < MaxInput
    /\ input' = input + 1
    /\ reader' = "put"
    /\ UNCHANGED <<peer, rch, errc, writer, wmu, at, left, cliVars, monVars>>

DecodeFails ==
    /\ reader = "decode"
    /\ peer = "gone" \/ Closed
    /\ reader' = "report"
    /\ UNCHANGED <<peer, input, rch, errc, writer, wmu, at, left, cliVars, monVars>>

(* A slip: the channel has no limit.                                       *)
PutPastCap ==
    /\ reader = "put"
    /\ rch' = rch + 1
    /\ reader' = "decode"
    /\ UNCHANGED <<peer, input, errc, writer, wmu, at, left, cliVars, monVars>>

PutMessage ==
    /\ reader = "put"
    /\ rch < RchCap
    /\ rch' = rch + 1
    /\ reader' = "decode"
    /\ UNCHANGED <<peer, input, errc, writer, wmu, at, left, cliVars, monVars>>

(* Slips in the two that follow: the error of the reader is dropped, the   *)
(* writer goes on after an error.                                          *)
DropError ==
    /\ reader = "report"
    /\ reader' = "ended"
    /\ UNCHANGED <<peer, input, rch, errc, writer, wmu, at, left, cliVars, monVars>>

WriterGoesOn ==
    /\ writer = "report"
    /\ errc < ErrCap
    /\ errc' = errc + 1
    /\ writer' = "wait"
    /\ UNCHANGED <<peer, input, rch, reader, wmu, at, left, cliVars, monVars>>

ReaderReports ==
    /\ reader = "report"
    /\ errc < ErrCap
    /\ errc' = errc + 1
    /\ reader' = "ended"
    /\ UNCHANGED <<peer, input, rch, writer, wmu, at, left, cliVars, monVars>>

WriterReports ==
    /\ writer = "report"
    /\ errc < ErrCap
    /\ errc' = errc + 1
    /\ writer' = "ended"
    /\ UNCHANGED <<peer, input, rch, reader, wmu, at, left, cliVars, monVars>>

WriterLocks ==
    /\ writer = "lock"
    /\ wmu = "free"
    /\ wmu' = "writer"
    /\ writer' = "encode"
    /\ UNCHANGED <<peer, input, rch, errc, reader, at, left, cliVars, monVars>>

(* Encoding waits for a peer that stalls.  It may succeed after the peer   *)
(* went, as long as its bytes fit into a buffer.                           *)
Encodes(ok) == IF ok THEN peer # "stalls" /\ ~Closed ELSE peer = "gone" \/ Closed

WriterEncodes(ok) ==
    /\ writer = "encode"
    /\ Encodes(ok)
    /\ wmu' = "free"
    /\ writer' = IF ok THEN "wait" ELSE "report"
    /\ UNCHANGED <<peer, input, rch, errc, reader, at, left, cliVars, monVars>>

(* wch has no buffer: a sender hands its message to a writer that waits.   *)
HandOver == writer = "wait" /\ writer' = "lock" /\ UNCHANGED <<reader, wmu, errc>>

(* A slip: no context is looked at.                                        *)
SendAlways(done) == HandOver

(* SendMsg, under a context that is cancelled or not.                      *)
SendMsg(done) == HandOver \/ (done /\ UNCHANGED ioVars)

-----------------------------------------------------------------------------
(***************************************************************************)
(* The handler.                                                            *)
(***************************************************************************)
TakeMessage == rch > 0 /\ rch' = rch - 1

(* readConnRequest waits for NICK and USER, and only for messages.         *)
ReadRequest ==
    /\ at = "request"
    /\ TakeMessage
    /\ \/ UNCHANGED <<at, left>>                             \* CAP, or any other
       \/ left = 2 /\ left' = 1 /\ UNCHANGED at
       \/ left = 1 /\ left' = 0 /\ at' \in {"cap", "register"}
    /\ UNCHANGED <<peer, input, ioVars, cliVars, monVars>>

(* The answer to CAP is sent without a context.                            *)
SendCap ==
    /\ at = "cap"
    /\ SendMsg(FALSE)
    /\ at' = "register"
    /\ UNCHANGED <<peer, input, rch, left, cliVars, monVars>>

(* newEtcdClient and what the handshake makes of it: the user has its keys *)
(* and a monitor, or the nick is in use, or etcd failed.                   *)
Register ==
    /\ at = "register"
    /\ \/ /\ ~srv
          /\ key' = "there"
          /\ monitor' = [monitor EXCEPT !["user"] = "watch"]
          /\ at' = "welcome" /\ left' = MaxReplies
       \/ /\ ~srv
          /\ at' = "inuse"
          /\ UNCHANGED <<key, monitor, left>>
       \/ /\ at' = "returned"
          /\ UNCHANGED <<key, monitor, left>>
    /\ UNCHANGED <<peer, input, rch, ioVars, srv, ctx, events, told>>

SendInUse ==
    /\ at = "inuse"
    /\ SendMsg(srv)
    /\ at' = "retry"
    /\ UNCHANGED <<peer, input, rch, left, cliVars, monVars>>

(* Another NICK, or CAP, is a new attempt; any other message is not. The   *)
(* handshake does not look at errc.                                        *)
Retry ==
    /\ at = "retry"
    /\ \/ TakeMessage /\ at' \in {"register", "returned"}
       \/ srv /\ at' = "returned" /\ UNCHANGED rch
    /\ UNCHANGED <<peer, input, left, ioVars, cliVars, monVars>>

(* The welcome and MOTD are sent under the server's context.  After the    *)
(* welcome a cancelled context makes the handler return at once.           *)
SendWelcome ==
    /\ at \in {"welcome", "motd"}
    /\ left > 0
    /\ SendMsg(srv)
    /\ left' = left - 1
    /\ UNCHANGED <<peer, input, rch, at, cliVars, monVars>>

Welcomed ==
    /\ at = "welcome" /\ left = 0
    /\ at' = IF srv THEN "returned" ELSE "loop"
    /\ UNCHANGED <<peer, input, rch, left, ioVars, cliVars, monVars>>

Fetch ==
    /\ at = "loop"
    /\ TakeMessage
    /\ at' \in {"command", "motd"}
    /\ left' \in 0..MaxReplies
    /\ UNCHANGED <<peer, input, ioVars, cliVars, monVars>>

(* The loop ends on an error or with the server.                           *)
LeaveLoop ==
    /\ at = "loop"
    /\ \/ errc > 0 /\ errc' = errc - 1
       \/ srv /\ UNCHANGED errc
    /\ at' = "close"
    /\ UNCHANGED <<peer, input, rch, left, reader, writer, wmu, cliVars, monVars>>

(* Replies of a command are sent under the client's context.               *)
SendReply ==
    /\ at = "command"
    /\ left > 0
    /\ SendMsg(CtxDone)
    /\ left' = left - 1
    /\ UNCHANGED <<peer, input, rch, at, cliVars, monVars>>

(* A command that joined has started the monitors of the channel.  A       *)
(* command may fail.                                                       *)
CommandEnds ==
    /\ at \in {"command", "motd"} /\ left = 0
    /\ at' \in {"loop", "close"}
    /\ \/ UNCHANGED monitor
       \/ /\ at = "command" /\ monitor["chan"] \in {"none", "ended"}
          /\ monitor' = [monitor EXCEPT !["chan"] = "watch"]
    /\ UNCHANGED <<peer, input, rch, left, ioVars, cliVars, events, told>>

(* Close cancels, waits for the monitors, and handleConn returns.          *)
Cancel ==
    /\ at = "close"
    /\ at' = "wait"
    /\ ctx' = TRUE
    /\ UNCHANGED <<peer, input, rch, left, ioVars, srv, key, monVars>>

(* A slip: Close does not wait.                                            *)
ReturnAtOnce ==
    /\ at = "wait"
    /\ at' = "returned"
    /\ UNCHANGED <<peer, input, rch, left, ioVars, cliVars, monVars>>

Return ==
    /\ at = "wait"
    /\ \A m \in Monitor : monitor[m] \in {"none", "ended"}
    /\ at' = "returned"
    /\ UNCHANGED <<peer, input, rch, left, ioVars, cliVars, monVars>>

-----------------------------------------------------------------------------
(***************************************************************************)
(* The monitors.                                                           *)
(***************************************************************************)
Moves(m, from, to) == monitor[m] = from /\ monitor' = [monitor EXCEPT ![m] = to]

ForwardNext(m) ==
    /\ Moves(m, "watch", "send")
    /\ events < MaxEvents
    /\ events' = events + 1
    /\ UNCHANGED <<peer, input, rch, at, left, ioVars, cliVars, told>>

(* A monitor that stops drains its watch; the user's cancels the client.   *)
Stops(m, from) ==
    /\ Moves(m, from, "drain")
    /\ ctx' = (ctx \/ m = "user")

(* The monitor of a channel stops when it forwarded the user's own PART.   *)
Forward(m) ==
    /\ \/ HandOver /\ Moves(m, "send", "watch") /\ UNCHANGED ctx
       \/ m = "chan" /\ HandOver /\ Moves(m, "send", "ended") /\ UNCHANGED ctx
       \/ CtxDone /\ Stops(m, "send") /\ UNCHANGED ioVars
    /\ UNCHANGED <<peer, input, rch, at, left, srv, key, events, told>>

(* The watch closes.                                                       *)
WatchEnds(m) ==
    /\ CtxDone
    /\ Stops(m, "watch")
    /\ UNCHANGED <<peer, input, rch, at, left, ioVars, srv, key, events, told>>

Drained(m) ==
    /\ CtxDone
    /\ Moves(m, "drain", "ended")
    /\ UNCHANGED <<peer, input, rch, at, left, ioVars, cliVars, events, told>>

(* A slip: deletions are skipped like events that do not decode.           *)
SkipsDeletion ==
    /\ key = "deleted"
    /\ Moves("user", "watch", "watch")
    /\ UNCHANGED <<peer, input, rch, at, left, ioVars, cliVars, events, told>>

(* The key is gone: SendMsgSync writes ERROR past the writer.              *)
SeesDeletion ==
    /\ key = "deleted"
    /\ Moves("user", "watch", "sync")
    /\ UNCHANGED <<peer, input, rch, at, left, ioVars, cliVars, events, told>>

(* A slip: SendMsgSync does not take the lock.                             *)
SyncUnlocked ==
    /\ Moves("user", "sync", "encode")
    /\ UNCHANGED <<peer, input, rch, at, left, ioVars, cliVars, events, told>>

SyncLocks ==
    /\ wmu = "free"
    /\ wmu' = "monitor"
    /\ Moves("user", "sync", "encode")
    /\ UNCHANGED <<peer, input, rch, at, left, reader, writer, errc, cliVars, events, told>>

SyncEncodes(ok) ==
    /\ Encodes(ok)
    /\ Stops("user", "encode")
    /\ wmu' = IF wmu = "monitor" THEN "free" ELSE wmu
    /\ told' = (told \/ ok)
    /\ UNCHANGED <<peer, input, rch, at, left, reader, writer, errc, srv, key, events>>

-----------------------------------------------------------------------------
Reader  == DecodeFails \/ PutMessage \/ ReaderReports
Writer  == WriterLocks \/ WriterReports \/ \E ok \in BOOLEAN : WriterEncodes(ok)
Handler == \/ ReadRequest \/ SendCap \/ Register \/ SendInUse \/ Retry
           \/ SendWelcome \/ Welcomed \/ Fetch \/ LeaveLoop \/ SendReply
           \/ CommandEnds \/ Cancel \/ Return
Deletion == SeesDeletion \/ SyncLocks \/ \E ok \in BOOLEAN : SyncEncodes(ok)
Watching(m) == Forward(m) \/ WatchEnds(m) \/ Drained(m)

Next ==
    \/ PeerStalls \/ PeerReads \/ PeerGoes \/ Shutdown \/ KeyGoes
    \/ Decode \/ Reader \/ Writer \/ Handler \/ Deletion
    \/ \E m \in Monitor : ForwardNext(m) \/ Watching(m)

Spec == Init /\ [][Next]_vars

(* Goroutines that can go on do, a lock is handed on, etcd answers, and a  *)
(* peer that stalls reads again or goes.  Encoding gets on whenever the    *)
(* peer reads.                                                             *)
Fairness ==
    /\ WF_vars(Reader) /\ WF_vars(Writer) /\ WF_vars(Handler) /\ WF_vars(SeesDeletion)
    /\ SF_vars(\E ok \in BOOLEAN : WriterEncodes(ok))
    /\ SF_vars(SyncLocks)
    /\ SF_vars(\E ok \in BOOLEAN : SyncEncodes(ok))
    /\ \A m \in Monitor : WF_vars(Watching(m))
    /\ WF_vars(PeerReads \/ (peer = "stalls" /\ PeerGoes))

FairSpec == Spec /\ Fairness

-----------------------------------------------------------------------------
(***************************************************************************)
(* Properties.                                                             *)
(***************************************************************************)
CTypeOK ==
    /\ peer \in {"reads", "stalls", "gone"}
    /\ input \in 0..MaxInput /\ rch \in 0..RchCap /\ errc \in 0..ErrCap
    /\ reader \in {"decode", "put", "report", "ended"}
    /\ writer \in {"wait", "lock", "encode", "report", "ended"}
    /\ wmu \in {"free", "writer", "monitor"}
    /\ at \in {"request", "cap", "register", "inuse", "retry", "welcome", "loop",
               "command", "motd", "close", "wait", "returned"}
    /\ left \in Nat /\ srv \in BOOLEAN /\ ctx \in BOOLEAN
    /\ key \in {"none", "there", "deleted"}
    /\ monitor \in [Monitor -> {"none", "watch", "send", "sync", "encode", "drain", "ended"}]
    /\ events \in 0..MaxEvents /\ told \in BOOLEAN

(* read and write never wait to report their error, though the handler may *)
(* have stopped looking at errc (conn.go:33, 84, 104).                     *)
ReportsFindRoom == reader = "report" \/ writer = "report" => errc < ErrCap

(* The bytes of the ERROR that a monitor writes never mix with a message   *)
(* of the writer (conn.go:23).                                             *)
OneEncoder == ~(writer = "encode" /\ monitor["user"] = "encode")

(* A handler that returns leaves no monitor behind that could still write  *)
(* to the connection, except when the server's context cut the handshake   *)
(* short (server.go:75-78, etcd_client.go:964).                            *)
MonitorsEndFirst ==
    at = "returned" /\ ~srv => \A m \in Monitor : monitor[m] \in {"none", "ended"}

(* Once a user is past its request, closing etcd's client makes its        *)
(* handler return, whoever waits for whom then, so that Serve can return   *)
(* (server.go:62, integration_test.go).                                    *)
ShutdownEnds == srv /\ at \notin {"request", "cap"} ~> at = "returned"

(* Where a handler waits for something other than the end of its           *)
(* connection: for messages only (server.go:123, 203), or for a writer     *)
(* that gave up (conn.go:103).                                             *)
Elsewhere ==
    \/ at \in {"request", "retry"}
    \/ writer = "ended" /\ at \in {"cap", "inuse", "welcome", "motd", "command"}

(* A peer that goes makes its handler return, or the handler waits in one  *)
(* of these places (server.go:89, conn.go:84).                             *)
DisconnectIsSeen == peer = "gone" ~> at = "returned" \/ Elsewhere

(* A user whose key is deleted while its client is up is sent ERROR, even  *)
(* with messages and replies before it in every queue, unless its          *)
(* connection or its client ends first (etcd_client.go:163-169).           *)
EvictedIsTold == key = "deleted" ~> told \/ peer = "gone" \/ CtxDone
=============================================================================
