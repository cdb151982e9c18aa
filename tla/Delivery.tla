------------------------------ MODULE Delivery ------------------------------
(***************************************************************************)
(* How channel messages reach the users on the channel.                    *)
(*                                                                         *)
(* The transactions of Membership also put a message on the message key of *)
(* the channel.  A client that joins a channel starts two watches, one on  *)
(* that key and one on the channel's nick lists, each read by a goroutine  *)
(* of its own: monitorMsg forwards messages until it reads that the user   *)
(* left, monitorPart reports the users of a lost server and deletes empty  *)
(* lists.  Both trail the store by an arbitrary delay.                     *)
(*                                                                         *)
(* log[ch] is the part of etcd's history that the two watches of a channel *)
(* can see.  Every step of this module changes users, lists, sessions and  *)
(* handlers as a step of Membership does, or not at all.                   *)
(***************************************************************************)
EXTENDS Membership

CONSTANTS
    NoMsg,      \* the revision does not touch the channel's message key
    NoChan,
    MaxLog,     \* bound: revisions of a channel
    Patient     \* do clients join a channel only after they saw that they left?

ASSUME DistinctMessages == NoChan \notin Chan

ASSUME DeliveryBounds == MaxLog \in Nat /\ Patient \in BOOLEAN

VARIABLES
    log,   \* per channel, the revisions of its message key and nick lists
    mon    \* per connection, its monitors and what they have sent

dvars == <<vars, log, mon>>

-----------------------------------------------------------------------------
(***************************************************************************)
(* Values.                                                                 *)
(***************************************************************************)

Message == [cmd  : {"JOIN", "PART", "KICK", "QUIT", "PRIVMSG", "TOPIC"},
            from : Nick,
            whom : Nick \cup {NoNick}]

(* A slip: a message without a prefix.                                     *)
MsgNoPrefix(cmd, n) == [cmd |-> cmd, from |-> NoNick, whom |-> NoNick]

Msg(cmd, n)   == [cmd |-> cmd, from |-> n, whom |-> NoNick]
KickMsg(n, m) == [cmd |-> "KICK", from |-> n, whom |-> m]

(* A revision: the message it puts; the nick list it puts or deletes, with *)
(* the nicks of the list (for a deletion, those of the value before it,    *)
(* and the users that existed before it); and the connections whose users  *)
(* were on the channel before it, for which the message is meant.          *)
Revision == [msg   : Message \cup {NoMsg},
             list  : Lease \cup {NoLease},
             op    : {"put", "delete"},
             nicks : SUBSET Nick,
             users : SUBSET Nick,
             to    : SUBSET Conn]

Users         == {n \in Nick : Exists(n)}
Members(ch)   == {c \in Conn : client[c].st = "up" /\ OnChannel(client[c].nick, ch)}
Listed(cns)   == {n \in Nick : cns[n] # <<>>}

PutRev(ch, m, l, N) ==
    [msg |-> m, list |-> l, op |-> "put", nicks |-> N, users |-> {}, to |-> Members(ch)]

(* A slip: the users are read at the revision of the deletion.             *)
DeleteRevAfter(ch, l, N) ==
    [msg |-> NoMsg, list |-> l, op |-> "delete", nicks |-> N, users |-> Users \ N,
     to |-> Members(ch)]

DeleteRev(ch, l, N) ==
    [msg |-> NoMsg, list |-> l, op |-> "delete", nicks |-> N, users |-> Users,
     to |-> Members(ch)]

(* The two watches of a join share a context: live until it is cancelled.  *)
(* msg and part are the first revisions their monitors have not read, or 0 *)
(* once the monitor has returned.                                          *)
Watch == [ch : Chan, msg : Nat, part : Nat, live : BOOLEAN]

(* A join between its commit and the start of its watches: the revision of *)
(* the commit, and the nicks on the channel at that revision.              *)
NoJoin  == [ch |-> NoChan, rev |-> 0, nicks |-> {}]
Joining == [ch : Chan, rev : Nat, nicks : SUBSET Nick] \cup {NoJoin}

(* chCancel names the watches it can cancel by their position, or is 0.    *)
(* seen and told are the revisions whose messages monitorMsg sent and      *)
(* whose lost users monitorPart reported.                                  *)
Monitors == [joining  : Joining,
             watches  : Seq(Watch),
             chCancel : [Chan -> Nat],
             seen     : [Chan -> Seq(Nat)],
             told     : [Chan -> SUBSET Nat]]

NoMonitors == [joining  |-> NoJoin,
               watches  |-> <<>>,
               chCancel |-> [ch \in Chan |-> 0],
               seen     |-> [ch \in Chan |-> <<>>],
               told     |-> [ch \in Chan |-> {}]]

Room(ch) == Len(log[ch]) < MaxLog

(* A transaction adds revision r to the channel's history.                 *)
Commit(ch, r) == Room(ch) /\ log' = [log EXCEPT ![ch] = Append(@, r)]

(* The monitors after a step that may end clients: Close waits for them.   *)
Kept == [c \in Conn |-> IF client'[c].st = "gone" THEN NoMonitors ELSE mon[c]]

NothingSent == UNCHANGED log /\ mon' = Kept

-----------------------------------------------------------------------------
DInit ==
    /\ Init
    /\ log = [ch \in Chan |-> <<>>]
    /\ mon = [c \in Conn |-> NoMonitors]

(* Steps of Membership that touch no channel.                              *)
Background ==
    /\ \/ \E s \in Server : NewSession(s) \/ SessionDone(s) \/ Crash(s)
       \/ \E c \in Conn : \/ \E s \in Server : Accept(c, s)
                          \/ \E n \in Nick : newEtcdClient(c, n)
                          \/ Disconnect(c)
                          \/ Evict(c)
    /\ NothingSent

(* etcd deletes the nick lists of the lease with its users.                *)
Expire(l) ==
    /\ \A ch \in Chan : Room(ch)
    /\ LeaseExpire(l)
    /\ log' = [ch \in Chan |->
                 IF l \in nickKeys[ch]
                 THEN Append(log[ch], DeleteRev(ch, l, Listed(nicks[ch][l])))
                 ELSE log[ch]]
    /\ mon' = Kept

-----------------------------------------------------------------------------
(***************************************************************************)
(* Commands.                                                               *)
(***************************************************************************)

(* The handler reads its next command after the previous one returned.     *)
Idle(c) == mon[c].joining = NoJoin

Fetch(c) == Idle(c) /\ Session(c) /\ UNCHANGED <<log, mon>>

(* JOIN up to its commit.                                                  *)
JoinChannel(c, ch) ==
    LET lid == client[c].lid IN
    /\ Patient => mon[c].chCancel[ch] = 0
    /\ Join(c, ch)
    /\ \/ /\ userCtl' = userCtl
          /\ NothingSent
       \/ /\ userCtl' # userCtl
          /\ Commit(ch, PutRev(ch, Msg("JOIN", client[c].nick), lid, Listed(nicks'[ch][lid])))
          /\ mon' = [mon EXCEPT ![c].joining =
                        [ch    |-> ch,
                         rev   |-> Len(log[ch]) + 1,
                         nicks |-> UNION {Listed(nicks'[ch][l]) : l \in Lease}]]

PartChannel(c, ch) ==
    LET lid == client[c].lid IN
    /\ Part(c, ch)
    /\ \/ /\ userCtl' = userCtl
          /\ NothingSent
       \/ /\ userCtl' # userCtl
          /\ Commit(ch, PutRev(ch, Msg("PART", client[c].nick),
                            IF lid \in nickKeys[ch] THEN lid ELSE NoLease,
                            Listed(nicks'[ch][lid])))
          /\ UNCHANGED mon

KickUser(c, ch, m) ==
    LET lid == userCtl[m].Lease IN
    /\ kick(c, ch, m)
    /\ \/ /\ userCtl' = userCtl
          /\ NothingSent
       \/ /\ userCtl' # userCtl
          /\ Commit(ch, PutRev(ch, KickMsg(client[c].nick, m), lid, Listed(nicks'[ch][lid])))
          /\ UNCHANGED mon

QuitUser(c) ==
    LET n   == client[c].nick
        lid == client[c].lid
    IN
    /\ \A ch \in Chan : Room(ch)
    /\ Quit(c)
    /\ \/ /\ userCtl' = userCtl
          /\ UNCHANGED log
       \/ /\ userCtl' # userCtl
          /\ log' = [ch \in Chan |->
                       IF OnChannel(n, ch) /\ lid \in nickKeys[ch]
                       THEN Append(log[ch], PutRev(ch, Msg("QUIT", n), lid, Listed(nicks'[ch][lid])))
                       ELSE log[ch]]
    /\ mon' = Kept

(* PRIVMSG to a channel, from any user.  The modes of the channel may      *)
(* refuse it; a user that is gone ends its connection, as in Disconnect.   *)
privMsgChan(c, ch) ==
    LET n == client[c].nick IN
    /\ Running(c) /\ client[c].lid = NoLease /\ Idle(c)
    /\ ch \in chans
    /\ Exists(n)
    /\ Commit(ch, PutRev(ch, Msg("PRIVMSG", n), NoLease, {}))
    /\ UNCHANGED <<vars, mon>>

(* TOPIC, once it has a session.  It looks at no user record.              *)
Topic(c, ch) ==
    /\ Running(c) /\ client[c].lid = NoLease /\ Idle(c)
    /\ client[c].srv \in ready
    /\ ch \in chans
    /\ Commit(ch, PutRev(ch, Msg("TOPIC", client[c].nick), NoLease, {}))
    /\ UNCHANGED <<vars, mon>>

-----------------------------------------------------------------------------
(***************************************************************************)
(* Monitors.                                                               *)
(***************************************************************************)

(* Slips in the helpers that follow, for the runs that break a property.   *)
StartAtJoin(rev)        == rev
StartLate(rev)          == rev + 2
LeavesWithAny(m, n)     == m.cmd \in {"PART", "KICK"}
CancelNone(ws, k)       == ws
AlwaysUnmodified(ch, i) == TRUE
ReportNobody(S, i)      == S

(* The watches of a join read from the revision after it.                  *)
FirstRev(rev) == rev + 1

(* A user's own messages are not sent back to it.                          *)
OwnMessage(m, n) == m.cmd = "PRIVMSG" /\ m.from = n

(* The user reads that it parted or was kicked.                            *)
Leaves(m, n) == (m.cmd = "PART" /\ m.from = n) \/ (m.cmd = "KICK" /\ m.whom = n)

(* The watches after the cancel function of the k-th is called, if any.    *)
Cancelled(ws, k) == IF k = 0 THEN ws ELSE [ws EXCEPT ![k].live = FALSE]

(* Nobody wrote the list after revision i did.                             *)
Unmodified(ch, i) ==
    \A j \in DOMAIN log[ch] : j > i => log[ch][j].list # log[ch][i].list

Reported(S, i) == S \cup {i}

(* The second half of JOIN: names, then monitorChannel.  names reads the   *)
(* nicks at the revision of the join but the users at the present one; a   *)
(* user that is gone by then is a nil value, and the server panics.        *)
names(c) ==
    LET j  == mon[c].joining
        ws == mon[c].watches
    IN
    /\ Running(c) /\ ~Idle(c)
    /\ \/ /\ j.nicks \cup {client[c].nick} \subseteq Users
          /\ mon' = [mon EXCEPT ![c] =
                [@ EXCEPT !.joining = NoJoin,
                          !.watches = Append(ws, [ch   |-> j.ch,
                                                  msg  |-> FirstRev(j.rev),
                                                  part |-> FirstRev(j.rev),
                                                  live |-> TRUE]),
                          !.chCancel[j.ch] = Len(ws) + 1]]
          /\ UNCHANGED <<vars, log>>
       \/ /\ ~(j.nicks \cup {client[c].nick} \subseteq Users)
          /\ Crash(client[c].srv)
          /\ NothingSent

(* The first revision from p on that the message watch, or the nick list   *)
(* watch, of ch delivers.                                                  *)
NextMsg(ch, p)  == {i \in DOMAIN log[ch] :
                      /\ i >= p /\ log[ch][i].msg # NoMsg
                      /\ \A j \in p..(i - 1) : log[ch][j].msg = NoMsg}
NextList(ch, p) == {i \in DOMAIN log[ch] :
                      /\ i >= p /\ log[ch][i].list # NoLease
                      /\ \A j \in p..(i - 1) : log[ch][j].list = NoLease}

(* monitorMsg of c's k-th watches reads its next message.  When the user   *)
(* left, it cancels the watches chCancel holds by now and returns.         *)
monitorMsg(c, k) ==
    LET w == mon[c].watches[k]
        n == client[c].nick
    IN
    /\ Running(c) /\ k \in DOMAIN mon[c].watches
    /\ w.msg # 0
    /\ \E i \in NextMsg(w.ch, w.msg) :
          LET m == log[w.ch][i].msg IN
          \/ /\ OwnMessage(m, n)
             /\ mon' = [mon EXCEPT ![c].watches[k].msg = i + 1]
          \/ /\ ~OwnMessage(m, n) /\ ~Leaves(m, n)
             /\ mon' = [mon EXCEPT ![c] = [mon[c] EXCEPT !.watches[k].msg = i + 1,
                                                         !.seen[w.ch] = Append(@, i)]]
          \/ /\ Leaves(m, n)
             /\ mon' = [mon EXCEPT ![c] =
                   [mon[c] EXCEPT !.watches = Cancelled([mon[c].watches EXCEPT ![k].msg = 0],
                                                        mon[c].chCancel[w.ch]),
                                  !.chCancel[w.ch] = 0,
                                  !.seen[w.ch] = Append(@, i)]]
    /\ UNCHANGED <<vars, log>>

(* monitorPart of c's k-th watches reads its next list event.  An empty    *)
(* list of its own session it deletes, unless the list was written since   *)
(* or the request fails, which it ignores.  It reports the users of a      *)
(* deleted list, after reading their records and its own as they were      *)
(* before the deletion; a missing one is a nil value again.                *)
monitorPart(c, k) ==
    LET w == mon[c].watches[k]
        s == client[c].srv
        n == client[c].nick
    IN
    /\ Running(c) /\ k \in DOMAIN mon[c].watches
    /\ w.part # 0
    /\ s \in ready
    /\ \E i \in NextList(w.ch, w.part) :
          LET r == log[w.ch][i] IN
          \/ /\ r.op = "put"
             /\ mon' = [mon EXCEPT ![c].watches[k].part = i + 1]
             /\ UNCHANGED <<vars, log>>
          \/ /\ r.op = "put" /\ r.nicks = {} /\ r.list = ses[s]
             /\ Unmodified(w.ch, i)
             /\ nickKeys' = [nickKeys EXCEPT ![w.ch] = @ \ {r.list}]
             /\ nicks' = [nicks EXCEPT ![w.ch][r.list] = NoNicks]
             /\ Commit(w.ch, DeleteRev(w.ch, r.list, {}))
             /\ mon' = [mon EXCEPT ![c].watches[k].part = i + 1]
             /\ UNCHANGED <<sesVars, client, userCtl, userMsg, chans>>
          \/ /\ r.op = "delete" /\ r.nicks \cup {n} \subseteq r.users
             /\ mon' = [mon EXCEPT ![c] = [mon[c] EXCEPT !.watches[k].part = i + 1,
                                                         !.told[w.ch] = Reported(@, i)]]
             /\ UNCHANGED <<vars, log>>
          \/ /\ r.op = "delete" /\ ~(r.nicks \cup {n} \subseteq r.users)
             /\ Crash(s)
             /\ NothingSent

(* A cancelled watch closes its channel.  Until then it may still hand     *)
(* over what it has received.                                              *)
WatchCloses(c, k) ==
    /\ Running(c) /\ k \in DOMAIN mon[c].watches
    /\ ~mon[c].watches[k].live
    /\ \/ /\ mon[c].watches[k].msg # 0
          /\ mon' = [mon EXCEPT ![c].watches[k].msg = 0]
       \/ /\ mon[c].watches[k].part # 0
          /\ mon' = [mon EXCEPT ![c].watches[k].part = 0]
    /\ UNCHANGED <<vars, log>>

DNext ==
    \/ Background
    \/ \E l \in Lease : Expire(l)
    \/ \E c \in Conn :
          \/ Fetch(c)
          \/ \E ch \in Chan :
                \/ JoinChannel(c, ch)
                \/ PartChannel(c, ch)
                \/ \E m \in Nick : KickUser(c, ch, m)
                \/ privMsgChan(c, ch)
                \/ Topic(c, ch)
          \/ QuitUser(c)
          \/ names(c)
          \/ \E k \in 1..MaxLog :
                monitorMsg(c, k) \/ monitorPart(c, k) \/ WatchCloses(c, k)

DSpec == DInit /\ [][DNext]_dvars

(* Goroutines are scheduled, and etcd delivers to a watch what it covers.  *)
FairDSpec ==
    /\ DSpec
    /\ \A c \in Conn : WF_dvars(names(c))
    /\ \A c \in Conn, k \in 1..MaxLog :
          WF_dvars(monitorMsg(c, k)) /\ WF_dvars(monitorPart(c, k))

-----------------------------------------------------------------------------
(***************************************************************************)
(* Properties.                                                             *)
(***************************************************************************)

(* Every variable has its type.                                            *)
DTypeOK ==
    /\ log \in [Chan -> Seq(Revision)]
    /\ mon \in [Conn -> Monitors]

(* The messages a connection is to be sent: "/chan/msg/<nick> forwards IRC *)
(* messages to all users on the channel" (README.md:35), but not the       *)
(* user's own.                                                             *)
Due(c, ch) == {i \in DOMAIN log[ch] :
                 /\ c \in log[ch][i].to
                 /\ log[ch][i].msg # NoMsg
                 /\ ~OwnMessage(log[ch][i].msg, client[c].nick)}

SeenUpTo(c, ch) == LET s == mon[c].seen[ch] IN IF s = <<>> THEN 0 ELSE s[Len(s)]

(* A client is sent the messages of a channel in the order they were put,  *)
(* each once, and without gaps: so far exactly those put while its user    *)
(* was on the channel, over any number of joins, parts and kicks.          *)
InOrderOnce ==
    \A c \in Conn, ch \in Chan :
        LET s == mon[c].seen[ch] IN
        client[c].st = "up" =>
            /\ \A i, j \in DOMAIN s : i < j => s[i] < s[j]
            /\ {s[i] : i \in DOMAIN s} = {i \in Due(c, ch) : i <= SeenUpTo(c, ch)}

(* A user on a channel is watching it, unless its JOIN is not finished.    *)
MemberIsWatching ==
    \A c \in Conn, ch \in Chan :
        c \in Members(ch) /\ mon[c].joining.ch # ch =>
            \E k \in DOMAIN mon[c].watches :
                /\ mon[c].watches[k].ch = ch
                /\ mon[c].watches[k].live
                /\ mon[c].watches[k].msg # 0

(* "Remove watches on channel; stop receiving messages"                    *)
(* (etcd_client.go:189): the watches a client still runs can be cancelled, *)
(* so none is left when the user has read that it is off the channel.      *)
WatchesCancellable ==
    \A c \in Conn : \A k \in DOMAIN mon[c].watches :
        mon[c].watches[k].live => mon[c].chCancel[mon[c].watches[k].ch] = k

(* Whatever the timing, and however often it joins, no client is sent a    *)
(* channel message from before its own JOIN, or that JOIN again.           *)
NothingFromBefore ==
    \A c \in Conn, ch \in Chan : \A i \in DOMAIN mon[c].seen[ch] :
        \E j \in 1..(mon[c].seen[ch][i] - 1) :
            log[ch][j].msg = Msg("JOIN", client[c].nick)

(* "Fetch users at time of join" (etcd_client.go:293): the users that were *)
(* on the channel when the client joined are found when names reads them.  *)
NamesFound ==
    \A c \in Conn : Running(c) => mon[c].joining.nicks \subseteq Users

(* "reports the lost users as leaves to the other parties in the channel"  *)
(* (etcd_client.go:93): a monitor that reads the deletion of a list finds  *)
(* the users to report, and its own, in the store before the deletion.     *)
ReportsFindUsers ==
    \A c \in Conn : \A k \in DOMAIN mon[c].watches :
        LET w == mon[c].watches[k] IN
        Running(c) /\ w.part # 0 =>
            \A i \in NextList(w.ch, w.part) :
                log[w.ch][i].op = "delete" =>
                    log[w.ch][i].nicks \cup {client[c].nick} \subseteq log[w.ch][i].users

(* Every message put while a user is on the channel is eventually sent to  *)
(* it, unless its connection ends first.                                   *)
MessagesArrive ==
    \A c \in Conn, ch \in Chan : \A i \in 1..MaxLog :
        i \in Due(c, ch) ~> (i \in {mon[c].seen[ch][x] : x \in DOMAIN mon[c].seen[ch]}
                             \/ client[c].st # "up")

(* "the key deletion event signals server loss and all the server's users  *)
(* are removed from the channel" (README.md:35): the loss is eventually    *)
(* reported to each user on the channel, unless that user leaves first.    *)
LossesAreReported ==
    \A c \in Conn, ch \in Chan : \A i \in 1..MaxLog :
        (i \in DOMAIN log[ch] /\ log[ch][i].op = "delete" /\ c \in log[ch][i].to)
            ~> (i \in mon[c].told[ch] \/ c \notin Members(ch))
=============================================================================
