----------------------------- MODULE Membership -----------------------------
(***************************************************************************)
(* Who is registered and who is on which channel.                          *)
(*                                                                         *)
(* etcdircd servers share no state but the keys they keep in etcd.  Every  *)
(* command that changes a user or a channel is one software transaction    *)
(* over those keys, so its commit is one atomic step here.  What a command *)
(* does before its transaction (fetch the server's session, whose lease    *)
(* names and owns the keys it will write) is a step of its own, because    *)
(* leases expire, sessions are replaced and other servers commit between   *)
(* the two.  The messages a transaction also leaves for the watchers of a  *)
(* channel are the subject of a layer above this one.                      *)
(*                                                                         *)
(* Keys and their variables:                                               *)
(*   /user/ctl/<nick>             userCtl[n]                               *)
(*   /user/msg/<nick>             userMsg[n]    (only its lease)           *)
(*   /chan/ctl/<ch>, /chan/msg/<ch>  ch \in chans                          *)
(*   /chan/nicks/<ch>/<lease>     nickKeys[ch], nicks[ch][l]               *)
(***************************************************************************)
EXTENDS Naturals, Sequences

CONSTANTS
    Server,        \* etcdircd processes
    Conn,          \* client connections, each used once
    Nick,
    Chan,
    Lease,         \* the lease ids etcd can still hand out
    NoLease,       \* no lease: the key is absent, the session not fetched
    NoServer,
    NoNick,
    MaxJoins,      \* bound: times a nick is listed on a channel at once
    EarlyLoss,     \* may a server give up a session whose lease still lives?
    LateEviction   \* may a client act before it sees its user key deleted?

ASSUME DistinctNone ==
    /\ NoLease \notin Lease
    /\ NoServer \notin Server
    /\ NoNick \notin Nick

ASSUME TimingFlags == EarlyLoss \in BOOLEAN /\ LateEviction \in BOOLEAN

ASSUME JoinBound == MaxJoins \in Nat

VARIABLES
    granted,   \* leases etcd ever granted: an id is never granted twice
    live,      \* leases that have neither expired nor been revoked
    ses,       \* per server, the lease of etcdSession.s
    ready,     \* the servers whose etcdSession.readyc is closed
    client,    \* per connection, its handler
    userCtl,   \* per nick, the user record and the lease of its key
    userMsg,   \* per nick, the lease of its message key
    chans,     \* channels whose control and message keys exist
    nickKeys,  \* per channel, the leases with a nick list
    nicks      \* per channel, lease and nick: the modes of its entries

etcdVars == <<userCtl, userMsg, chans, nickKeys, nicks>>
sesVars  == <<granted, live, ses, ready>>
vars     == <<granted, live, ses, ready, client,
              userCtl, userMsg, chans, nickKeys, nicks>>

-----------------------------------------------------------------------------
(***************************************************************************)
(* Values.                                                                 *)
(***************************************************************************)

(* A user: the lease etcd holds for the key, the copy of it in the record, *)
(* and how often each channel occurs in the record's list of channels.     *)
UserValue == [lease    : Lease \cup {NoLease},
              Lease    : Lease \cup {NoLease},
              Channels : [Chan -> Nat]]

(* A slip: the record does not keep a copy of the lease.                   *)
NewUserNoCopy(lid) == [lease |-> lid, Lease |-> NoLease, Channels |-> [ch \in Chan |-> 0]]

(* A user as registered under a lease.  Every user key has a lease, so the *)
(* user without one is the user that does not exist.                       *)
NewUser(lid) == [lease |-> lid, Lease |-> lid, Channels |-> [ch \in Chan |-> 0]]
NoUser       == NewUser(NoLease)

(* A nick list keeps, for each nick, its entries in the order they were    *)
(* appended; find and del act on the first entry of a nick, and no         *)
(* operation compares the positions of two nicks.                          *)
OpMode       == {"O", "o"}
NickMode     == {{}, OpMode}
ChannelNicks == [Nick -> Seq(NickMode)]
NoNicks      == [n \in Nick |-> <<>>]

(* The handler of a connection.  "doomed": the user key it registered was  *)
(* deleted, but its watch has not yet delivered the deletion.              *)
Client ==
    [st : {"new", "gone"}, srv : {NoServer}, nick : {NoNick}, lid : {NoLease}]
      \cup [st : {"handshake"}, srv : Server, nick : {NoNick}, lid : Lease \cup {NoLease}]
      \cup [st : {"up", "doomed"}, srv : Server, nick : Nick, lid : Lease \cup {NoLease}]

NewClient  == [st |-> "new",  srv |-> NoServer, nick |-> NoNick, lid |-> NoLease]
UpClient(s, n) == [st |-> "up", srv |-> s, nick |-> n, lid |-> NoLease]
GoneClient == [st |-> "gone", srv |-> NoServer, nick |-> NoNick, lid |-> NoLease]

Exists(n)  == userCtl[n].lease # NoLease
Running(c) == client[c].st \in {"up", "doomed"}

(* c is executing a command and holds the session it fetched for it.       *)
Calling(c) == Running(c) /\ client[c].lid # NoLease

(* The command of c ends: normally, or with an error, on which handleConn  *)
(* closes the client and leaves its keys to the lease.                     *)
Return(c) == client' = [client EXCEPT ![c].lid = NoLease]
Fail(c)   == client' = [client EXCEPT ![c] = GoneClient]

(* Slips in the helpers that follow, for the runs that break a property.   *)
KeepEvicted(cl, N)   == cl
AnyLease(lid)        == TRUE
AlwaysOn(n, ch)      == TRUE
OpForAll(ch)         == OpMode
delOnce(n, k, cns)   == [cns EXCEPT ![n] = SubSeq(@, 2, Len(@))]

(* etcd refuses a put under a lease it does not hold.                      *)
LeaseFound(lid) == lid \in live

(* Does uv.part find the channel in the user's record?                     *)
OnChannel(n, ch) == userCtl[n].Channels[ch] > 0

(* The user record after a join under lease lid, and after a part.         *)
addChannel(uv, ch, lid) == [lease |-> lid, Lease |-> uv.Lease,
                            Channels |-> [uv.Channels EXCEPT ![ch] = @ + 1]]
part(uv, ch)            == [uv EXCEPT !.Channels[ch] = @ - 1]

(* The modes a join of ch gives: the first user has ops and owner status.  *)
JoinMode(ch) == IF ch \notin chans THEN OpMode ELSE {}

(* A nick list after an entry for nick n is appended, and after the first  *)
(* k entries of n, or as many as there are, are removed.                   *)
add(n, mode, cns) == [cns EXCEPT ![n] = Append(@, mode)]
del(n, k, cns)    == [cns EXCEPT ![n] = SubSeq(@, k + 1, Len(@))]

(* The clients after the message keys of the nicks N are deleted: the      *)
(* watch of each client registered under them ends the client, at once or  *)
(* once the deletion is delivered.                                         *)
Evicted(cl, N) ==
    [c \in Conn |->
        IF cl[c].st = "up" /\ cl[c].nick \in N
        THEN IF LateEviction THEN [cl[c] EXCEPT !.st = "doomed"] ELSE GoneClient
        ELSE cl[c]]

-----------------------------------------------------------------------------
Init ==
    /\ granted  = {}
    /\ live     = {}
    /\ ses      = [s \in Server |-> NoLease]
    /\ ready    = {}
    /\ client   = [c \in Conn |-> NewClient]
    /\ userCtl  = [n \in Nick |-> NoUser]
    /\ userMsg  = [n \in Nick |-> NoLease]
    /\ chans    = {}
    /\ nickKeys = [ch \in Chan |-> {}]
    /\ nicks    = [ch \in Chan |-> [l \in Lease |-> NoNicks]]

-----------------------------------------------------------------------------
(***************************************************************************)
(* Leases and sessions.                                                    *)
(***************************************************************************)

(* The session loop creates a session and publishes it.                    *)
NewSession(s) ==
    /\ s \notin ready
    /\ \E l \in Lease \ granted :
          /\ granted' = granted \cup {l}
          /\ live'    = live \cup {l}
          /\ ses'     = [ses EXCEPT ![s] = l]
    /\ ready' = ready \cup {s}
    /\ UNCHANGED <<client, etcdVars>>

(* The session loop sees its session done.  Keepalive reports the lease    *)
(* gone, or, early, stops waiting for an answer about a lease that lives.  *)
SessionDone(s) ==
    /\ s \in ready
    /\ EarlyLoss \/ ses[s] \notin live
    /\ ready' = ready \ {s}
    /\ UNCHANGED <<granted, live, ses, client, etcdVars>>

(* etcd expires a lease and deletes its keys in one revision.              *)
LeaseExpire(l) ==
    /\ l \in live
    /\ live'     = live \ {l}
    /\ userCtl'  = [n \in Nick |-> IF userCtl[n].lease = l THEN NoUser ELSE userCtl[n]]
    /\ userMsg'  = [n \in Nick |-> IF userMsg[n] = l THEN NoLease ELSE userMsg[n]]
    /\ nickKeys' = [ch \in Chan |-> nickKeys[ch] \ {l}]
    /\ nicks'    = [ch \in Chan |-> [nicks[ch] EXCEPT ![l] = NoNicks]]
    /\ client'   = Evicted(client, {n \in Nick : userMsg[n] = l})
    /\ UNCHANGED <<granted, ses, ready, chans>>

(* A server process ends, by DIE, shutdown or a crash: nothing it does     *)
(* revokes its lease.  When it starts again it has no session.             *)
Crash(s) ==
    /\ ses[s] # NoLease
    /\ ses'    = [ses EXCEPT ![s] = NoLease]
    /\ ready'  = ready \ {s}
    /\ client' = [c \in Conn |-> IF client[c].srv = s THEN GoneClient ELSE client[c]]
    /\ UNCHANGED <<granted, live, etcdVars>>

(* The handler of c fetches the server's session, waiting until there is   *)
(* one.  Session returns the last session even when it is already done.    *)
Session(c) ==
    /\ client[c].st \in {"handshake", "up", "doomed"}
    /\ client[c].lid = NoLease
    /\ client[c].srv \in ready
    /\ client' = [client EXCEPT ![c].lid = ses[client[c].srv]]
    /\ UNCHANGED <<sesVars, etcdVars>>

-----------------------------------------------------------------------------
(***************************************************************************)
(* Transactions: what the commands do to the keys when they commit.        *)
(***************************************************************************)

(* Create both keys of a user.                                             *)
RegisterTxn(n, lid) ==
    /\ userCtl' = [userCtl EXCEPT ![n] = NewUser(lid)]
    /\ userMsg' = [userMsg EXCEPT ![n] = lid]
    /\ UNCHANGED <<chans, nickKeys, nicks>>

(* Append the channel to the user's channels and the user to the nick list *)
(* of the fetched session, creating list and channel as needed.  The user  *)
(* key moves to the lease of that session.                                 *)
JoinTxn(n, ch, lid) ==
    /\ userCtl'  = [userCtl EXCEPT ![n] = addChannel(@, ch, lid)]
    /\ chans'    = chans \cup {ch}
    /\ nickKeys' = [nickKeys EXCEPT ![ch] = @ \cup {lid}]
    /\ nicks'    = [nicks EXCEPT ![ch][lid] = add(n, JoinMode(ch), @)]
    /\ UNCHANGED userMsg

(* Drop one occurrence of the channel from the user, and the user's first  *)
(* entry from the nick list of the fetched session, if that exists.        *)
PartTxn(n, ch, lid) ==
    /\ userCtl' = [userCtl EXCEPT ![n] = part(@, ch)]
    /\ nicks'   = IF lid \in nickKeys[ch]
                  THEN [nicks EXCEPT ![ch][lid] = del(n, 1, @)]
                  ELSE nicks
    /\ UNCHANGED <<userMsg, chans, nickKeys>>

(* Leave every channel of the record whose list under the fetched session  *)
(* exists, once per occurrence, and delete both keys of the user.          *)
QuitTxn(n, lid) ==
    /\ nicks'   = [ch \in Chan |->
                     IF lid \in nickKeys[ch]
                     THEN [nicks[ch] EXCEPT ![lid] = del(n, userCtl[n].Channels[ch], @)]
                     ELSE nicks[ch]]
    /\ userCtl' = [userCtl EXCEPT ![n] = NoUser]
    /\ userMsg' = [userMsg EXCEPT ![n] = NoLease]
    /\ UNCHANGED <<chans, nickKeys>>

-----------------------------------------------------------------------------
(***************************************************************************)
(* Connections.                                                            *)
(***************************************************************************)

Accept(c, s) ==
    /\ client[c].st = "new"
    /\ client' = [client EXCEPT ![c].st = "handshake", ![c].srv = s]
    /\ UNCHANGED <<sesVars, etcdVars>>

(* Register nick n if its control key does not exist.  A taken nick is     *)
(* answered by ERR_NICKNAMEINUSE and the handshake tries the next one; a   *)
(* put under a lease that is gone fails and ends the connection.           *)
newEtcdClient(c, n) ==
    LET lid == client[c].lid IN
    /\ client[c].st = "handshake"
    /\ lid # NoLease
    /\ \/ /\ Exists(n)
          /\ Return(c)
          /\ UNCHANGED etcdVars
       \/ /\ ~Exists(n) /\ ~LeaseFound(lid)
          /\ Fail(c)
          /\ UNCHANGED etcdVars
       \/ /\ ~Exists(n) /\ LeaseFound(lid)
          /\ RegisterTxn(n, lid)
          /\ client' = [client EXCEPT ![c] = UpClient(@.srv, n)]
    /\ UNCHANGED sesVars

(* The connection breaks between two commands: handleConn closes the       *)
(* client without a Quit, and its keys stay until the lease ends.          *)
Disconnect(c) ==
    /\ Running(c)
    /\ client[c].lid = NoLease
    /\ Fail(c)
    /\ UNCHANGED <<sesVars, etcdVars>>

(* The watch of the user's message key delivers the deletion: monitorMsg   *)
(* returns, the client's context is cancelled, and with it what it runs.   *)
Evict(c) ==
    /\ client[c].st = "doomed"
    /\ Fail(c)
    /\ UNCHANGED <<sesVars, etcdVars>>

-----------------------------------------------------------------------------
(***************************************************************************)
(* Commands.                                                               *)
(***************************************************************************)

(* JOIN, whether or not the user is on the channel already.  A user that   *)
(* is gone or a session that is over ends the connection.                  *)
Join(c, ch) ==
    LET n   == client[c].nick
        lid == client[c].lid
    IN
    /\ Calling(c)
    /\ userCtl[n].Channels[ch] < MaxJoins
    /\ Len(nicks[ch][lid][n]) < MaxJoins
    /\ \/ /\ ~Exists(n) \/ ~LeaseFound(lid)
          /\ Fail(c)
          /\ UNCHANGED etcdVars
       \/ /\ Exists(n) /\ LeaseFound(lid)
          /\ JoinTxn(n, ch, lid)
          /\ Return(c)
    /\ UNCHANGED sesVars

(* PART.                                                                   *)
Part(c, ch) ==
    LET n == client[c].nick IN
    /\ Calling(c)
    /\ \/ /\ ~Exists(n)
          /\ Fail(c)
          /\ UNCHANGED etcdVars
       \/ /\ Exists(n) /\ ~OnChannel(n, ch)     \* ERR_NOTONCHANNEL
          /\ Return(c)
          /\ UNCHANGED etcdVars
       \/ /\ Exists(n) /\ OnChannel(n, ch)
          /\ PartTxn(n, ch, client[c].lid)
          /\ Return(c)
    /\ UNCHANGED sesVars

(* Is c's nick an operator of ch by this session's nick list?              *)
IsOp(c, ch) ==
    LET entries == nicks[ch][client[c].lid][client[c].nick]
    IN  entries # <<>> /\ Head(entries) # {}

(* KICK of nick m: the kicker must be an operator in its own session's     *)
(* list; m parts from the list of the lease its record names, and if that  *)
(* is missing the kicker's connection ends.                                *)
kick(c, ch, m) ==
    LET lid == userCtl[m].Lease IN
    /\ Calling(c)
    /\ \/ /\ ~IsOp(c, ch) \/ ~OnChannel(m, ch)  \* an error reply
          /\ Return(c)
          /\ UNCHANGED etcdVars
       \/ /\ IsOp(c, ch) /\ OnChannel(m, ch) /\ lid \notin nickKeys[ch]
          /\ Fail(c)
          /\ UNCHANGED etcdVars
       \/ /\ IsOp(c, ch) /\ OnChannel(m, ch) /\ lid \in nickKeys[ch]
          /\ PartTxn(m, ch, lid)
          /\ Return(c)
    /\ UNCHANGED sesVars

(* QUIT.  The handler goes on reading; the deletion of the message key     *)
(* ends it.                                                                *)
Quit(c) ==
    LET n == client[c].nick IN
    /\ Calling(c)
    /\ \/ /\ ~Exists(n)
          /\ Fail(c)
          /\ UNCHANGED etcdVars
       \/ /\ Exists(n)
          /\ QuitTxn(n, client[c].lid)
          /\ client' = Evicted([client EXCEPT ![c].lid = NoLease],
                               IF userMsg[n] = NoLease THEN {} ELSE {n})
    /\ UNCHANGED sesVars

(* monitorPart of a client whose server owns lease l sees the list of l    *)
(* become empty and deletes it, unless it changed meanwhile.  The session  *)
(* it compared with may be over by then, and the client may have left the  *)
(* channel: its monitors stop only when they see that.                     *)
CleanNicks(c, ch) ==
    LET l == ses[client[c].srv] IN
    /\ Running(c)
    /\ l \in nickKeys[ch]
    /\ nicks[ch][l] = NoNicks
    /\ nickKeys' = [nickKeys EXCEPT ![ch] = @ \ {l}]
    /\ UNCHANGED <<sesVars, client, userCtl, userMsg, chans, nicks>>

Next ==
    \/ \E s \in Server : NewSession(s) \/ SessionDone(s) \/ Crash(s)
    \/ \E l \in Lease : LeaseExpire(l)
    \/ \E c \in Conn :
          \/ \E s \in Server : Accept(c, s)
          \/ Session(c)
          \/ \E n \in Nick : newEtcdClient(c, n)
          \/ Disconnect(c)
          \/ Evict(c)
          \/ \E ch \in Chan :
                \/ Join(c, ch)
                \/ Part(c, ch)
                \/ \E m \in Nick : kick(c, ch, m)
                \/ CleanNicks(c, ch)
          \/ Quit(c)

Spec == Init /\ [][Next]_vars

(* No server keeps the lease alive any more: it was the session of a       *)
(* process that ended, or of a session loop that moved on.                 *)
Orphaned(l) == l \in granted /\ \A s \in Server : ses[s] # l

(* etcd expires a lease that nobody renews once its time to live is over.  *)
FairSpec == Spec /\ \A l \in Lease : WF_vars(Orphaned(l) /\ LeaseExpire(l))

-----------------------------------------------------------------------------
(***************************************************************************)
(* Properties that hold whatever the timing.                               *)
(***************************************************************************)

(* Every variable has its type.                                            *)
TypeOK ==
    /\ granted \in SUBSET Lease
    /\ live \in SUBSET granted
    /\ ses \in [Server -> Lease \cup {NoLease}]
    /\ ready \in SUBSET Server
    /\ client \in [Conn -> Client]
    /\ userCtl \in [Nick -> UserValue]
    /\ userMsg \in [Nick -> Lease \cup {NoLease}]
    /\ chans \in SUBSET Chan
    /\ nickKeys \in [Chan -> SUBSET Lease]
    /\ nicks \in [Chan -> [Lease -> ChannelNicks]]

(* Session expiry releases everything a server held (README.md:31): no     *)
(* user key and no nick list outlives the lease it was put under, whatever *)
(* commands of whichever server were in flight when the lease went.        *)
ReleasedOnExpiry ==
    /\ \A n \in Nick : userCtl[n].lease \in live \cup {NoLease}
    /\ \A n \in Nick : userMsg[n] \in live \cup {NoLease}
    /\ \A ch \in Chan, l \in Lease :
          (l \in nickKeys[ch] \/ nicks[ch][l] # NoNicks) => l \in live

(* Join gives +oO to the first user only (etcd_client.go:267): over all    *)
(* the nick lists of a channel, on all servers, and over repeated joins,   *)
(* at most one entry is an operator's.                                     *)
OneOperator ==
    \A ch \in Chan : \A l1, l2 \in Lease : \A m1, m2 \in Nick :
        \A i \in DOMAIN nicks[ch][l1][m1], j \in DOMAIN nicks[ch][l2][m2] :
            nicks[ch][l1][m1][i] # {} /\ nicks[ch][l2][m2][j] # {}
                => l1 = l2 /\ m1 = m2 /\ i = j

(* A client that has not been told to stop still has its message key, so   *)
(* that privMsgUser, which puts without a lease of its own, reaches it.    *)
UpIsReachable ==
    \A c \in Conn : client[c].st = "up" => userMsg[client[c].nick] # NoLease

-----------------------------------------------------------------------------
(***************************************************************************)
(* Properties that hold while no server gives up a session before its      *)
(* lease expires and no client outlives its user key.                      *)
(***************************************************************************)

(* The Lease field stands in for the lease of the key, which a transaction *)
(* cannot read (user.go:22): the two agree, and agree with the lease of    *)
(* the user's message key, so a user's keys disappear together.            *)
LeaseMirrored ==
    \A n \in Nick : /\ userCtl[n].Lease = userCtl[n].lease
                    /\ userMsg[n] = userCtl[n].lease

(* The two records of membership agree: a channel occurs in the user's     *)
(* record as often as the user is listed under the lease of the record,    *)
(* and nobody is listed under another lease.  Kick, names, WHO and the     *)
(* reports of lost users follow one record to the other.                   *)
MembershipAgrees ==
    \A ch \in Chan, l \in Lease, n \in Nick :
        Len(nicks[ch][l][n]) =
            IF l = userCtl[n].Lease THEN userCtl[n].Channels[ch] ELSE 0

(* A nick has one client at a time, the one that registered it, and that   *)
(* client's user belongs to the session of the server it is connected to.  *)
OneOwner ==
    \A c \in Conn : client[c].st = "up" =>
        /\ userCtl[client[c].nick].lease = ses[client[c].srv]
        /\ Exists(client[c].nick)
        /\ \A d \in Conn : client[d].st = "up" /\ client[d].nick = client[c].nick => d = c

(* When a server is lost its users are eventually gone and off every       *)
(* channel (README.md:31, README.md:35), however its last commands and     *)
(* the expiry of its lease interleave.                                     *)
LostServerReleases ==
    \A n \in Nick :
        Exists(n) /\ Orphaned(userCtl[n].lease)
            ~> /\ ~Exists(n)
               /\ \A ch \in Chan, l \in Lease : nicks[ch][l][n] = <<>>
=============================================================================
