--------------------------- MODULE DeliveryProofs ---------------------------
(***************************************************************************)
(* Delivery implements Membership: whatever the monitors do, and however   *)
(* far they trail the store, users, nick lists, sessions and handlers      *)
(* change only as Membership says.                                         *)
(***************************************************************************)
EXTENDS Delivery, MembershipProofs, SequenceTheorems

(* The last revision of a list tells what the list is now.                 *)
TellsList(lg, keys, cns) ==
    \A i \in DOMAIN lg :
        /\ lg[i].op = "put" /\ lg[i].list # NoLease
        /\ \A j \in DOMAIN lg : j > i => lg[j].list # lg[i].list
        => lg[i].list \in keys /\ lg[i].nicks = Listed(cns[lg[i].list])

LogTyped == log \in [Chan -> Seq(Revision)]

LogInv == LogTyped /\ \A ch \in Chan : TellsList(log[ch], nickKeys[ch], nicks[ch])

(* A revision may change only the list it names, and says what it puts.    *)
LEMMA TellsAppend ==
    ASSUME NEW lg \in Seq(Revision), NEW r \in Revision,
           NEW keys, NEW keys2, NEW cns, NEW cns2,
           TellsList(lg, keys, cns),
           \A l \in Lease : l # r.list => (l \in keys2 <=> l \in keys) /\ cns2[l] = cns[l],
           r.op = "put" /\ r.list # NoLease => r.list \in keys2 /\ r.nicks = Listed(cns2[r.list])
    PROVE  TellsList(Append(lg, r), keys2, cns2)
  <1> DEFINE lg2 == Append(lg, r)
  <1>1. /\ Len(lg) \in Nat /\ DOMAIN lg = 1 .. Len(lg)
        /\ DOMAIN lg2 = 1 .. (Len(lg) + 1)
        /\ lg2[Len(lg) + 1] = r
        /\ \A i \in 1 .. Len(lg) : lg2[i] = lg[i] /\ lg[i] \in Revision
    OBVIOUS
  <1> HIDE DEF lg2
  <1> SUFFICES ASSUME NEW i \in DOMAIN lg2,
                      lg2[i].op = "put", lg2[i].list # NoLease,
                      \A j \in DOMAIN lg2 : j > i => lg2[j].list # lg2[i].list
               PROVE  lg2[i].list \in keys2 /\ lg2[i].nicks = Listed(cns2[lg2[i].list])
    BY DEF TellsList, lg2
  <1>2. CASE i = Len(lg) + 1
    BY <1>1, <1>2
  <1>3. CASE i # Len(lg) + 1
    <2>1. i \in DOMAIN lg /\ lg2[i] = lg[i] /\ i < Len(lg) + 1
      BY <1>1, <1>3
    <2>2. r.list # lg[i].list
      BY <1>1, <2>1
    <2>3. \A j \in DOMAIN lg : j > i => lg[j].list # lg[i].list
      BY <1>1, <2>1
    <2>4. lg[i].list \in keys /\ lg[i].nicks = Listed(cns[lg[i].list])
      BY <2>1, <2>3 DEF TellsList
    <2>5. lg[i].list \in Lease
      BY <1>1, <2>1 DEF Revision
    <2> QED
      BY <2>1, <2>2, <2>4, <2>5
  <1> QED
    BY <1>2, <1>3

(* What a step may do to a channel: nothing that its lists show, or one    *)
(* revision that tells what it does.                                       *)
Told(ch) ==
    \/ /\ log'[ch] = log[ch] /\ nickKeys'[ch] = nickKeys[ch]
       /\ \A l \in nickKeys[ch] : nicks'[ch][l] = nicks[ch][l]
    \/ \E r \in Revision :
          /\ log'[ch] = Append(log[ch], r)
          /\ \A l \in Lease : l # r.list =>
                (l \in nickKeys'[ch] <=> l \in nickKeys[ch]) /\ nicks'[ch][l] = nicks[ch][l]
          /\ r.op = "put" /\ r.list # NoLease =>
                r.list \in nickKeys'[ch] /\ r.nicks = Listed(nicks'[ch][r.list])

ToldStep == log' = [ch \in Chan |-> log'[ch]] /\ \A ch \in Chan : Told(ch)

(* A step that tells what it does keeps the history truthful.              *)
LEMMA ToldKeeps == LogInv /\ ToldStep => LogInv'
  <1> SUFFICES ASSUME LogInv, ToldStep PROVE LogInv'
    OBVIOUS
  <1>1. ASSUME NEW ch \in Chan
        PROVE  log'[ch] \in Seq(Revision) /\ TellsList(log'[ch], nickKeys'[ch], nicks'[ch])
    <2>1. log[ch] \in Seq(Revision) /\ TellsList(log[ch], nickKeys[ch], nicks[ch])
      BY DEF LogInv, LogTyped
    <2>2. CASE /\ log'[ch] = log[ch] /\ nickKeys'[ch] = nickKeys[ch]
               /\ \A l \in nickKeys[ch] : nicks'[ch][l] = nicks[ch][l]
      BY <2>1, <2>2 DEF TellsList
    <2>3. ASSUME NEW r \in Revision,
                 log'[ch] = Append(log[ch], r),
                 \A l \in Lease : l # r.list =>
                    (l \in nickKeys'[ch] <=> l \in nickKeys[ch]) /\ nicks'[ch][l] = nicks[ch][l],
                 r.op = "put" /\ r.list # NoLease =>
                    r.list \in nickKeys'[ch] /\ r.nicks = Listed(nicks'[ch][r.list])
          PROVE  log'[ch] \in Seq(Revision) /\ TellsList(log'[ch], nickKeys'[ch], nicks'[ch])
      <3>1. TellsList(Append(log[ch], r), nickKeys'[ch], nicks'[ch])
        BY <2>1, <2>3, TellsAppend
      <3> QED
        BY <2>1, <2>3, <3>1
    <2> QED
      BY <2>2, <2>3 DEF ToldStep, Told
  <1> QED
    BY <1>1 DEF LogInv, LogTyped, ToldStep

(* Revisions have their type.                                              *)
LEMMA RevisionTypes ==
    ASSUME NEW ch \in Chan, NEW l \in Lease \cup {NoLease}, NEW N \in SUBSET Nick
    PROVE  /\ \A m \in Message : PutRev(ch, m, l, N) \in Revision
           /\ DeleteRev(ch, l, N) \in Revision
  BY DEF PutRev, DeleteRev, Revision, Users, Members

(* So have the messages of a client's commands.                            *)
LEMMA MessageTypes ==
    ASSUME NEW n \in Nick, NEW m \in Nick,
           NEW cmd \in {"JOIN", "PART", "QUIT", "PRIVMSG", "TOPIC"}
    PROVE  Msg(cmd, n) \in Message /\ KickMsg(n, m) \in Message
  BY DEF Msg, KickMsg, Message

(* The nick and lease of a client that executes a command.                 *)
LEMMA CallerTypes ==
    ASSUME TypeOK, NEW c \in Conn, Running(c)
    PROVE  /\ client[c].nick \in Nick
           /\ client[c].lid \in Lease \cup {NoLease}
           /\ Calling(c) => client[c].lid \in Lease
  <1>1. client[c] \in Client
    BY DEF TypeOK
  <1> QED
    BY <1>1 DEF Client, Running, Calling

-----------------------------------------------------------------------------
(***************************************************************************)
(* Every step tells what it does to the lists.                             *)
(***************************************************************************)

(* One channel gets a revision, and the other channels keep their lists.   *)
LEMMA OneChannel ==
    ASSUME LogInv, NEW ch \in Chan, NEW r \in Revision, Commit(ch, r),
           \A d \in Chan : d # ch => nickKeys'[d] = nickKeys[d] /\ nicks'[d] = nicks[d],
           \A l \in Lease : l # r.list =>
              (l \in nickKeys'[ch] <=> l \in nickKeys[ch]) /\ nicks'[ch][l] = nicks[ch][l],
           r.op = "put" /\ r.list # NoLease =>
              r.list \in nickKeys'[ch] /\ r.nicks = Listed(nicks'[ch][r.list])
    PROVE  ToldStep
  <1>1. /\ log' = [d \in Chan |-> log'[d]]
        /\ log'[ch] = Append(log[ch], r)
        /\ \A d \in Chan : d # ch => log'[d] = log[d]
    BY Zenon DEF LogInv, LogTyped, Commit
  <1>2. Told(ch)
    BY <1>1 DEF Told
  <1>3. \A d \in Chan : d # ch => Told(d)
    BY <1>1 DEF Told
  <1> QED
    BY <1>1, <1>2, <1>3 DEF ToldStep

(* A step that leaves lists and history alone.                             *)
LEMMA NothingToTell ==
    ASSUME LogInv, UNCHANGED <<log, nickKeys, nicks>>
    PROVE  ToldStep
  BY DEF LogInv, LogTyped, ToldStep, Told

(* A channel message or a topic changes no list.                           *)
LEMMA SendTold ==
    ASSUME TypeOK, LogInv, NEW c \in Conn, NEW ch \in Chan, privMsgChan(c, ch) \/ Topic(c, ch)
    PROVE  ToldStep
  <1> DEFINE cmds == {"JOIN", "PART", "QUIT", "PRIVMSG", "TOPIC"}
  <1>1. PICK cmd \in cmds : /\ Commit(ch, PutRev(ch, Msg(cmd, client[c].nick), NoLease, {}))
                            /\ Running(c) /\ UNCHANGED vars
    BY DEF privMsgChan, Topic
  <1> DEFINE r == PutRev(ch, Msg(cmd, client[c].nick), NoLease, {})
  <1>2. Msg(cmd, client[c].nick) \in Message
    BY <1>1, CallerTypes, MessageTypes
  <1>3. r \in Revision /\ r.list = NoLease
    BY <1>2, RevisionTypes DEF PutRev
  <1>4. UNCHANGED <<nickKeys, nicks>>
    BY <1>1 DEF vars
  <1> QED
    BY <1>1, <1>3, <1>4, OneChannel

(* A join tells the list it appends to.                                    *)
LEMMA JoinTold ==
    ASSUME TypeOK, LogInv, NEW c \in Conn, NEW ch \in Chan, JoinChannel(c, ch)
    PROVE  ToldStep
  <1> DEFINE n   == client[c].nick
             lid == client[c].lid
             r   == PutRev(ch, Msg("JOIN", n), lid, Listed(nicks'[ch][lid]))
  <1>0. Calling(c) /\ Running(c)
    BY DEF JoinChannel, Join, Calling
  <1>1. n \in Nick /\ lid \in Lease
    BY <1>0, CallerTypes
  <1>2. CASE userCtl' = userCtl
    <2>1. UNCHANGED log
      BY <1>2 DEF JoinChannel, NothingSent
    <2>2. ~JoinTxn(n, ch, lid)
      <3>1. userCtl[n] \in UserValue
        BY <1>1 DEF TypeOK
      <3>2. addChannel(userCtl[n], ch, lid).Channels[ch] # userCtl[n].Channels[ch]
        BY <3>1 DEF addChannel, UserValue
      <3> QED
        BY <1>1, <1>2, <3>2 DEF JoinTxn, TypeOK
    <2>3. UNCHANGED <<nickKeys, nicks>>
      BY <2>2 DEF JoinChannel, Join, etcdVars
    <2> QED
      BY <2>1, <2>3, NothingToTell
  <1>3. CASE userCtl' # userCtl
    <2>1. JoinTxn(n, ch, lid)
      BY <1>3 DEF JoinChannel, Join, etcdVars
    <2>2. Commit(ch, r)
      BY <1>3 DEF JoinChannel
    <2>3. r \in Revision /\ r.list = lid /\ r.nicks = Listed(nicks'[ch][lid])
      <3>1. Msg("JOIN", n) \in Message
        BY <1>1, MessageTypes
      <3>2. Listed(nicks'[ch][lid]) \in SUBSET Nick
        BY DEF Listed
      <3> QED
        BY <1>1, <3>1, <3>2, RevisionTypes DEF PutRev
    <2>4. /\ \A d \in Chan : d # ch => nickKeys'[d] = nickKeys[d] /\ nicks'[d] = nicks[d]
          /\ \A l \in Lease : l # lid =>
                (l \in nickKeys'[ch] <=> l \in nickKeys[ch]) /\ nicks'[ch][l] = nicks[ch][l]
          /\ lid \in nickKeys'[ch]
      BY <1>1, <2>1 DEF JoinTxn, TypeOK
    <2> HIDE DEF r
    <2> QED
      BY <2>2, <2>3, <2>4, OneChannel
  <1> QED
    BY <1>2, <1>3

(* What a part, by oneself or by a kick, does to the lists.                *)
LEMMA PartLists ==
    ASSUME TypeOK, NEW n \in Nick, NEW ch \in Chan, NEW lid \in Lease, PartTxn(n, ch, lid)
    PROVE  /\ \A d \in Chan : d # ch => nickKeys'[d] = nickKeys[d] /\ nicks'[d] = nicks[d]
           /\ nickKeys' = nickKeys
           /\ \A l \in Lease : l # lid => nicks'[ch][l] = nicks[ch][l]
           /\ lid \notin nickKeys[ch] => nicks' = nicks
  BY DEF PartTxn, TypeOK

(* A part tells the list it shortens, if there is one.                     *)
LEMMA PartTold ==
    ASSUME TypeOK, LogInv, NEW c \in Conn, NEW ch \in Chan, PartChannel(c, ch)
    PROVE  ToldStep
  <1> DEFINE n   == client[c].nick
             lid == client[c].lid
             l0  == IF lid \in nickKeys[ch] THEN lid ELSE NoLease
             r   == PutRev(ch, Msg("PART", n), l0, Listed(nicks'[ch][lid]))
  <1>0. Calling(c) /\ Running(c)
    BY DEF PartChannel, Part, Calling
  <1>1. n \in Nick /\ lid \in Lease
    BY <1>0, CallerTypes
  <1>2. CASE userCtl' = userCtl
    <2>1. UNCHANGED log
      BY <1>2 DEF PartChannel, NothingSent
    <2>2. ~(OnChannel(n, ch) /\ PartTxn(n, ch, lid))
      <3>1. userCtl[n] \in UserValue
        BY <1>1 DEF TypeOK
      <3>2. OnChannel(n, ch) => part(userCtl[n], ch).Channels[ch] # userCtl[n].Channels[ch]
        BY <3>1 DEF part, UserValue, OnChannel
      <3> QED
        BY <1>1, <1>2, <3>2 DEF PartTxn, TypeOK
    <2>3. UNCHANGED <<nickKeys, nicks>>
      BY <2>2 DEF PartChannel, Part, etcdVars
    <2> QED
      BY <2>1, <2>3, NothingToTell
  <1>3. CASE userCtl' # userCtl
    <2>1. PartTxn(n, ch, lid)
      BY <1>3 DEF PartChannel, Part, etcdVars
    <2>2. Commit(ch, r)
      BY <1>3 DEF PartChannel
    <2>3. r \in Revision /\ r.list = l0 /\ r.nicks = Listed(nicks'[ch][lid])
      <3>1. Msg("PART", n) \in Message
        BY <1>1, MessageTypes
      <3>2. Listed(nicks'[ch][lid]) \in SUBSET Nick
        BY DEF Listed
      <3>3. l0 \in Lease \cup {NoLease}
        BY <1>1
      <3> QED
        BY <3>1, <3>2, <3>3, RevisionTypes DEF PutRev
    <2> HIDE DEF r
    <2> QED
      BY <1>1, <2>1, <2>2, <2>3, PartLists, OneChannel
  <1> QED
    BY <1>2, <1>3

(* A kick tells the list of the kicked user.                               *)
LEMMA KickTold ==
    ASSUME TypeOK, LogInv, NEW c \in Conn, NEW ch \in Chan, NEW m \in Nick, KickUser(c, ch, m)
    PROVE  ToldStep
  <1> DEFINE n   == client[c].nick
             lid == userCtl[m].Lease
             r   == PutRev(ch, KickMsg(n, m), lid, Listed(nicks'[ch][lid]))
  <1>0. Running(c)
    BY DEF KickUser, kick, Calling
  <1>1. n \in Nick
    BY <1>0, CallerTypes
  <1>2. CASE userCtl' = userCtl
    <2>1. UNCHANGED log
      BY <1>2 DEF KickUser, NothingSent
    <2>2. ~(OnChannel(m, ch) /\ PartTxn(m, ch, lid))
      <3>1. userCtl[m] \in UserValue
        BY DEF TypeOK
      <3>2. OnChannel(m, ch) => part(userCtl[m], ch).Channels[ch] # userCtl[m].Channels[ch]
        BY <3>1 DEF part, UserValue, OnChannel
      <3> QED
        BY <1>2, <3>2 DEF PartTxn, TypeOK
    <2>3. UNCHANGED <<nickKeys, nicks>>
      BY <2>2 DEF KickUser, kick, etcdVars
    <2> QED
      BY <2>1, <2>3, NothingToTell
  <1>3. CASE userCtl' # userCtl
    <2>1. PartTxn(m, ch, lid) /\ lid \in nickKeys[ch]
      BY <1>3 DEF KickUser, kick, etcdVars
    <2>2. Commit(ch, r)
      BY <1>3 DEF KickUser
    <2>3. lid \in Lease
      BY <2>1, SMTT(60) DEF TypeOK
    <2>4. r \in Revision /\ r.list = lid /\ r.nicks = Listed(nicks'[ch][lid])
      <3>1. KickMsg(n, m) \in Message
        BY <1>1 DEF KickMsg, Message
      <3>2. Listed(nicks'[ch][lid]) \in SUBSET Nick
        BY DEF Listed
      <3> QED
        BY <2>3, <3>1, <3>2, RevisionTypes, SMTT(60) DEF PutRev
    <2> HIDE DEF r
    <2> QED
      BY <2>1, <2>2, <2>3, <2>4, PartLists, OneChannel
  <1> QED
    BY <1>2, <1>3

(* Removing no entry of a user leaves a list as it is.                     *)
LEMMA DelNone ==
    ASSUME NEW cns \in ChannelNicks, NEW n \in Nick
    PROVE  del(n, 0, cns) = cns
  <1>1. cns = [m \in Nick |-> cns[m]] /\ cns[n] \in Seq(NickMode)
    BY DEF ChannelNicks
  <1>2. SubSeq(cns[n], 0 + 1, Len(cns[n])) = cns[n]
    <2> DEFINE q == cns[n]
    <2>1. q \in Seq(NickMode)
      BY <1>1
    <2> HIDE DEF q
    <2>2. SubSeq(q, 0 + 1, Len(q)) = q
      BY <2>1
    <2> QED
      BY <2>2 DEF q
  <1>3. [cns EXCEPT ![n] = cns[n]] = cns
    BY <1>1
  <1> QED
    BY <1>2, <1>3 DEF del

(* A quit tells every list it shortens.                                    *)
LEMMA QuitTold ==
    ASSUME TypeOK, LogInv, NEW c \in Conn, QuitUser(c)
    PROVE  ToldStep
  <1> DEFINE n   == client[c].nick
             lid == client[c].lid
             r(d) == PutRev(d, Msg("QUIT", n), lid, Listed(nicks'[d][lid]))
  <1>0. Calling(c) /\ Running(c)
    BY DEF QuitUser, Quit, Calling
  <1>1. n \in Nick /\ lid \in Lease
    BY <1>0, CallerTypes
  <1>2. CASE UNCHANGED etcdVars
    <2>1. UNCHANGED log
      BY <1>2 DEF QuitUser, etcdVars
    <2> QED
      BY <1>2, <2>1, NothingToTell DEF etcdVars
  <1>3. CASE QuitTxn(n, lid) /\ Exists(n)
    <2>1. userCtl' # userCtl
      BY <1>1, <1>3 DEF QuitTxn, TypeOK, Exists, NoUser, NewUser
    <2>2. log' = [ch \in Chan |-> IF OnChannel(n, ch) /\ lid \in nickKeys[ch]
                                  THEN Append(log[ch], r(ch)) ELSE log[ch]]
      BY <2>1 DEF QuitUser
    <2>3. ASSUME NEW d \in Chan
          PROVE  Told(d)
      <3>1. /\ nickKeys'[d] = nickKeys[d]
            /\ \A l \in Lease : l # lid => nicks'[d][l] = nicks[d][l]
            /\ lid \notin nickKeys[d] => nicks'[d] = nicks[d]
        BY <1>1, <1>3, SMTT(60) DEF QuitTxn, TypeOK
      <3>2. CASE OnChannel(n, d) /\ lid \in nickKeys[d]
        <4>1. Listed(nicks'[d][lid]) \in SUBSET Nick
          BY DEF Listed
        <4>2. r(d) \in Revision
          BY <1>1, <4>1, MessageTypes, RevisionTypes, Zenon
        <4>3. r(d).list = lid /\ r(d).nicks = Listed(nicks'[d][lid])
          BY DEF PutRev
        <4>4. log'[d] = Append(log[d], r(d))
          BY <2>2, <3>2
        <4> HIDE DEF r
        <4> QED
          BY <1>1, <3>1, <3>2, <4>2, <4>3, <4>4 DEF Told
      <3>3. CASE ~(OnChannel(n, d) /\ lid \in nickKeys[d])
        <4>1. log'[d] = log[d]
          BY <2>2, <3>3
        <4>2. lid \in nickKeys[d] => nicks'[d][lid] = nicks[d][lid]
          <5> SUFFICES ASSUME lid \in nickKeys[d] PROVE nicks'[d][lid] = nicks[d][lid]
            OBVIOUS
          <5>1. userCtl[n].Channels[d] = 0
            BY <1>1, <3>3, SMTT(60) DEF OnChannel, TypeOK, UserValue
          <5>2. nicks'[d][lid] = del(n, 0, nicks[d][lid])
            BY <1>1, <1>3, <5>1 DEF QuitTxn, TypeOK
          <5>3. nicks[d][lid] \in ChannelNicks
            BY <1>1 DEF TypeOK
          <5> QED
            BY <1>1, <5>2, <5>3, DelNone
        <4> QED
          BY <3>1, <4>1, <4>2 DEF Told, TypeOK
      <3> QED
        BY <3>2, <3>3, SMTT(60)
    <2> QED
      BY <2>2, <2>3 DEF ToldStep
  <1> QED
    BY <1>2, <1>3 DEF QuitUser, Quit

(* The expiry of a lease tells every list it deletes.                      *)
LEMMA ExpireTold ==
    ASSUME TypeOK, LogInv, NEW l \in Lease, Expire(l)
    PROVE  ToldStep
  <1> DEFINE r(d) == DeleteRev(d, l, Listed(nicks[d][l]))
  <1>1. log' = [ch \in Chan |-> IF l \in nickKeys[ch] THEN Append(log[ch], r(ch)) ELSE log[ch]]
    BY DEF Expire
  <1>2. ASSUME NEW d \in Chan
        PROVE  Told(d)
    <2>1. /\ nickKeys'[d] = nickKeys[d] \ {l}
          /\ \A k \in Lease : k # l => nicks'[d][k] = nicks[d][k]
      BY DEF Expire, LeaseExpire, TypeOK
    <2>2. CASE l \in nickKeys[d]
      <3>1. Listed(nicks[d][l]) \in SUBSET Nick
        BY DEF Listed
      <3>2. r(d) \in Revision /\ r(d).list = l /\ r(d).op = "delete"
        BY <3>1, RevisionTypes DEF DeleteRev
      <3>3. log'[d] = Append(log[d], r(d))
        BY <1>1, <2>2
      <3> HIDE DEF r
      <3> QED
        BY <2>1, <3>2, <3>3 DEF Told
    <2>3. CASE l \notin nickKeys[d]
      BY <1>1, <2>1, <2>3 DEF Told, TypeOK
    <2> QED
      BY <2>2, <2>3
  <1> QED
    BY <1>1, <1>2 DEF ToldStep

-----------------------------------------------------------------------------
(***************************************************************************)
(* Types of the monitors.                                                  *)
(***************************************************************************)
MonTyped == mon \in [Conn -> Monitors]

(* Replacing a watch keeps the watches typed.                              *)
LEMMA WatchTypes ==
    ASSUME NEW ws \in Seq(Watch), NEW k \in Nat
    PROVE  /\ \A p \in Nat : /\ [ws EXCEPT ![k].msg = p] \in Seq(Watch)
                             /\ [ws EXCEPT ![k].part = p] \in Seq(Watch)
           /\ Cancelled(ws, k) \in Seq(Watch)
  <1>1. DOMAIN ws = 1 .. Len(ws) /\ Len(ws) \in Nat
    OBVIOUS
  <1>2. \A i \in 1 .. Len(ws) : ws[i] \in Watch
    OBVIOUS
  <1>3. ASSUME NEW v \in Watch
        PROVE  [ws EXCEPT ![k] = v] \in Seq(Watch)
    <2> DEFINE f == [ws EXCEPT ![k] = v]
    <2>1. f \in [1 .. Len(ws) -> Watch]
      BY <1>1, <1>2, <1>3, Zenon
    <2> HIDE DEF f
    <2>2. f \in Seq(Watch)
      BY <1>1, <2>1, SeqDef
    <2> QED
      BY <2>2 DEF f
  <1>4. CASE k \in DOMAIN ws
    <2>1. \A p \in Nat : [ws[k] EXCEPT !.msg = p] \in Watch /\ [ws[k] EXCEPT !.part = p] \in Watch
      BY <1>1, <1>2, <1>4 DEF Watch
    <2>2. [ws[k] EXCEPT !.live = FALSE] \in Watch
      BY <1>1, <1>2, <1>4, Zenon DEF Watch
    <2> QED
      BY <1>3, <2>1, <2>2 DEF Cancelled
  <1>5. CASE k \notin DOMAIN ws
    <2>1. \A p \in Nat : [ws EXCEPT ![k].msg = p] = ws /\ [ws EXCEPT ![k].part = p] = ws
      BY <1>1, <1>5
    <2>2. Cancelled(ws, k) = ws
      BY <1>1, <1>5 DEF Cancelled
    <2> QED
      BY <2>1, <2>2, ZenonT(60)
  <1> QED
    BY <1>4, <1>5

(* The revisions the two monitors read are revisions of the channel.       *)
LEMMA NextTypes ==
    ASSUME LogTyped, NEW ch \in Chan, NEW p, NEW i \in NextMsg(ch, p) \cup NextList(ch, p)
    PROVE  i \in Nat /\ i \in DOMAIN log[ch] /\ log[ch][i] \in Revision
  BY DEF LogTyped, NextMsg, NextList

(* Every step keeps the monitors typed.                                    *)
LEMMA MonStep == LogTyped /\ MonTyped /\ [DNext]_dvars => MonTyped'
  <1> SUFFICES ASSUME LogTyped, MonTyped, [DNext]_dvars PROVE MonTyped'
    OBVIOUS
  <1>0. ASSUME NEW c \in Conn, NEW v \in Monitors, mon' = [mon EXCEPT ![c] = v]
        PROVE  MonTyped'
    BY <1>0 DEF MonTyped
  <1>1. CASE UNCHANGED mon
    BY <1>1 DEF MonTyped
  <1>2. CASE mon' = Kept
    <2>1. NoMonitors \in Monitors
      BY DEF NoMonitors, Monitors, NoJoin, Joining
    <2> QED
      BY <1>2, <2>1 DEF MonTyped, Kept
  <1>3. ASSUME NEW c \in Conn, NEW ch \in Chan, JoinChannel(c, ch), ~(mon' = Kept)
        PROVE  MonTyped'
    <2> DEFINE j == [ch    |-> ch,
                     rev   |-> Len(log[ch]) + 1,
                     nicks |-> UNION {Listed(nicks'[ch][l]) : l \in Lease}]
    <2>1. mon' = [mon EXCEPT ![c].joining = j]
      BY <1>3 DEF JoinChannel, NothingSent
    <2>2. j \in Joining
      <3>1. Len(log[ch]) + 1 \in Nat
        BY DEF LogTyped
      <3>2. UNION {Listed(nicks'[ch][l]) : l \in Lease} \in SUBSET Nick
        BY DEF Listed
      <3> QED
        BY <3>1, <3>2 DEF Joining
    <2> HIDE DEF j
    <2>3. [mon[c] EXCEPT !.joining = j] \in Monitors
      BY <2>2, Zenon DEF MonTyped, Monitors
    <2> QED
      BY <1>0, <2>1, <2>3, Zenon
  <1>4. ASSUME NEW c \in Conn, names(c), ~(mon' = Kept)
        PROVE  MonTyped'
    <2> DEFINE j  == mon[c].joining
               ws == mon[c].watches
               w  == [ch |-> j.ch, msg |-> FirstRev(j.rev), part |-> FirstRev(j.rev), live |-> TRUE]
               v  == [mon[c] EXCEPT !.joining = NoJoin, !.watches = Append(ws, w),
                                    !.chCancel[j.ch] = Len(ws) + 1]
    <2>1. mon' = [mon EXCEPT ![c] = v]
      BY <1>4 DEF names, NothingSent
    <2>2. mon[c] \in Monitors /\ j \in Joining /\ j # NoJoin
      BY <1>4 DEF MonTyped, Monitors, names, Idle
    <2>3. w \in Watch
      BY <2>2 DEF Joining, Watch, FirstRev
    <2> HIDE DEF w
    <2>4. Append(ws, w) \in Seq(Watch) /\ Len(ws) + 1 \in Nat
      BY <2>2, <2>3 DEF Monitors
    <2>5. v \in Monitors
      BY <2>2, <2>4, Zenon DEF Monitors, Joining
    <2> HIDE DEF v
    <2> QED
      BY <1>0, <2>1, <2>5, Zenon
  <1>5. ASSUME NEW c \in Conn, NEW k \in 1..MaxLog, monitorMsg(c, k)
        PROVE  MonTyped'
    <2> DEFINE w == mon[c].watches[k]
               n == client[c].nick
    <2>1. mon[c] \in Monitors /\ k \in DOMAIN mon[c].watches /\ k \in Nat
      <3>1. mon[c] \in Monitors
        BY DEF MonTyped
      <3>2. k \in DOMAIN mon[c].watches
        BY <1>5, Zenon DEF monitorMsg
      <3>3. k \in Nat
        BY DeliveryBounds
      <3> QED
        BY <3>1, <3>2, <3>3
    <2>2. w.ch \in Chan
      <3>1. mon[c].watches \in Seq(Watch)
        BY <2>1 DEF Monitors
      <3>2. mon[c].watches[k] \in Watch
        BY <2>1, <3>1, SMTT(60)
      <3> QED
        BY <3>2 DEF Watch
    <2>3. PICK i \in NextMsg(w.ch, w.msg) :
            \/ mon' = [mon EXCEPT ![c].watches[k].msg = i + 1]
            \/ mon' = [mon EXCEPT ![c] = [mon[c] EXCEPT !.watches[k].msg = i + 1,
                                                        !.seen[w.ch] = Append(@, i)]]
            \/ mon' = [mon EXCEPT ![c] =
                   [mon[c] EXCEPT !.watches = Cancelled([mon[c].watches EXCEPT ![k].msg = 0],
                                                        mon[c].chCancel[w.ch]),
                                  !.chCancel[w.ch] = 0,
                                  !.seen[w.ch] = Append(@, i)]]
      BY <1>5, Zenon DEF monitorMsg
    <2>4. i \in Nat /\ i + 1 \in Nat
      BY <2>2, NextTypes
    <2> DEFINE ws1 == [mon[c].watches EXCEPT ![k].msg = i + 1]
               ws0 == [mon[c].watches EXCEPT ![k].msg = 0]
               ws2 == Cancelled(ws0, mon[c].chCancel[w.ch])
               sn  == Append(mon[c].seen[w.ch], i)
    <2>5. ws1 \in Seq(Watch) /\ ws0 \in Seq(Watch)
      BY <2>1, <2>4, WatchTypes, Zenon DEF Monitors
    <2>6. ws2 \in Seq(Watch)
      BY <2>1, <2>2, <2>5, WatchTypes, Zenon DEF Monitors
    <2>7. sn \in Seq(Nat)
      BY <2>1, <2>2, <2>4 DEF Monitors
    <2>8. \/ mon' = [mon EXCEPT ![c] = [mon[c] EXCEPT !.watches = ws1]]
          \/ mon' = [mon EXCEPT ![c] = [mon[c] EXCEPT !.watches = ws1, !.seen[w.ch] = sn]]
          \/ mon' = [mon EXCEPT ![c] = [mon[c] EXCEPT !.watches = ws2, !.chCancel[w.ch] = 0,
                                                      !.seen[w.ch] = sn]]
      <3>1. c \in DOMAIN mon
        BY DEF MonTyped
      <3>2. CASE mon' = [mon EXCEPT ![c].watches[k].msg = i + 1]
        BY <3>1, <3>2
      <3> DEFINE M == mon[c]
      <3>3. M \in Monitors
        BY <2>1
      <3> HIDE DEF M
      <3>4. /\ [M EXCEPT !.watches[k].msg = i + 1, !.seen[w.ch] = Append(@, i)]
                 = [M EXCEPT !.watches = [M.watches EXCEPT ![k].msg = i + 1],
                             !.seen[w.ch] = Append(M.seen[w.ch], i)]
            /\ \A ws : [M EXCEPT !.watches = ws, !.chCancel[w.ch] = 0, !.seen[w.ch] = Append(@, i)]
                 = [M EXCEPT !.watches = ws, !.chCancel[w.ch] = 0,
                             !.seen[w.ch] = Append(M.seen[w.ch], i)]
        BY <2>2, <3>3 DEF Monitors
      <3> QED
        BY <2>3, <3>2, <3>4, Zenon DEF M
    <2> HIDE DEF w, n, ws1, ws0, ws2, sn
    <2>9. /\ [mon[c] EXCEPT !.watches = ws1] \in Monitors
          /\ [mon[c] EXCEPT !.watches = ws1, !.seen[w.ch] = sn] \in Monitors
          /\ [mon[c] EXCEPT !.watches = ws2, !.chCancel[w.ch] = 0, !.seen[w.ch] = sn] \in Monitors
      BY <2>1, <2>2, <2>5, <2>6, <2>7, ZenonT(60) DEF Monitors
    <2> QED
      BY <1>0, <2>8, <2>9
  <1>6. ASSUME NEW c \in Conn, NEW k \in 1..MaxLog, monitorPart(c, k), ~(mon' = Kept)
        PROVE  MonTyped'
    <2> DEFINE w == mon[c].watches[k]
    <2>1. mon[c] \in Monitors /\ k \in DOMAIN mon[c].watches /\ k \in Nat
      <3>1. mon[c] \in Monitors
        BY DEF MonTyped
      <3>2. k \in DOMAIN mon[c].watches
        BY <1>6, Zenon DEF monitorPart
      <3>3. k \in Nat
        BY DeliveryBounds
      <3> QED
        BY <3>1, <3>2, <3>3
    <2>2. w.ch \in Chan
      <3>1. mon[c].watches \in Seq(Watch)
        BY <2>1 DEF Monitors
      <3>2. mon[c].watches[k] \in Watch
        BY <2>1, <3>1
      <3> QED
        BY <3>2 DEF Watch
    <2>3. PICK i \in NextList(w.ch, w.part) :
            \/ mon' = [mon EXCEPT ![c].watches[k].part = i + 1]
            \/ mon' = [mon EXCEPT ![c] = [mon[c] EXCEPT !.watches[k].part = i + 1,
                                                        !.told[w.ch] = Reported(@, i)]]
      BY <1>6, Zenon DEF monitorPart, NothingSent
    <2>4. i \in Nat /\ i + 1 \in Nat
      BY <2>2, NextTypes
    <2> DEFINE ws1 == [mon[c].watches EXCEPT ![k].part = i + 1]
               td  == Reported(mon[c].told[w.ch], i)
    <2>5. ws1 \in Seq(Watch)
      BY <2>1, <2>4, WatchTypes, Zenon DEF Monitors
    <2>6. td \in SUBSET Nat
      BY <2>1, <2>2, <2>4 DEF Monitors, Reported
    <2>7. \/ mon' = [mon EXCEPT ![c] = [mon[c] EXCEPT !.watches = ws1]]
          \/ mon' = [mon EXCEPT ![c] = [mon[c] EXCEPT !.watches = ws1, !.told[w.ch] = td]]
      <3>1. c \in DOMAIN mon
        BY DEF MonTyped
      <3>2. CASE mon' = [mon EXCEPT ![c].watches[k].part = i + 1]
        BY <3>1, <3>2
      <3> DEFINE M == mon[c]
      <3>3. M \in Monitors
        BY <2>1
      <3> HIDE DEF M
      <3>4. [M EXCEPT !.watches[k].part = i + 1, !.told[w.ch] = Reported(@, i)]
              = [M EXCEPT !.watches = [M.watches EXCEPT ![k].part = i + 1],
                          !.told[w.ch] = Reported(M.told[w.ch], i)]
        BY <2>2, <3>3 DEF Monitors
      <3> QED
        BY <2>3, <3>2, <3>4, Zenon DEF M
    <2> HIDE DEF w, ws1, td
    <2>8. /\ [mon[c] EXCEPT !.watches = ws1] \in Monitors
          /\ [mon[c] EXCEPT !.watches = ws1, !.told[w.ch] = td] \in Monitors
      BY <2>1, <2>2, <2>5, <2>6, Zenon DEF Monitors
    <2> QED
      BY <1>0, <2>7, <2>8
  <1>7. ASSUME NEW c \in Conn, NEW k \in 1..MaxLog, WatchCloses(c, k)
        PROVE  MonTyped'
    <2>1. mon[c] \in Monitors /\ k \in Nat
      BY DeliveryBounds DEF MonTyped
    <2> DEFINE ws1 == [mon[c].watches EXCEPT ![k].msg = 0]
               ws2 == [mon[c].watches EXCEPT ![k].part = 0]
    <2>2. ws1 \in Seq(Watch) /\ ws2 \in Seq(Watch)
      BY <2>1, WatchTypes, Zenon DEF Monitors
    <2>3. \/ mon' = [mon EXCEPT ![c] = [mon[c] EXCEPT !.watches = ws1]]
          \/ mon' = [mon EXCEPT ![c] = [mon[c] EXCEPT !.watches = ws2]]
      BY <1>7, <2>1 DEF WatchCloses, MonTyped, Monitors
    <2> HIDE DEF ws1, ws2
    <2>4. [mon[c] EXCEPT !.watches = ws1] \in Monitors /\ [mon[c] EXCEPT !.watches = ws2] \in Monitors
      BY <2>1, <2>2, ZenonT(60) DEF Monitors
    <2> QED
      BY <1>0, <2>3, <2>4
  <1>8. CASE UNCHANGED dvars
    BY <1>1, <1>8 DEF dvars
  <1> QED
    BY <1>1, <1>2, <1>3, <1>4, <1>5, <1>6, <1>7, <1>8
       DEF DNext, Background, Expire, Fetch, PartChannel, KickUser, QuitUser,
           privMsgChan, Topic, NothingSent

-----------------------------------------------------------------------------
(***************************************************************************)
(* Steps of Delivery are steps of Membership.                              *)
(***************************************************************************)

(* An event that shows an empty list, and is the last of that list, shows  *)
(* the list as it is: what monitorPart deletes is empty.                   *)
LEMMA DeletesEmpty ==
    ASSUME TypeOK, LogInv, NEW ch \in Chan, NEW p, NEW i \in NextList(ch, p),
           log[ch][i].op = "put", log[ch][i].nicks = {}, Unmodified(ch, i)
    PROVE  /\ log[ch][i].list \in Lease
           /\ log[ch][i].list \in nickKeys[ch]
           /\ nicks[ch][log[ch][i].list] = NoNicks
  <1> DEFINE l == log[ch][i].list
  <1>1. i \in DOMAIN log[ch] /\ log[ch][i] \in Revision /\ l # NoLease
    BY NextTypes DEF LogInv, NextList
  <1>2. l \in Lease
    BY <1>1, SMTT(60) DEF Revision
  <1>3. l \in nickKeys[ch] /\ Listed(nicks[ch][l]) = {}
    BY <1>1, SMTT(60) DEF LogInv, TellsList, Unmodified
  <1>4. nicks[ch][l] \in ChannelNicks
    BY <1>2, SMTT(60) DEF TypeOK
  <1>5. \A n \in Nick : nicks[ch][l][n] = <<>>
    BY <1>3, SMTT(60) DEF Listed
  <1>6. nicks[ch][l] = NoNicks
    BY <1>4, <1>5, ZenonT(60) DEF ChannelNicks, NoNicks
  <1> QED
    BY <1>2, <1>3, <1>6

(* So its deletion is Membership's, and is told.                           *)
LEMMA PartMonitorStep ==
    ASSUME TypeOK, LogInv, MonTyped, NEW c \in Conn, NEW k \in 1..MaxLog, monitorPart(c, k)
    PROVE  [Next]_vars /\ ToldStep
  <1> DEFINE w == mon[c].watches[k]
             s == client[c].srv
  <1>1. w.ch \in Chan
    <2>1. mon[c].watches \in Seq(Watch)
      BY SMTT(60) DEF MonTyped, Monitors
    <2>2. k \in DOMAIN mon[c].watches
      BY Zenon DEF monitorPart
    <2>3. w \in Watch
      BY <2>1, <2>2, SMTT(60)
    <2> QED
      BY <2>3 DEF Watch
  <1>2. PICK i \in NextList(w.ch, w.part) :
          LET r == log[w.ch][i] IN
          \/ UNCHANGED <<vars, log>>
          \/ /\ r.op = "put" /\ r.nicks = {} /\ r.list = ses[s]
             /\ Unmodified(w.ch, i)
             /\ nickKeys' = [nickKeys EXCEPT ![w.ch] = @ \ {r.list}]
             /\ nicks' = [nicks EXCEPT ![w.ch][r.list] = NoNicks]
             /\ Commit(w.ch, DeleteRev(w.ch, r.list, {}))
             /\ UNCHANGED <<sesVars, client, userCtl, userMsg, chans>>
          \/ Crash(s) /\ UNCHANGED log
    BY ZenonT(60) DEF monitorPart, NothingSent
  <1> DEFINE l == log[w.ch][i].list
  <1>3. CASE UNCHANGED <<vars, log>>
    BY <1>3, NothingToTell DEF vars
  <1>4. CASE /\ log[w.ch][i].op = "put" /\ log[w.ch][i].nicks = {} /\ l = ses[s]
             /\ Unmodified(w.ch, i)
             /\ nickKeys' = [nickKeys EXCEPT ![w.ch] = @ \ {l}]
             /\ nicks' = [nicks EXCEPT ![w.ch][l] = NoNicks]
             /\ Commit(w.ch, DeleteRev(w.ch, l, {}))
             /\ UNCHANGED <<sesVars, client, userCtl, userMsg, chans>>
    <2>1. l \in Lease /\ l \in nickKeys[w.ch] /\ nicks[w.ch][l] = NoNicks
      BY <1>1, <1>4, DeletesEmpty, ZenonT(60)
    <2>2. nicks' = nicks
      BY <1>1, <1>4, <2>1, ZenonT(60) DEF TypeOK
    <2>3. CleanNicks(c, w.ch)
      BY <1>4, <2>1, <2>2, ZenonT(60) DEF CleanNicks, monitorPart
    <2> DEFINE r == DeleteRev(w.ch, l, {})
    <2>4. r \in Revision /\ r.list = l /\ r.op = "delete"
      BY <1>1, <2>1, RevisionTypes, ZenonT(60) DEF DeleteRev
    <2>5. /\ \A d \in Chan : d # w.ch => nickKeys'[d] = nickKeys[d]
          /\ nickKeys'[w.ch] = nickKeys[w.ch] \ {l}
      BY <1>1, <1>4, ZenonT(60) DEF TypeOK
    <2>6. Commit(w.ch, r)
      BY <1>4, ZenonT(60)
    <2> HIDE DEF r, w, l
    <2>7. ToldStep
      BY <1>1, <2>2, <2>4, <2>5, <2>6, OneChannel, SMTT(60)
    <2> QED
      BY <1>1, <2>3, <2>7, SMTT(60) DEF Next
  <1>5. CASE Crash(s) /\ UNCHANGED log
    <2>1. s \in Server
      <3>1. client[c] \in Client
        BY SMTT(60) DEF TypeOK
      <3> QED
        BY <3>1, ZenonT(60) DEF Client, monitorPart, Running
    <2>2. UNCHANGED <<nickKeys, nicks>>
      BY <1>5 DEF Crash, etcdVars
    <2> QED
      BY <1>5, <2>1, <2>2, NothingToTell, SMTT(60) DEF Next
  <1> QED
    BY <1>2, <1>3, <1>4, <1>5, Zenon

(* Every step of Delivery is a step of Membership or leaves its variables  *)
(* alone, and tells what it does to the lists.                             *)
LEMMA DeliveryStep ==
    TypeOK /\ LogInv /\ MonTyped /\ [DNext]_dvars => [Next]_vars /\ ToldStep
  <1> SUFFICES ASSUME TypeOK, LogInv, MonTyped, [DNext]_dvars
               PROVE  [Next]_vars /\ ToldStep
    OBVIOUS
  <1>1. CASE Background
    <2>1. Next
      BY <1>1 DEF Background, Next
    <2>2. UNCHANGED log
      BY <1>1 DEF Background, NothingSent
    <2>3. CASE UNCHANGED <<nickKeys, nicks>>
      BY <2>1, <2>2, <2>3, NothingToTell
    <2> QED
      BY <1>1, <2>3, ZenonT(60) DEF Background, NewSession, SessionDone, Crash, Accept, newEtcdClient,
                        RegisterTxn, Disconnect, Evict, etcdVars
  <1>2. ASSUME NEW l \in Lease, Expire(l)
        PROVE  [Next]_vars /\ ToldStep
    BY <1>2, ExpireTold, Zenon DEF Expire, Next
  <1>3. ASSUME NEW c \in Conn, Fetch(c)
        PROVE  [Next]_vars /\ ToldStep
    <2>1. Session(c) /\ UNCHANGED <<log, nickKeys, nicks>>
      BY <1>3 DEF Fetch, Session, etcdVars
    <2> QED
      BY <2>1, NothingToTell DEF Next
  <1>4. ASSUME NEW c \in Conn, NEW ch \in Chan,
               \/ JoinChannel(c, ch)
               \/ PartChannel(c, ch)
               \/ \E m \in Nick : KickUser(c, ch, m)
        PROVE  [Next]_vars /\ ToldStep
    <2>1. Next
      BY <1>4 DEF JoinChannel, PartChannel, KickUser, Next
    <2> QED
      BY <1>4, <2>1, JoinTold, PartTold, KickTold
  <1>5. ASSUME NEW c \in Conn, NEW ch \in Chan, privMsgChan(c, ch) \/ Topic(c, ch)
        PROVE  [Next]_vars /\ ToldStep
    <2>1. UNCHANGED vars
      BY <1>5, SMTT(60) DEF privMsgChan, Topic, vars
    <2> QED
      BY <1>5, <2>1, SendTold, SMTT(60)
  <1>6. ASSUME NEW c \in Conn, QuitUser(c)
        PROVE  [Next]_vars /\ ToldStep
    BY <1>6, QuitTold DEF QuitUser, Next
  <1>7. ASSUME NEW c \in Conn, names(c)
        PROVE  [Next]_vars /\ ToldStep
    <2>1. CASE UNCHANGED <<vars, log>>
      BY <2>1, NothingToTell DEF vars
    <2>2. CASE Crash(client[c].srv) /\ UNCHANGED log
      <3>1. client[c] \in Client /\ Running(c)
        BY <1>7 DEF TypeOK, names
      <3>2. client[c].srv \in Server
        BY <3>1 DEF Client, Running
      <3>3. UNCHANGED <<nickKeys, nicks>>
        BY <2>2 DEF Crash, etcdVars
      <3> QED
        BY <2>2, <3>2, <3>3, NothingToTell DEF Next
    <2> QED
      BY <1>7, <2>1, <2>2 DEF names, NothingSent
  <1>8. ASSUME NEW c \in Conn, NEW k \in 1..MaxLog,
               monitorMsg(c, k) \/ monitorPart(c, k) \/ WatchCloses(c, k)
        PROVE  [Next]_vars /\ ToldStep
    <2>1. CASE UNCHANGED <<vars, log>>
      BY <2>1, NothingToTell, SMTT(60) DEF vars
    <2>2. monitorMsg(c, k) \/ WatchCloses(c, k) => UNCHANGED <<vars, log>>
      BY Zenon DEF monitorMsg, WatchCloses
    <2> QED
      BY <1>8, <2>1, <2>2, PartMonitorStep
  <1>9. CASE UNCHANGED dvars
    BY <1>9, NothingToTell, SMTT(60) DEF dvars, vars
  <1> QED
    BY <1>1, <1>2, <1>3, <1>4, <1>5, <1>6, <1>7, <1>8, <1>9, SMTT(60) DEF DNext

-----------------------------------------------------------------------------
DInv == TypeOK /\ LogInv /\ MonTyped

(* The step that every theorem below combines.                             *)
LEMMA DStep == DInv /\ [DNext]_dvars => DInv' /\ [Next]_vars
  BY DeliveryStep, TypeStep, ToldKeeps, MonStep DEF DInv, LogInv

LEMMA DStart == DInit => DInv /\ Init
  <1> SUFFICES ASSUME DInit PROVE DInv
    BY DEF DInit
  <1>1. TypeOK
    BY TypeInit DEF DInit
  <1>2. LogInv
    BY SMTT(60) DEF DInit, LogInv, LogTyped, TellsList
  <1>3. MonTyped
    BY DEF DInit, MonTyped, NoMonitors, Monitors, NoJoin, Joining
  <1> QED
    BY <1>1, <1>2, <1>3 DEF DInv

(* Every history and every monitor of Delivery has its type, whatever the  *)
(* numbers of servers, connections, nicks, channels and leases: a watch is *)
(* on a channel, and no join is half remembered.                           *)
THEOREM DeliveryTypeCorrect == DSpec => []DTypeOK
  <1>1. DInv => DTypeOK
    BY DEF DInv, LogInv, LogTyped, MonTyped, DTypeOK
  <1> QED
    BY DStart, DStep, <1>1, PTL DEF DSpec

(* Delivery implements Membership: the joins, parts, kicks and quits that  *)
(* send messages, and the monitors that read them late, delete empty lists *)
(* (etcd_client.go:95-136) and may panic, change users, lists and sessions *)
(* only as Membership says.  The lists monitorPart deletes by what an old  *)
(* event says are the ones Membership deletes when they are empty now.     *)
THEOREM DeliveryImplementsMembership == DSpec => Spec
  BY DStart, DStep, PTL DEF DSpec, Spec
=============================================================================
