----------------------- MODULE MembershipTimelyProofs -----------------------
(***************************************************************************)
(* Proofs of the properties of Membership that rest on timely sessions and *)
(* evictions: no server gives up a session before its lease expires, and   *)
(* no client outlives its user key.                                        *)
(***************************************************************************)
EXTENDS MembershipProofs

(* The only live lease a handler can hold is its server's session, a       *)
(* client of a registered user holds no other lease at all, and a server   *)
(* without a ready session has no live one.                                *)
TimelySessions ==
    /\ \A s \in Server : ses[s] \in granted \cup {NoLease}
    /\ \A s \in Server : s \notin ready => ses[s] \notin live
    /\ \A c \in Conn :
          /\ client[c].st # "doomed"
          /\ client[c].lid \in granted \cup {NoLease}
          /\ client[c].lid \in live => client[c].lid = ses[client[c].srv]
          /\ client[c].st = "up" /\ client[c].lid # NoLease =>
                client[c].lid = ses[client[c].srv]

(* What the properties need to be preserved by every step.                 *)
TimelyInv ==
    /\ TypeOK
    /\ Held
    /\ TimelySessions
    /\ LeaseMirrored
    /\ MembershipAgrees
    /\ OneOwner

-----------------------------------------------------------------------------
(***************************************************************************)
(* The lease a command uses is the lease of the user it acts on.           *)
(***************************************************************************)

(* The user of a client has the lease of the client's server, live, and    *)
(* this is also the lease of the command the client is executing.          *)
LEMMA UpUser ==
    ASSUME TimelyInv, NEW c \in Conn, client[c].st = "up"
    PROVE  /\ client[c].nick \in Nick
           /\ client[c].srv \in Server
           /\ userCtl[client[c].nick].lease = ses[client[c].srv]
           /\ userCtl[client[c].nick].Lease = ses[client[c].srv]
           /\ userMsg[client[c].nick] = ses[client[c].srv]
           /\ ses[client[c].srv] \in live
           /\ ses[client[c].srv] # NoLease
           /\ client[c].lid # NoLease => client[c].lid = ses[client[c].srv]
  <1>1. client[c].nick \in Nick /\ client[c].srv \in Server
    <2>1. client[c] \in Client
      BY DEF TimelyInv, TypeOK
    <2> QED
      BY <2>1 DEF Client
  <1>2. /\ userCtl[client[c].nick].lease = ses[client[c].srv]
        /\ userCtl[client[c].nick].lease # NoLease
    BY DEF TimelyInv, OneOwner, Exists
  <1>3. userCtl[client[c].nick].lease \in live
    BY <1>1, <1>2 DEF TimelyInv, Held
  <1>4. client[c].lid # NoLease => client[c].lid = ses[client[c].srv]
    BY DEF TimelyInv, TimelySessions
  <1> QED
    BY <1>1, <1>2, <1>3, <1>4 DEF TimelyInv, LeaseMirrored

(* The ways a timely step can change the keys.                             *)
TimelySteps ==
    \/ UNCHANGED etcdVars
    \/ \E l \in Lease : LeaseExpire(l)
    \/ \E n \in Nick, lid \in Lease : ~Exists(n) /\ RegisterTxn(n, lid)
    \/ \E n \in Nick, ch \in Chan, lid \in Lease :
          lid = userCtl[n].Lease /\ JoinTxn(n, ch, lid)
    \/ \E n \in Nick, ch \in Chan, lid \in Lease :
          lid = userCtl[n].Lease /\ OnChannel(n, ch) /\ PartTxn(n, ch, lid)
    \/ \E n \in Nick, lid \in Lease : lid = userCtl[n].Lease /\ QuitTxn(n, lid)
    \/ \E c \in Conn, ch \in Chan : CleanNicks(c, ch)

(* Every step from a timely state is one of those.                         *)
LEMMA TimelyCases == TimelyInv /\ [Next]_vars => TimelySteps
  <1> SUFFICES ASSUME TimelyInv, [Next]_vars
               PROVE  TimelySteps
    OBVIOUS
  <1>0. ASSUME NEW c \in Conn, Calling(c)
        PROVE  /\ client[c].nick \in Nick
               /\ client[c].lid \in Lease
               /\ client[c].lid = userCtl[client[c].nick].Lease
    <2>1. client[c].st = "up"
      BY <1>0 DEF Calling, Running, TimelyInv, TimelySessions
    <2>2. live \subseteq Lease
      BY DEF TimelyInv, TypeOK
    <2> QED
      BY <1>0, <2>1, <2>2, UpUser DEF Calling
  <1>1. ASSUME NEW s \in Server, NewSession(s) \/ SessionDone(s) \/ Crash(s)
        PROVE  TimelySteps
    BY <1>1 DEF NewSession, SessionDone, Crash, TimelySteps
  <1>2. ASSUME NEW c \in Conn, NEW s \in Server, Accept(c, s)
        PROVE  TimelySteps
    BY <1>2 DEF Accept, TimelySteps
  <1>3. ASSUME NEW c \in Conn, Disconnect(c) \/ Evict(c) \/ Session(c)
        PROVE  TimelySteps
    BY <1>3 DEF Disconnect, Evict, Session, TimelySteps
  <1>4. ASSUME NEW c \in Conn, NEW n \in Nick, newEtcdClient(c, n)
        PROVE  TimelySteps
    <2>1. live \subseteq Lease
      BY DEF TimelyInv, TypeOK
    <2> QED
      BY <1>4, <2>1 DEF newEtcdClient, LeaseFound, TimelySteps
  <1>5. ASSUME NEW c \in Conn, NEW ch \in Chan, Join(c, ch)
        PROVE  TimelySteps
    BY <1>0, <1>5 DEF Join, TimelySteps
  <1>6. ASSUME NEW c \in Conn, NEW ch \in Chan, Part(c, ch)
        PROVE  TimelySteps
    BY <1>0, <1>6 DEF Part, TimelySteps
  <1>7. ASSUME NEW c \in Conn, NEW ch \in Chan, NEW m \in Nick, kick(c, ch, m)
        PROVE  TimelySteps
    <2>1. nickKeys[ch] \subseteq Lease
      BY DEF TimelyInv, TypeOK
    <2> QED
      BY <1>7, <2>1 DEF kick, TimelySteps
  <1>8. ASSUME NEW c \in Conn, Quit(c)
        PROVE  TimelySteps
    BY <1>0, <1>8 DEF Quit, TimelySteps
  <1>9. CASE UNCHANGED vars
    BY <1>9 DEF vars, etcdVars, TimelySteps
  <1>10. ASSUME NEW c \in Conn, NEW ch \in Chan, CleanNicks(c, ch)
         PROVE  TimelySteps
    BY <1>10 DEF TimelySteps
  <1>11. ASSUME NEW l \in Lease, LeaseExpire(l)
         PROVE  TimelySteps
    BY <1>11 DEF TimelySteps
  <1> QED
    BY <1>1, <1>2, <1>3, <1>4, <1>5, <1>6, <1>7, <1>8, <1>9, <1>10, <1>11 DEF Next

-----------------------------------------------------------------------------
(***************************************************************************)
(* The two records of membership.                                          *)
(***************************************************************************)

(* The copy of the lease in a record stays right: registration writes it,  *)
(* and a join moves the key to the lease it already has.                   *)
LEMMA MirroredStep ==
    ASSUME TypeOK, LeaseMirrored, TimelySteps
    PROVE  LeaseMirrored'
  <1> USE DEF LeaseMirrored
  <1>0. userCtl \in [Nick -> UserValue] /\ userMsg \in [Nick -> Lease \cup {NoLease}]
    BY DEF TypeOK
  <1>1. CASE UNCHANGED etcdVars
    BY <1>1 DEF etcdVars
  <1>2. ASSUME NEW l \in Lease, LeaseExpire(l)
        PROVE  LeaseMirrored'
    BY <1>2 DEF LeaseExpire, NoUser, NewUser
  <1>3. ASSUME NEW n \in Nick, NEW lid \in Lease, RegisterTxn(n, lid)
        PROVE  LeaseMirrored'
    BY <1>0, <1>3 DEF RegisterTxn, NewUser
  <1>4. ASSUME NEW n \in Nick, NEW ch \in Chan, NEW lid \in Lease,
               lid = userCtl[n].Lease, JoinTxn(n, ch, lid)
        PROVE  LeaseMirrored'
    <2>1. /\ addChannel(userCtl[n], ch, lid).lease = lid
          /\ addChannel(userCtl[n], ch, lid).Lease = userCtl[n].Lease
      BY DEF addChannel
    <2>2. /\ userCtl' = [userCtl EXCEPT ![n] = addChannel(userCtl[n], ch, lid)]
          /\ userMsg' = userMsg
      BY <1>4 DEF JoinTxn
    <2> QED
      BY ONLY <1>0, <1>4, <2>1, <2>2, LeaseMirrored DEF LeaseMirrored
  <1>5. ASSUME NEW n \in Nick, NEW ch \in Chan, NEW lid \in Lease, PartTxn(n, ch, lid)
        PROVE  LeaseMirrored'
    <2>1. /\ part(userCtl[n], ch).lease = userCtl[n].lease
          /\ part(userCtl[n], ch).Lease = userCtl[n].Lease
      BY <1>0, UserUpdates, Zenon
    <2> QED
      BY <1>0, <1>5, <2>1 DEF PartTxn
  <1>6. ASSUME NEW n \in Nick, NEW lid \in Lease, QuitTxn(n, lid)
        PROVE  LeaseMirrored'
    BY <1>0, <1>6 DEF QuitTxn, NoUser, NewUser
  <1>7. ASSUME NEW c \in Conn, NEW ch \in Chan, CleanNicks(c, ch)
        PROVE  LeaseMirrored'
    BY <1>7 DEF CleanNicks
  <1> QED
    BY <1>1, <1>2, <1>3, <1>4, <1>5, <1>6, <1>7 DEF TimelySteps

(* A join or a part of one channel changes both records in step.           *)
LEMMA AgreesChannel ==
    ASSUME TypeOK, KeyedLists, MembershipAgrees,
           NEW n \in Nick, NEW ch \in Chan, NEW lid \in Lease, lid = userCtl[n].Lease,
           JoinTxn(n, ch, lid) \/ (OnChannel(n, ch) /\ PartTxn(n, ch, lid))
    PROVE  MembershipAgrees'
  <1> DEFINE uv == userCtl[n]
             list == nicks[ch][lid]
  <1>0. /\ uv \in UserValue /\ list \in ChannelNicks
        /\ userCtl \in [Nick -> UserValue]
        /\ nicks \in [Chan -> [Lease -> ChannelNicks]]
        /\ uv.Channels \in [Chan -> Nat]
    BY DEF TypeOK, UserValue
  <1>1. Len(list[n]) = uv.Channels[ch]
    BY DEF MembershipAgrees
  <1>2. PICK uv2, list2 :
           /\ userCtl' = [userCtl EXCEPT ![n] = uv2]
           /\ nicks' = [nicks EXCEPT ![ch][lid] = list2]
           /\ uv2.Lease = uv.Lease
           /\ \A x \in Chan : x # ch => uv2.Channels[x] = uv.Channels[x]
           /\ \A m \in Nick : m # n => list2[m] = list[m]
           /\ Len(list2[n]) = uv2.Channels[ch]
    <2>1. CASE JoinTxn(n, ch, lid)
      <3> DEFINE uvj == addChannel(uv, ch, lid)
                 md == JoinMode(ch)
                 lj == add(n, md, list)
      <3>1. userCtl' = [userCtl EXCEPT ![n] = uvj] /\ nicks' = [nicks EXCEPT ![ch][lid] = lj]
        BY <2>1 DEF JoinTxn
      <3>2. uvj.Lease = uv.Lease /\ uvj.Channels = [uv.Channels EXCEPT ![ch] = @ + 1]
        BY DEF addChannel
      <3>3. md \in NickMode
        BY DEF JoinMode, NickMode
      <3>4. Len(lj[n]) = Len(list[n]) + 1 /\ \A m \in Nick : m # n => lj[m] = list[m]
        <4> HIDE DEF md, list
        <4> QED
          BY <1>0, <3>3, AddEntries
      <3>5. uvj.Channels[ch] = uv.Channels[ch] + 1
        BY <1>0, <3>2
      <3>6. \A x \in Chan : x # ch => uvj.Channels[x] = uv.Channels[x]
        BY <1>0, <3>2
      <3> HIDE DEF uvj, lj
      <3>7. Len(lj[n]) = uvj.Channels[ch]
        BY <1>1, <3>4, <3>5
      <3> QED
        BY <3>1, <3>2, <3>4, <3>6, <3>7, Zenon
    <2>2. CASE OnChannel(n, ch) /\ PartTxn(n, ch, lid)
      <3> DEFINE uvp == part(uv, ch)
                 lp == del(n, 1, list)
      <3>1. userCtl' = [userCtl EXCEPT ![n] = uvp]
        BY <2>2 DEF PartTxn
      <3>2. uvp.Lease = uv.Lease /\ uvp.Channels = [uv.Channels EXCEPT ![ch] = @ - 1]
        BY <1>0, UserUpdates, ZenonT(60)
      <3>3. uv.Channels[ch] \in Nat /\ uv.Channels[ch] > 0
        BY <1>0, <2>2 DEF OnChannel
      <3>4. lid \in nickKeys[ch]
        <4>1. Len(list[n]) # 0
          BY <1>1, <3>3
        <4>2. list # NoNicks
          BY <4>1 DEF NoNicks
        <4> QED
          BY <4>2 DEF KeyedLists
      <3>5. nicks' = [nicks EXCEPT ![ch][lid] = lp]
        BY <2>2, <3>4 DEF PartTxn
      <3>6. /\ Len(lp[n]) = IF 1 <= Len(list[n]) THEN Len(list[n]) - 1 ELSE 0
            /\ \A m \in Nick : m # n => lp[m] = list[m]
        <4> HIDE DEF list
        <4> QED
          BY <1>0, DelEntries
      <3>7. Len(lp[n]) = uvp.Channels[ch]
        BY <1>0, <1>1, <3>2, <3>3, <3>6
      <3> HIDE DEF uvp, lp
      <3> QED
        BY <1>0, <3>1, <3>2, <3>5, <3>6, <3>7, Zenon
    <2> QED
      BY <2>1, <2>2, Zenon
  <1> SUFFICES ASSUME NEW x \in Chan, NEW l \in Lease, NEW m \in Nick
               PROVE  Len(nicks'[x][l][m]) =
                         IF l = userCtl'[m].Lease THEN userCtl'[m].Channels[x] ELSE 0
    BY DEF MembershipAgrees
  <1>3. Len(nicks[x][l][m]) = IF l = userCtl[m].Lease THEN userCtl[m].Channels[x] ELSE 0
    BY DEF MembershipAgrees
  <1>4. userCtl'[m] = IF m = n THEN uv2 ELSE userCtl[m]
    BY <1>0, <1>2
  <1>5. nicks'[x][l] = IF x = ch /\ l = lid THEN list2 ELSE nicks[x][l]
    BY <1>0, <1>2
  <1>6. CASE x = ch /\ l = lid /\ m = n
    BY <1>2, <1>4, <1>5, <1>6
  <1>7. CASE m # n
    BY <1>2, <1>3, <1>4, <1>5, <1>7
  <1>8. CASE m = n /\ x # ch
    BY <1>2, <1>3, <1>4, <1>5, <1>8
  <1>9. CASE m = n /\ x = ch /\ l # lid
    BY <1>2, <1>3, <1>4, <1>5, <1>9
  <1> QED
    BY <1>6, <1>7, <1>8, <1>9

(* Every change of the keys keeps the two records in agreement.            *)
LEMMA AgreesStep ==
    ASSUME TypeOK, KeyedLists, LeaseMirrored, MembershipAgrees, TimelySteps
    PROVE  MembershipAgrees'
  <1>0. /\ userCtl \in [Nick -> UserValue]
        /\ nicks \in [Chan -> [Lease -> ChannelNicks]]
        /\ NoLease \notin Lease
    BY DistinctNone DEF TypeOK
  <1>a. ASSUME NEW x \in Chan, NEW l \in Lease, NEW m \in Nick
        PROVE  /\ Len(nicks[x][l][m]) = IF l = userCtl[m].Lease THEN userCtl[m].Channels[x] ELSE 0
               /\ userCtl[m].Lease = userCtl[m].lease
    BY DEF MembershipAgrees, LeaseMirrored
  <1>n. NoUser.Lease = NoLease
    BY DEF NoUser, NewUser
  <1>1. CASE UNCHANGED <<userCtl, nicks>>
    BY <1>1 DEF MembershipAgrees
  <1>2. ASSUME NEW l \in Lease, LeaseExpire(l)
        PROVE  MembershipAgrees'
    <2> SUFFICES ASSUME NEW x \in Chan, NEW k \in Lease, NEW m \in Nick
                 PROVE  Len(nicks'[x][k][m]) =
                           IF k = userCtl'[m].Lease THEN userCtl'[m].Channels[x] ELSE 0
      BY DEF MembershipAgrees
    <2>1. userCtl'[m] = IF userCtl[m].lease = l THEN NoUser ELSE userCtl[m]
      BY <1>2 DEF LeaseExpire
    <2>2. nicks'[x][k][m] = IF k = l THEN <<>> ELSE nicks[x][k][m]
      BY <1>0, <1>2 DEF LeaseExpire, NoNicks
    <2>3. Len(<<>>) = 0
      OBVIOUS
    <2>4. CASE userCtl[m].lease = l
      BY <1>0, <1>a, <1>n, <2>1, <2>2, <2>3, <2>4
    <2>5. CASE userCtl[m].lease # l
      BY <1>a, <2>1, <2>2, <2>3, <2>5
    <2> QED
      BY <2>4, <2>5
  <1>3. ASSUME NEW n \in Nick, NEW lid \in Lease, ~Exists(n), RegisterTxn(n, lid)
        PROVE  MembershipAgrees'
    <2> SUFFICES ASSUME NEW x \in Chan, NEW k \in Lease, NEW m \in Nick
                 PROVE  Len(nicks'[x][k][m]) =
                           IF k = userCtl'[m].Lease THEN userCtl'[m].Channels[x] ELSE 0
      BY DEF MembershipAgrees
    <2>1. userCtl'[m] = IF m = n THEN NewUser(lid) ELSE userCtl[m]
      BY <1>0, <1>3 DEF RegisterTxn
    <2>2. nicks' = nicks
      BY <1>3 DEF RegisterTxn
    <2>3. NewUser(lid).Channels[x] = 0
      BY DEF NewUser
    <2>4. CASE m = n
      BY <1>0, <1>3, <1>a, <2>1, <2>2, <2>3, <2>4 DEF Exists
    <2>5. CASE m # n
      BY <1>a, <2>1, <2>2, <2>5
    <2> QED
      BY <2>4, <2>5
  <1>4. ASSUME NEW n \in Nick, NEW lid \in Lease, lid = userCtl[n].Lease, QuitTxn(n, lid)
        PROVE  MembershipAgrees'
    <2> SUFFICES ASSUME NEW x \in Chan, NEW k \in Lease, NEW m \in Nick
                 PROVE  Len(nicks'[x][k][m]) =
                           IF k = userCtl'[m].Lease THEN userCtl'[m].Channels[x] ELSE 0
      BY DEF MembershipAgrees
    <2> DEFINE d == userCtl[n].Channels[x]
               list == nicks[x][lid]
               after == del(n, d, list)
    <2>1. userCtl'[m] = IF m = n THEN NoUser ELSE userCtl[m]
      BY <1>0, <1>4 DEF QuitTxn
    <2>2. nicks'[x][k] = IF k = lid /\ lid \in nickKeys[x] THEN after ELSE nicks[x][k]
      BY <1>0, <1>4 DEF QuitTxn
    <2>3. d \in Nat /\ list \in ChannelNicks
      BY <1>0 DEF UserValue
    <2>4. Len(list[n]) = d
      BY <1>4, <1>a
    <2>5. /\ \A y \in Nick : y # n => after[y] = list[y]
          /\ Len(after[n]) = IF d <= Len(list[n]) THEN Len(list[n]) - d ELSE 0
      <3> HIDE DEF d, list
      <3> QED
        BY <2>3, DelEntries
    <2>6. Len(after[n]) = 0
      BY <2>3, <2>4, <2>5
    <2>7. lid \notin nickKeys[x] => Len(list[n]) = 0
      BY DEF KeyedLists, NoNicks
    <2> HIDE DEF after, d
    <2>8. CASE m # n
      BY <1>a, <2>1, <2>2, <2>5, <2>8
    <2>9. CASE m = n /\ k # lid
      BY <1>0, <1>4, <1>a, <1>n, <2>1, <2>2, <2>9
    <2>10. CASE m = n /\ k = lid
      BY <1>0, <1>n, <2>1, <2>2, <2>6, <2>7, <2>10
    <2> QED
      BY <2>8, <2>9, <2>10
  <1> QED
    BY <1>1, <1>2, <1>3, <1>4, AgreesChannel DEF TimelySteps, etcdVars, CleanNicks

-----------------------------------------------------------------------------
(***************************************************************************)
(* Handlers and sessions.                                                  *)
(***************************************************************************)

(* Every handler goes on as it is, ends its command, or is gone.           *)
OnlyEnds ==
    \A d \in Conn :
        \/ client'[d] = GoneClient
        \/ /\ client'[d].st = client[d].st
           /\ client'[d].srv = client[d].srv
           /\ client'[d].nick = client[d].nick
           /\ client'[d].lid \in {client[d].lid, NoLease}

(* The ends of a command are such steps.                                   *)
LEMMA EndsOnly ==
    ASSUME TypeOK, NEW c \in Conn, Return(c) \/ Fail(c)
    PROVE  OnlyEnds
  <1> USE DEF OnlyEnds
  <1>1. client \in [Conn -> Client] /\ client[c] \in Client
    BY DEF TypeOK
  <1>2. CASE Return(c)
    <2>1. client'[c] = [client[c] EXCEPT !.lid = NoLease]
      BY <1>1, <1>2 DEF Return
    <2>2. /\ client'[c].st = client[c].st /\ client'[c].srv = client[c].srv
          /\ client'[c].nick = client[c].nick /\ client'[c].lid = NoLease
      BY <1>1, <2>1 DEF Client
    <2> QED
      BY <1>1, <1>2, <2>2 DEF Return
  <1>3. CASE Fail(c)
    BY <1>1, <1>3 DEF Fail
  <1> QED
    BY <1>2, <1>3

(* A timely eviction ends the clients of the nicks and touches no other.   *)
LEMMA TimelyEviction ==
    ASSUME ~LateEviction, NEW cl \in [Conn -> Client], NEW N, NEW d \in Conn
    PROVE  Evicted(cl, N)[d] = IF cl[d].st = "up" /\ cl[d].nick \in N THEN GoneClient ELSE cl[d]
  BY DEF Evicted

(* What the client of a Quit that commits becomes.                         *)
LEMMA QuitEnds ==
    ASSUME TypeOK, ~LateEviction, NEW c \in Conn, NEW N,
           client' = Evicted([client EXCEPT ![c].lid = NoLease], N)
    PROVE  /\ OnlyEnds
           /\ \A d \in Conn : client'[d].st = "up" => client[d].nick \notin N
  <1> DEFINE cl == [client EXCEPT ![c].lid = NoLease]
  <1>1. client \in [Conn -> Client] /\ client[c] \in Client /\ cl \in [Conn -> Client]
    BY ClientTypes DEF TypeOK
  <1>2. cl[c] = [client[c] EXCEPT !.lid = NoLease] /\ \A d \in Conn : d # c => cl[d] = client[d]
    BY <1>1
  <1>3. /\ cl[c].st = client[c].st /\ cl[c].srv = client[c].srv
        /\ cl[c].nick = client[c].nick /\ cl[c].lid = NoLease
    BY <1>1, <1>2 DEF Client
  <1>4. \A d \in Conn :
           client'[d] = IF cl[d].st = "up" /\ cl[d].nick \in N THEN GoneClient ELSE cl[d]
    <2> HIDE DEF cl
    <2> QED
      BY <1>1, TimelyEviction, Zenon DEF cl
  <1> HIDE DEF cl
  <1>5. OnlyEnds
    BY <1>2, <1>3, <1>4, ZenonT(60) DEF OnlyEnds
  <1>6. \A d \in Conn : client'[d].st = "up" => cl[d].nick \notin N
    <2>1. GoneClient.st # "up"
      BY DEF GoneClient
    <2> QED
      BY ONLY <1>4, <2>1
  <1>7. \A d \in Conn : cl[d].nick = client[d].nick
    BY <1>2, <1>3, Zenon
  <1> QED
    BY ONLY <1>5, <1>6, <1>7

(* When handlers only end and sessions stay, handlers stay timely: they    *)
(* gain no lease, and leases are lost only.                                *)
LEMMA EndsTimely ==
    ASSUME TypeOK, TimelySessions, OnlyEnds,
           UNCHANGED <<granted, ses, ready>>, live' \subseteq live
    PROVE  TimelySessions'
  <1>1. NoLease \notin live
    BY DistinctNone DEF TypeOK
  <1>2. ASSUME NEW d \in Conn
        PROVE  /\ client'[d].st # "doomed"
               /\ client'[d].lid \in granted' \cup {NoLease}
               /\ client'[d].lid \in live' => client'[d].lid = ses'[client'[d].srv]
               /\ client'[d].st = "up" /\ client'[d].lid # NoLease =>
                     client'[d].lid = ses'[client'[d].srv]
    <2>1. CASE client'[d] = GoneClient
      BY <1>1, <2>1 DEF GoneClient
    <2>2. CASE client'[d] # GoneClient
      BY <1>1, <2>2 DEF OnlyEnds, TimelySessions
    <2> QED
      BY <2>1, <2>2
  <1>3. /\ \A s \in Server : ses'[s] \in granted' \cup {NoLease}
        /\ \A s \in Server : s \notin ready' => ses'[s] \notin live'
    BY DEF TimelySessions
  <1> QED
    BY ONLY <1>2, <1>3 DEF TimelySessions

(* When handlers only end and users keep their leases, or lose them with   *)
(* the client, every client still owns its user.                           *)
LEMMA EndsOwned ==
    ASSUME TypeOK, OneOwner, OnlyEnds, ses' = ses,
           \A d \in Conn : client'[d].st = "up" =>
              userCtl'[client[d].nick].lease = userCtl[client[d].nick].lease
    PROVE  OneOwner'
  <1>1. \A d \in Conn : client'[d].st = "up" =>
           /\ client[d].st = "up"
           /\ client'[d].srv = client[d].srv
           /\ client'[d].nick = client[d].nick
    BY DEF OnlyEnds, GoneClient
  <1> QED
    BY <1>1 DEF OneOwner, Exists

(* Every command that ends, whatever it commits, keeps both.               *)
LEMMA CommandStep ==
    ASSUME TimelyInv, ~LateEviction, NEW c \in Conn, UNCHANGED sesVars,
           Return(c) \/ Fail(c),
           \A m \in Nick : userCtl'[m].lease = userCtl[m].lease
    PROVE  TimelySessions' /\ OneOwner'
  <1>1. OnlyEnds
    BY EndsOnly DEF TimelyInv
  <1>2. TimelySessions'
    BY <1>1, EndsTimely DEF TimelyInv, sesVars
  <1>3. \A d \in Conn : client'[d].st = "up" => client[d].st = "up"
    BY <1>1 DEF OnlyEnds, GoneClient
  <1>4. \A d \in Conn : client'[d].st = "up" => client[d].nick \in Nick
    BY <1>3, UpUser
  <1>5. OneOwner'
    BY <1>1, <1>4, EndsOwned DEF TimelyInv, sesVars
  <1> QED
    BY <1>2, <1>5

(* Sessions come and go: a server whose session is over has no client.     *)
LEMMA SessionStep ==
    ASSUME TimelyInv, ~EarlyLoss, NEW s \in Server,
           NewSession(s) \/ SessionDone(s) \/ Crash(s)
    PROVE  TimelySessions' /\ OneOwner'
  <1>0. /\ NoLease \notin Lease /\ live \subseteq granted /\ granted \subseteq Lease
        /\ ses \in [Server -> Lease \cup {NoLease}] /\ client \in [Conn -> Client]
        /\ TimelySessions /\ OneOwner
    BY DistinctNone DEF TimelyInv, TypeOK
  <1>s. \A d \in Conn : client[d].lid # NoLease => client[d].srv \in Server
    BY <1>0 DEF Client
  <1>1. CASE NewSession(s)
    <2>1. PICK l \in Lease \ granted : granted' = granted \cup {l} /\ live' = live \cup {l}
                                       /\ ses' = [ses EXCEPT ![s] = l]
      BY <1>1, Zenon DEF NewSession
    <2>2. /\ ses[s] \notin live /\ ready' = ready \cup {s}
          /\ UNCHANGED <<client, userCtl>>
      BY <1>0, <1>1 DEF NewSession, etcdVars, TimelySessions
    <2>3. \A d \in Conn : client[d].st = "up" => client[d].srv # s /\ client[d].srv \in Server
      BY <2>2, UpUser
    <2>4. ASSUME NEW d \in Conn
          PROVE  /\ client[d].st # "doomed"
                 /\ client[d].lid \in granted' \cup {NoLease}
                 /\ client[d].lid \in live' => client[d].lid = ses'[client[d].srv]
                 /\ client[d].st = "up" /\ client[d].lid # NoLease =>
                       client[d].lid = ses'[client[d].srv]
      <3>1. /\ client[d].st # "doomed"
            /\ client[d].lid \in granted \cup {NoLease}
            /\ client[d].lid \in live => client[d].lid = ses[client[d].srv]
            /\ client[d].st = "up" /\ client[d].lid # NoLease =>
                  client[d].lid = ses[client[d].srv]
        BY <1>0 DEF TimelySessions
      <3>2. client[d].srv \in Server \ {s} => ses'[client[d].srv] = ses[client[d].srv]
        BY <1>0, <2>1
      <3>3. client[d].lid # l
        BY <1>0, <3>1
      <3>4. client[d].lid \in live => client[d].srv # s
        BY <2>2, <3>1
      <3> QED
        BY <1>0, <1>s, <2>1, <2>3, <3>1, <3>2, <3>3, <3>4
    <2>5. TimelySessions'
      <3>1. /\ \A x \in Server : ses'[x] \in granted' \cup {NoLease}
            /\ \A x \in Server : x \notin ready' => ses'[x] \notin live'
        BY <1>0, <2>1, <2>2 DEF TimelySessions
      <3> QED
        BY ONLY <2>2, <2>4, <3>1 DEF TimelySessions
    <2>6. \A d \in Conn : client[d].st = "up" => ses'[client[d].srv] = ses[client[d].srv]
      BY <1>0, <2>1, <2>3
    <2>7. OneOwner'
      BY ONLY <1>0, <2>2, <2>6 DEF OneOwner, Exists
    <2> QED
      BY <2>5, <2>7
  <1>2. CASE SessionDone(s)
    <2>1. /\ ses[s] \notin live /\ ready' = ready \ {s}
          /\ UNCHANGED <<granted, live, ses, client, userCtl>>
      BY <1>2 DEF SessionDone, etcdVars
    <2>2. TimelySessions'
      BY <1>0, <2>1, SMTT(60) DEF TimelySessions
    <2>3. OneOwner'
      BY <1>0, <2>1 DEF OneOwner, Exists
    <2> QED
      BY <2>2, <2>3
  <1>3. CASE Crash(s)
    <2>1. /\ ses' = [ses EXCEPT ![s] = NoLease] /\ ready' = ready \ {s}
          /\ UNCHANGED <<granted, live, userCtl>>
          /\ \A d \in Conn : client'[d] = IF client[d].srv = s THEN GoneClient ELSE client[d]
      BY <1>3 DEF Crash, etcdVars
    <2>2. \A x \in Server : x # s => ses'[x] = ses[x]
      BY <1>0, <2>1
    <2>3. GoneClient.st = "gone" /\ GoneClient.lid = NoLease
      BY DEF GoneClient
    <2>4. \A d \in Conn : client'[d].st = "up" => client'[d] = client[d] /\ client[d].srv # s
      BY <2>1, <2>3
    <2>u. \A d \in Conn : client[d].st = "up" => client[d].srv \in Server
      BY UpUser
    <2>5. ASSUME NEW d \in Conn
          PROVE  /\ client'[d].st # "doomed"
                 /\ client'[d].lid \in granted' \cup {NoLease}
                 /\ client'[d].lid \in live' => client'[d].lid = ses'[client'[d].srv]
                 /\ client'[d].st = "up" /\ client'[d].lid # NoLease =>
                       client'[d].lid = ses'[client'[d].srv]
      <3>1. CASE client[d].srv = s
        BY <1>0, <2>1, <2>3, <3>1, SMTT(60)
      <3>2. CASE client[d].srv # s
        BY <1>0, <1>s, <2>1, <2>2, <3>2 DEF TimelySessions
      <3> QED
        BY <3>1, <3>2
    <2>6. TimelySessions'
      <3>1. /\ \A x \in Server : ses'[x] \in granted' \cup {NoLease}
            /\ \A x \in Server : x \notin ready' => ses'[x] \notin live'
        BY <1>0, <2>1 DEF TimelySessions
      <3> QED
        BY ONLY <2>5, <3>1 DEF TimelySessions
    <2>7. OneOwner'
      BY ONLY <1>0, <2>1, <2>2, <2>4, <2>u DEF OneOwner, Exists
    <2> QED
      BY <2>6, <2>7
  <1> QED
    BY <1>1, <1>2, <1>3

(* Registering makes a client whose user has the lease of its server, for  *)
(* the lease it registers under is live and its handler holds no other.    *)
LEMMA RegisterStep ==
    ASSUME TimelyInv, NEW c \in Conn, NEW n \in Nick, UNCHANGED sesVars,
           client[c].st = "handshake", ~Exists(n), LeaseFound(client[c].lid),
           RegisterTxn(n, client[c].lid), client' = [client EXCEPT ![c] = UpClient(@.srv, n)]
    PROVE  TimelySessions' /\ OneOwner'
  <1> DEFINE up == UpClient(client[c].srv, n)
             lid == client[c].lid
  <1>0. /\ NoLease \notin live /\ client \in [Conn -> Client]
        /\ userCtl \in [Nick -> UserValue]
        /\ TimelySessions /\ OneOwner
    BY DistinctNone DEF TimelyInv, TypeOK
  <1>1. \A d \in Conn : client'[d] = IF d = c THEN up ELSE client[d]
    BY <1>0
  <1>2. up.st = "up" /\ up.srv = client[c].srv /\ up.nick = n /\ up.lid = NoLease
    BY DEF UpClient
  <1>3. lid \in live /\ lid = ses[client[c].srv]
    BY <1>0 DEF LeaseFound, TimelySessions
  <1>4. \A m \in Nick : userCtl'[m].lease = IF m = n THEN lid ELSE userCtl[m].lease
    BY <1>0 DEF RegisterTxn, NewUser
  <1>5. \A d \in Conn : client[d].st = "up" => client[d].nick \in Nick \ {n}
    <2>1. \A d \in Conn : client[d].st = "up" => client[d].nick \in Nick /\ Exists(client[d].nick)
      BY <1>0, UpUser DEF OneOwner
    <2> QED
      BY <2>1, SMTT(60)
  <1>6. granted' = granted /\ live' = live /\ ses' = ses /\ ready' = ready
    BY SMTT(60) DEF sesVars
  <1> HIDE DEF up, lid
  <1>7. TimelySessions'
    BY <1>0, <1>1, <1>2, <1>6, SMTT(60) DEF TimelySessions
  <1>8. ASSUME NEW d \in Conn, client'[d].st = "up"
        PROVE  /\ userCtl'[client'[d].nick].lease = ses'[client'[d].srv]
               /\ userCtl'[client'[d].nick].lease # NoLease
               /\ \A e \in Conn : client'[e].st = "up" /\ client'[e].nick = client'[d].nick => e = d
    <2>1. CASE d = c
      BY <1>0, <1>1, <1>2, <1>3, <1>4, <1>5, <1>6, <2>1, SMTT(60)
    <2>2. CASE d # c
      <3>1. client'[d] = client[d] /\ client[d].nick \in Nick \ {n}
        BY <1>1, <1>5, <1>8, <2>2, SMTT(60)
      <3>2. /\ userCtl[client[d].nick].lease = ses[client[d].srv]
            /\ userCtl[client[d].nick].lease # NoLease
            /\ \A e \in Conn : client[e].st = "up" /\ client[e].nick = client[d].nick => e = d
        BY <1>0, <1>8, <3>1, SMTT(60) DEF OneOwner, Exists
      <3>3. /\ userCtl'[client'[d].nick].lease = ses'[client'[d].srv]
            /\ userCtl'[client'[d].nick].lease # NoLease
        BY ONLY <1>4, <1>6, <3>1, <3>2
      <3>4. ASSUME NEW e \in Conn, client'[e].st = "up", client'[e].nick = client'[d].nick
            PROVE  e = d
        <4>1. e # c
          BY ONLY <1>1, <1>2, <3>1, <3>4
        <4>2. client'[e] = client[e]
          BY ONLY <1>1, <4>1, SMTT(60)
        <4> QED
          BY ONLY <3>1, <3>2, <3>4, <4>2
      <3> QED
        BY <3>3, <3>4
    <2> QED
      BY <2>1, <2>2, SMTT(60)
  <1>9. OneOwner'
    BY <1>8 DEF OneOwner, Exists
  <1> QED
    BY <1>7, <1>9

(* Every step keeps handlers timely and clients the owners of their users. *)
LEMMA OwnerStep ==
    ASSUME ~EarlyLoss, ~LateEviction, TimelyInv, [Next]_vars
    PROVE  TimelySessions' /\ OneOwner'
  <1> DEFINE Goal == TimelySessions' /\ OneOwner'
  <1>0. /\ client \in [Conn -> Client] /\ userCtl \in [Nick -> UserValue]
        /\ TypeOK /\ TimelySessions /\ OneOwner /\ LeaseMirrored
        /\ NoLease \notin live /\ NoLease \notin Lease /\ live \subseteq Lease
    BY DistinctNone, SMTT(60) DEF TimelyInv, TypeOK
  <1>1. ASSUME UNCHANGED sesVars, UNCHANGED client, UNCHANGED userCtl
        PROVE  Goal
    BY <1>0, <1>1, SMTT(60) DEF sesVars, TimelySessions, OneOwner, Exists
  <1>2. ASSUME NEW l \in Lease, LeaseExpire(l)
        PROVE  Goal
    <2> DEFINE N == {n \in Nick : userMsg[n] = l}
    <2>1. \A d \in Conn : client'[d] = IF client[d].st = "up" /\ client[d].nick \in N
                                       THEN GoneClient ELSE client[d]
      BY <1>0, <1>2, TimelyEviction DEF LeaseExpire
    <2>2. OnlyEnds
      BY <2>1, SMTT(60) DEF OnlyEnds
    <2>3. TimelySessions'
      BY <1>0, <1>2, <2>2, EndsTimely, SMTT(60) DEF LeaseExpire
    <2>4. ASSUME NEW d \in Conn, client'[d].st = "up"
          PROVE  userCtl'[client[d].nick].lease = userCtl[client[d].nick].lease
      <3>1. client[d].st = "up" /\ client[d].nick \notin N
        <4>1. GoneClient.st # "up"
          BY DEF GoneClient
        <4> QED
          BY <2>1, <2>4, <4>1
      <3>2. client[d].nick \in Nick /\ userMsg[client[d].nick] = userCtl[client[d].nick].lease
        BY <3>1, UpUser
      <3> QED
        BY <1>2, <3>1, <3>2 DEF LeaseExpire
    <2> HIDE DEF N
    <2> QED
      BY <1>0, <1>2, <2>2, <2>3, <2>4, EndsOwned, Zenon DEF LeaseExpire
  <1>3. ASSUME NEW c \in Conn, NEW s \in Server, Accept(c, s)
        PROVE  Goal
    <2>1. client'[c] = [client[c] EXCEPT !.st = "handshake", !.srv = s] /\ client[c] \in Client
      BY <1>0, <1>3 DEF Accept
    <2>2. client'[c].st = "handshake" /\ client'[c].lid = NoLease
      BY <1>3, <2>1, ZenonT(60) DEF Accept, Client
    <2>3. \A d \in Conn : d # c => client'[d] = client[d]
      BY <1>0, <1>3 DEF Accept
    <2>4. UNCHANGED <<granted, live, ses, ready, userCtl>>
      BY <1>3 DEF Accept, sesVars, etcdVars
    <2>5. TimelySessions'
      BY <1>0, <2>2, <2>3, <2>4 DEF TimelySessions
    <2>6. OneOwner'
      BY <1>0, <2>2, <2>3, <2>4 DEF OneOwner, Exists
    <2> QED
      BY <2>5, <2>6
  <1>4. ASSUME NEW c \in Conn, Session(c)
        PROVE  Goal
    <2> DEFINE lid == ses[client[c].srv]
    <2>1. client'[c] = [client[c] EXCEPT !.lid = lid] /\ client[c] \in Client
      BY <1>0, <1>4 DEF Session
    <2>2. /\ client'[c].st = client[c].st /\ client'[c].srv = client[c].srv
          /\ client'[c].nick = client[c].nick /\ client'[c].lid = lid
      BY <2>1 DEF Client
    <2>3. \A d \in Conn : d # c => client'[d] = client[d]
      BY <1>0, <1>4 DEF Session
    <2>4. UNCHANGED <<granted, live, ses, ready, userCtl>>
      BY <1>4 DEF Session, sesVars, etcdVars
    <2>5. lid \in granted \cup {NoLease}
      BY <1>0, <1>4, SMTT(60) DEF Session, TimelySessions, TypeOK
    <2>6. TimelySessions'
      BY <1>0, <2>2, <2>3, <2>4, <2>5 DEF TimelySessions
    <2>7. \A d \in Conn : /\ client'[d].st = client[d].st
                          /\ client'[d].srv = client[d].srv
                          /\ client'[d].nick = client[d].nick
      BY <2>2, <2>3, SMTT(60)
    <2>8. OneOwner'
      BY ONLY <1>0, <2>4, <2>7 DEF OneOwner, Exists
    <2> QED
      BY <2>6, <2>8
  <1>5. ASSUME NEW c \in Conn, UNCHANGED sesVars, Return(c) \/ Fail(c), UNCHANGED etcdVars
        PROVE  Goal
    BY <1>5, CommandStep DEF etcdVars
  <1>6. ASSUME NEW c \in Conn, NEW n \in Nick, newEtcdClient(c, n)
        PROVE  Goal
    BY <1>5, <1>6, RegisterStep DEF newEtcdClient
  <1>7. ASSUME NEW c \in Conn, NEW n \in Nick, NEW ch \in Chan, NEW lid \in Lease,
               UNCHANGED sesVars, Return(c), PartTxn(n, ch, lid)
        PROVE  Goal
    <2>1. part(userCtl[n], ch).lease = userCtl[n].lease
      BY <1>0, UserUpdates, ZenonT(60)
    <2>2. userCtl' = [userCtl EXCEPT ![n] = part(userCtl[n], ch)]
      BY <1>7 DEF PartTxn
    <2>3. \A m \in Nick : userCtl'[m].lease = userCtl[m].lease
      BY <1>0, <2>1, <2>2, SMTT(60)
    <2> QED
      BY <1>7, <2>3, CommandStep, SMTT(60)
  <1>8. ASSUME NEW c \in Conn, Calling(c)
        PROVE  /\ client[c].st = "up"
               /\ client[c].nick \in Nick /\ client[c].lid \in Lease
               /\ client[c].lid = userCtl[client[c].nick].lease
    <2>1. client[c].st = "up"
      BY <1>0, <1>8, SMTT(60) DEF Calling, Running, TimelySessions
    <2> QED
      BY <1>0, <1>8, <2>1, UpUser DEF Calling
  <1>9. ASSUME NEW c \in Conn, NEW ch \in Chan, Join(c, ch)
        PROVE  Goal
    <2> DEFINE n == client[c].nick
               lid == client[c].lid
    <2>0. Calling(c) /\ UNCHANGED sesVars
      BY <1>9, SMTT(60) DEF Join
    <2>1. CASE JoinTxn(n, ch, lid) /\ Return(c)
      <3>1. addChannel(userCtl[n], ch, lid).lease = lid
        BY DEF addChannel
      <3>2. userCtl' = [userCtl EXCEPT ![n] = addChannel(userCtl[n], ch, lid)]
        BY <2>1, SMTT(60) DEF JoinTxn
      <3>3. \A m \in Nick : userCtl'[m].lease = userCtl[m].lease
        BY <1>0, <1>8, <2>0, <3>1, <3>2
      <3> QED
        BY <2>0, <2>1, <3>3, CommandStep
    <2>2. CASE Fail(c) /\ UNCHANGED etcdVars
      BY <1>5, <2>0, <2>2, SMTT(60)
    <2> QED
      BY <1>9, <2>1, <2>2, SMTT(60) DEF Join
  <1>10. ASSUME NEW c \in Conn, NEW ch \in Chan, Part(c, ch)
         PROVE  Goal
    BY <1>5, <1>7, <1>8, <1>10, SMTT(60) DEF Part
  <1>11. ASSUME NEW c \in Conn, NEW ch \in Chan, NEW m \in Nick, kick(c, ch, m)
         PROVE  Goal
    <2>1. nickKeys[ch] \subseteq Lease
      BY <1>0 DEF TypeOK
    <2> QED
      BY <1>5, <1>7, <1>11, <2>1 DEF kick
  <1>12. ASSUME NEW c \in Conn, Quit(c)
         PROVE  Goal
    <2> DEFINE n == client[c].nick
               N == IF userMsg[n] = NoLease THEN {} ELSE {n}
    <2>0. Calling(c) /\ UNCHANGED sesVars
      BY <1>12 DEF Quit
    <2>1. CASE Fail(c) /\ UNCHANGED etcdVars
      BY <1>5, <2>0, <2>1, SMTT(60)
    <2>2. CASE /\ QuitTxn(n, client[c].lid)
               /\ client' = Evicted([client EXCEPT ![c].lid = NoLease], N)
      <3>1. N = {n}
        BY <1>8, <2>0, UpUser
      <3>2. OnlyEnds /\ \A d \in Conn : client'[d].st = "up" => client[d].nick \notin N
        <4> HIDE DEF N
        <4> QED
          BY <1>0, <2>2, QuitEnds, ZenonT(60)
      <3>3. TimelySessions'
        BY <1>0, <2>0, <3>2, EndsTimely DEF sesVars
      <3>4. \A d \in Conn : client'[d].st = "up" => client[d].st = "up"
        BY <3>2 DEF OnlyEnds, GoneClient
      <3>5. \A d \in Conn : client'[d].st = "up" => client[d].nick \in Nick \ {n}
        <4>1. \A d \in Conn : client'[d].st = "up" => client[d].nick \in Nick
          BY <3>4, UpUser
        <4> QED
          BY <3>1, <3>2, <4>1
      <3>6. \A d \in Conn : client'[d].st = "up" =>
               userCtl'[client[d].nick].lease = userCtl[client[d].nick].lease
        BY <1>0, <2>2, <3>5, Zenon DEF QuitTxn
      <3>7. OneOwner'
        BY <1>0, <2>0, <3>2, <3>6, EndsOwned DEF sesVars
      <3> QED
        BY <3>3, <3>7
    <2> QED
      BY <1>12, <2>1, <2>2 DEF Quit
  <1>13. ASSUME NEW c \in Conn, Disconnect(c) \/ Evict(c)
         PROVE  Goal
    BY <1>5, <1>13 DEF Disconnect, Evict
  <1>14. ASSUME NEW c \in Conn, NEW ch \in Chan, CleanNicks(c, ch)
         PROVE  Goal
    BY <1>1, <1>14 DEF CleanNicks
  <1>15. CASE UNCHANGED vars
    BY <1>1, <1>15 DEF vars, sesVars
  <1> QED
    BY <1>2, <1>3, <1>4, <1>6, <1>9, <1>10, <1>11, <1>12, <1>13, <1>14, <1>15, SessionStep DEF Next

-----------------------------------------------------------------------------
(* While sessions and evictions are timely, the copy of the lease in every *)
(* user record is right, the two records of membership agree, and every    *)
(* client owns its user, over all the servers.                             *)
THEOREM TimelyMembership ==
    ASSUME ~EarlyLoss, ~LateEviction
    PROVE  Spec => [](LeaseMirrored /\ MembershipAgrees /\ OneOwner)
  <1>1. Init => TimelyInv
    <2> SUFFICES ASSUME Init
                 PROVE  TimelyInv
      OBVIOUS
    <2>1. TypeOK
      <3>1. NoUser \in UserValue /\ NewClient \in Client
        BY NewUserType DEF NoUser, NewClient, Client
      <3> QED
        BY <3>1, NoNicksType DEF Init, TypeOK
    <2>2. Held
      BY SMTT(60) DEF Init, Held, KeyedLists, NoUser, NewUser
    <2>3. TimelySessions /\ OneOwner
      BY DEF Init, NewClient, TimelySessions, OneOwner
    <2>4. LeaseMirrored
      BY DEF Init, NoUser, NewUser, LeaseMirrored
    <2>5. MembershipAgrees
      <3>1. \A n \in Nick : userCtl[n].Lease \notin Lease
        BY DistinctNone DEF Init, NoUser, NewUser
      <3>2. \A ch \in Chan, l \in Lease, n \in Nick : nicks[ch][l][n] = <<>>
        BY DEF Init, NoNicks
      <3> QED
        BY ONLY <3>1, <3>2 DEF MembershipAgrees
    <2> QED
      BY <2>1, <2>2, <2>3, <2>4, <2>5 DEF TimelyInv
  <1>2. TimelyInv /\ [Next]_vars => TimelyInv'
    <2> SUFFICES ASSUME TimelyInv, [Next]_vars
                 PROVE  TimelyInv'
      OBVIOUS
    <2>1. TypeOK' /\ Held'
      BY TypeStep, HeldStep DEF TimelyInv
    <2>2. LeaseMirrored' /\ MembershipAgrees'
      BY TimelyCases, MirroredStep, AgreesStep DEF TimelyInv, Held
    <2>3. TimelySessions' /\ OneOwner'
      BY OwnerStep
    <2> QED
      BY <2>1, <2>2, <2>3 DEF TimelyInv
  <1>3. TimelyInv => LeaseMirrored /\ MembershipAgrees /\ OneOwner
    BY DEF TimelyInv
  <1> QED
    BY <1>1, <1>2, <1>3, PTL DEF Spec
=============================================================================
