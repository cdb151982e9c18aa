-------------------------- MODULE MembershipProofs --------------------------
(***************************************************************************)
(* Proofs of the properties of Membership, for any numbers of servers,     *)
(* connections, nicks, channels and leases.                                *)
(***************************************************************************)
EXTENDS Membership, TLAPS

(* A lease that no list is keyed by has no nicks.                          *)
KeyedLists ==
    \A ch \in Chan, l \in Lease : l \notin nickKeys[ch] => nicks[ch][l] = NoNicks

(* Operator entries exist only on channels that were created.              *)
OpsAfterCreation ==
    \A ch \in Chan : ch \notin chans =>
        \A l \in Lease, m \in Nick : \A i \in DOMAIN nicks[ch][l][m] : nicks[ch][l][m][i] = {}

-----------------------------------------------------------------------------
(***************************************************************************)
(* Values and helpers have their types.                                    *)
(***************************************************************************)

(* Registration writes a user record (etcd_client.go:42).                  *)
LEMMA NewUserType ==
    ASSUME NEW lid \in Lease \cup {NoLease}
    PROVE  NewUser(lid) \in UserValue
  BY DEF NewUser, UserValue

(* The empty nick list is a nick list.                                     *)
LEMMA NoNicksType == NoNicks \in ChannelNicks
  <1>1. <<>> \in Seq(NickMode)
    OBVIOUS
  <1> QED
    BY <1>1 DEF NoNicks, ChannelNicks

(* del shortens the entries of its nick by k, at most to none, and leaves  *)
(* the entries of every other nick alone (channel.go:46).                  *)
LEMMA DelEntries ==
    ASSUME NEW cns \in ChannelNicks, NEW n, NEW k \in Nat
    PROVE  /\ del(n, k, cns) \in ChannelNicks
           /\ \A m \in Nick : m # n => del(n, k, cns)[m] = cns[m]
           /\ n \in Nick =>
                 /\ Len(del(n, k, cns)[n]) = IF k <= Len(cns[n]) THEN Len(cns[n]) - k ELSE 0
                 /\ \A i \in DOMAIN del(n, k, cns)[n] :
                       /\ i + k \in DOMAIN cns[n]
                       /\ del(n, k, cns)[n][i] = cns[n][i + k]
  <1> DEFINE s == cns[n]
             t == SubSeq(s, k + 1, Len(s))
  <1>1. CASE n \notin Nick
    <2>1. del(n, k, cns) = cns
      BY <1>1 DEF del, ChannelNicks
    <2> QED
      BY <1>1, <2>1
  <1>2. CASE n \in Nick
    <2>1. s \in Seq(NickMode) /\ Len(s) \in Nat /\ DOMAIN s = 1 .. Len(s)
      BY <1>2 DEF ChannelNicks
    <2>2. /\ t \in Seq(NickMode)
          /\ Len(t) = IF k <= Len(s) THEN Len(s) - k ELSE 0
          /\ \A i \in 1 .. Len(t) : t[i] = s[i + k]
      BY <2>1
    <2>3. del(n, k, cns) = [cns EXCEPT ![n] = t]
      BY DEF del
    <2>4. DOMAIN t = 1 .. Len(t)
      BY <2>2
    <2>5. \A i \in 1 .. Len(t) : i + k \in 1 .. Len(s)
      BY <2>1, <2>2
    <2> HIDE DEF s, t
    <2>6. del(n, k, cns) \in ChannelNicks /\ del(n, k, cns)[n] = t
      BY <1>2, <2>2, <2>3 DEF ChannelNicks
    <2>7. \A m \in Nick : m # n => del(n, k, cns)[m] = cns[m]
      BY <2>3 DEF ChannelNicks
    <2> QED
      BY <1>2, <2>1, <2>2, <2>4, <2>5, <2>6, <2>7 DEF s
  <1> QED
    BY <1>1, <1>2

(* add appends one entry to the entries of its nick and leaves the entries *)
(* of every other nick alone (etcd_client.go:272).                         *)
LEMMA AddEntries ==
    ASSUME NEW cns \in ChannelNicks, NEW n \in Nick, NEW mode \in NickMode
    PROVE  /\ add(n, mode, cns) \in ChannelNicks
           /\ \A m \in Nick : m # n => add(n, mode, cns)[m] = cns[m]
           /\ Len(add(n, mode, cns)[n]) = Len(cns[n]) + 1
           /\ \A i \in DOMAIN add(n, mode, cns)[n] :
                 add(n, mode, cns)[n][i] = IF i \in DOMAIN cns[n] THEN cns[n][i] ELSE mode
           /\ DOMAIN add(n, mode, cns)[n] = DOMAIN cns[n] \cup {Len(cns[n]) + 1}
  <1> DEFINE s == cns[n]
             t == Append(s, mode)
  <1>1. s \in Seq(NickMode) /\ Len(s) \in Nat /\ DOMAIN s = 1 .. Len(s)
    BY DEF ChannelNicks
  <1>2. /\ t \in Seq(NickMode)
        /\ Len(t) = Len(s) + 1
        /\ DOMAIN t = 1 .. (Len(s) + 1)
        /\ \A i \in 1 .. Len(s) : t[i] = s[i]
        /\ t[Len(s) + 1] = mode
    BY <1>1
  <1>3. 1 .. (Len(s) + 1) = 1 .. Len(s) \cup {Len(s) + 1} /\ Len(s) + 1 \notin 1 .. Len(s)
    BY <1>1
  <1>4. add(n, mode, cns) = [cns EXCEPT ![n] = t]
    BY DEF add
  <1> HIDE DEF s, t
  <1>5. /\ add(n, mode, cns) \in ChannelNicks
        /\ add(n, mode, cns)[n] = t
        /\ \A m \in Nick : m # n => add(n, mode, cns)[m] = cns[m]
    BY <1>2, <1>4 DEF ChannelNicks
  <1> QED
    BY <1>1, <1>2, <1>3, <1>5 DEF s

(* Joining and parting change a user record in the lease of its key and in *)
(* one channel only.                                                       *)
LEMMA UserUpdates ==
    ASSUME NEW uv \in UserValue, NEW ch \in Chan, NEW lid \in Lease
    PROVE  /\ addChannel(uv, ch, lid) \in UserValue
           /\ addChannel(uv, ch, lid).lease = lid
           /\ addChannel(uv, ch, lid).Lease = uv.Lease
           /\ addChannel(uv, ch, lid).Channels = [uv.Channels EXCEPT ![ch] = @ + 1]
           /\ uv.Channels[ch] > 0 => part(uv, ch) \in UserValue
           /\ part(uv, ch).lease = uv.lease
           /\ part(uv, ch).Lease = uv.Lease
           /\ part(uv, ch).Channels = [uv.Channels EXCEPT ![ch] = @ - 1]
  <1>1. /\ uv.lease \in Lease \cup {NoLease} /\ uv.Lease \in Lease \cup {NoLease}
        /\ uv.Channels \in [Chan -> Nat]
    BY DEF UserValue
  <1>2. [uv.Channels EXCEPT ![ch] = @ + 1] \in [Chan -> Nat]
    BY <1>1
  <1>3. uv.Channels[ch] > 0 => [uv.Channels EXCEPT ![ch] = @ - 1] \in [Chan -> Nat]
    BY <1>1
  <1>4. addChannel(uv, ch, lid) = [lease |-> lid, Lease |-> uv.Lease,
                                   Channels |-> [uv.Channels EXCEPT ![ch] = @ + 1]]
    BY DEF addChannel, UserValue
  <1>5. part(uv, ch) = [lease |-> uv.lease, Lease |-> uv.Lease,
                        Channels |-> [uv.Channels EXCEPT ![ch] = @ - 1]]
    BY DEF part, UserValue
  <1> QED
    BY <1>1, <1>2, <1>3, <1>4, <1>5 DEF UserValue

-----------------------------------------------------------------------------
(***************************************************************************)
(* Type correctness.                                                       *)
(***************************************************************************)

(* What ends a command, or a client, leaves handlers in their type.        *)
LEMMA ClientTypes ==
    ASSUME TypeOK, NEW c \in Conn
    PROVE  /\ GoneClient \in Client
           /\ [client EXCEPT ![c].lid = NoLease] \in [Conn -> Client]
           /\ [client EXCEPT ![c] = GoneClient] \in [Conn -> Client]
  <1>1. GoneClient \in Client
    BY DEF GoneClient, Client
  <1>2. client[c] \in Client
    BY DEF TypeOK
  <1>3. [client[c] EXCEPT !.lid = NoLease] \in Client
    BY <1>2 DEF Client
  <1> QED
    BY <1>1, <1>3 DEF TypeOK

(* Whichever clients a deletion ends, the handlers stay in their type.     *)
LEMMA EvictedType ==
    ASSUME NEW cl \in [Conn -> Client], NEW N
    PROVE  Evicted(cl, N) \in [Conn -> Client]
  <1>1. GoneClient \in Client
    BY DEF GoneClient, Client
  <1>2. ASSUME NEW d \in Conn, cl[d].st = "up"
        PROVE  [cl[d] EXCEPT !.st = "doomed"] \in Client
    <2>1. cl[d] \in [st : {"up", "doomed"}, srv : Server, nick : Nick, lid : Lease \cup {NoLease}]
      BY <1>2 DEF Client
    <2> QED
      BY <2>1 DEF Client
  <1> QED
    BY <1>1, <1>2 DEF Evicted

(* The part of TypeOK about the keys.                                      *)
KeysTyped ==
    /\ userCtl \in [Nick -> UserValue]
    /\ userMsg \in [Nick -> Lease \cup {NoLease}]
    /\ chans \in SUBSET Chan
    /\ nickKeys \in [Chan -> SUBSET Lease]
    /\ nicks \in [Chan -> [Lease -> ChannelNicks]]

(* Registering and quitting keep the keys in their types.                  *)
LEMMA UserTxnTypes ==
    ASSUME KeysTyped, NEW n \in Nick, NEW lid \in Lease, RegisterTxn(n, lid) \/ QuitTxn(n, lid)
    PROVE  KeysTyped'
  <1> USE DEF KeysTyped
  <1>0. /\ userCtl[n] \in UserValue
        /\ NewUser(lid) \in UserValue
        /\ NoUser \in UserValue
    BY NewUserType DEF NoUser
  <1>1. CASE RegisterTxn(n, lid)
    BY <1>0, <1>1 DEF RegisterTxn
  <1>2. CASE QuitTxn(n, lid)
    <2>1. ASSUME NEW d \in Chan
          PROVE  del(n, userCtl[n].Channels[d], nicks[d][lid]) \in ChannelNicks
      <3>1. userCtl[n].Channels[d] \in Nat /\ nicks[d][lid] \in ChannelNicks
        BY <1>0 DEF UserValue
      <3> QED
        BY <3>1, DelEntries
    <2>2. nicks' \in [Chan -> [Lease -> ChannelNicks]]
      BY <1>2, <2>1 DEF QuitTxn
    <2> QED
      BY <1>0, <1>2, <2>2 DEF QuitTxn
  <1> QED
    BY <1>1, <1>2

(* So do joining, and parting from a channel the user is on.               *)
LEMMA ChannelTxnTypes ==
    ASSUME KeysTyped, NEW n \in Nick, NEW ch \in Chan, NEW lid \in Lease,
           JoinTxn(n, ch, lid) \/ (OnChannel(n, ch) /\ PartTxn(n, ch, lid))
    PROVE  KeysTyped'
  <1> USE DEF KeysTyped
  <1>0. userCtl[n] \in UserValue /\ nicks[ch][lid] \in ChannelNicks
    OBVIOUS
  <1>1. CASE JoinTxn(n, ch, lid)
    <2>1. addChannel(userCtl[n], ch, lid) \in UserValue
      BY <1>0, UserUpdates, Zenon
    <2>2. add(n, JoinMode(ch), nicks[ch][lid]) \in ChannelNicks
      <3>1. JoinMode(ch) \in NickMode
        BY DEF JoinMode, NickMode
      <3> QED
        BY <1>0, <3>1, AddEntries
    <2> QED
      BY <1>1, <2>1, <2>2 DEF JoinTxn
  <1>2. CASE OnChannel(n, ch) /\ PartTxn(n, ch, lid)
    <2>1. part(userCtl[n], ch) \in UserValue
      BY <1>0, <1>2, UserUpdates, Zenon DEF OnChannel
    <2>2. del(n, 1, nicks[ch][lid]) \in ChannelNicks
      BY <1>0, DelEntries
    <2> QED
      BY <1>2, <2>1, <2>2 DEF PartTxn
  <1> QED
    BY <1>1, <1>2

(* The ways a step can change the keys: it leaves them alone, etcd expires *)
(* a lease, a transaction commits, or an empty list is removed.            *)
StoreSteps ==
    \/ UNCHANGED etcdVars /\ live \subseteq live'
    \/ \E l \in Lease : LeaseExpire(l)
    \/ /\ live' = live
       /\ \/ \E n \in Nick, lid \in live : ~Exists(n) /\ RegisterTxn(n, lid)
          \/ \E n \in Nick, ch \in Chan, lid \in live : Exists(n) /\ JoinTxn(n, ch, lid)
          \/ \E n \in Nick, ch \in Chan, lid \in Lease :
                OnChannel(n, ch) /\ PartTxn(n, ch, lid)
          \/ \E n \in Nick, lid \in Lease : QuitTxn(n, lid)
    \/ \E c \in Conn, ch \in Chan : CleanNicks(c, ch)

(* Every step of the system is one of those.                               *)
LEMMA StoreCases == TypeOK /\ [Next]_vars => StoreSteps
  <1> SUFFICES ASSUME TypeOK, [Next]_vars
               PROVE  StoreSteps
    OBVIOUS
  <1>0. ASSUME NEW c \in Conn
        PROVE  /\ Calling(c) => client[c].nick \in Nick /\ client[c].lid \in Lease
               /\ client[c].lid \in Lease \cup {NoLease}
    BY DEF TypeOK, Calling, Running, Client
  <1>1. ASSUME NEW s \in Server, NewSession(s) \/ SessionDone(s) \/ Crash(s)
        PROVE  StoreSteps
    BY <1>1 DEF NewSession, SessionDone, Crash, StoreSteps
  <1>2. ASSUME NEW c \in Conn, NEW s \in Server, Accept(c, s)
        PROVE  StoreSteps
    BY <1>2 DEF Accept, sesVars, StoreSteps
  <1>3. ASSUME NEW c \in Conn, Disconnect(c) \/ Evict(c) \/ Session(c)
        PROVE  StoreSteps
    BY <1>3 DEF Disconnect, Evict, Session, sesVars, StoreSteps
  <1>4. ASSUME NEW c \in Conn, NEW n \in Nick, newEtcdClient(c, n)
        PROVE  StoreSteps
    BY <1>4 DEF newEtcdClient, LeaseFound, sesVars, StoreSteps
  <1>5. ASSUME NEW c \in Conn, NEW ch \in Chan, Join(c, ch)
        PROVE  StoreSteps
    BY <1>0, <1>5 DEF Join, LeaseFound, sesVars, StoreSteps
  <1>6. ASSUME NEW c \in Conn, NEW ch \in Chan, Part(c, ch)
        PROVE  StoreSteps
    BY <1>0, <1>6 DEF Part, sesVars, StoreSteps
  <1>7. ASSUME NEW c \in Conn, NEW ch \in Chan, NEW m \in Nick, kick(c, ch, m)
        PROVE  StoreSteps
    <2>1. nickKeys[ch] \subseteq Lease
      BY DEF TypeOK
    <2> QED
      BY <1>7, <2>1 DEF kick, sesVars, StoreSteps
  <1>8. ASSUME NEW c \in Conn, Quit(c)
        PROVE  StoreSteps
    BY <1>0, <1>8 DEF Quit, sesVars, StoreSteps
  <1>9. CASE UNCHANGED vars
    BY <1>9 DEF vars, etcdVars, StoreSteps
  <1>10. ASSUME NEW c \in Conn, NEW ch \in Chan, CleanNicks(c, ch)
         PROVE  StoreSteps
    BY <1>10 DEF StoreSteps
  <1>11. ASSUME NEW l \in Lease, LeaseExpire(l)
         PROVE  StoreSteps
    BY <1>11 DEF StoreSteps
  <1> QED
    BY <1>1, <1>2, <1>3, <1>4, <1>5, <1>6, <1>7, <1>8, <1>9, <1>10, <1>11 DEF Next

(* What a step does to sessions and handlers stays in the types.           *)
LEMMA HandlerTypes ==
    TypeOK /\ [Next]_vars =>
        /\ granted' \in SUBSET Lease
        /\ live' \in SUBSET granted'
        /\ ses' \in [Server -> Lease \cup {NoLease}]
        /\ ready' \in SUBSET Server
        /\ client' \in [Conn -> Client]
  <1> DEFINE Typed == /\ granted' \in SUBSET Lease
                      /\ live' \in SUBSET granted'
                      /\ ses' \in [Server -> Lease \cup {NoLease}]
                      /\ ready' \in SUBSET Server
                      /\ client' \in [Conn -> Client]
  <1> SUFFICES ASSUME TypeOK, [Next]_vars
               PROVE  Typed
    OBVIOUS
  <1> USE DEF TypeOK
  <1>1. ASSUME NEW s \in Server, NewSession(s) \/ SessionDone(s)
        PROVE  Typed
    BY <1>1 DEF NewSession, SessionDone
  <1>2. ASSUME NEW s \in Server, Crash(s)
        PROVE  Typed
    <2>1. GoneClient \in Client
      BY DEF GoneClient, Client
    <2> QED
      BY <1>2, <2>1 DEF Crash
  <1>3. ASSUME NEW l \in Lease, LeaseExpire(l)
        PROVE  Typed
    BY <1>3, EvictedType DEF LeaseExpire
  <1>4. ASSUME NEW c \in Conn, UNCHANGED sesVars, Return(c) \/ Fail(c)
        PROVE  Typed
    BY <1>4, ClientTypes, Zenon DEF Return, Fail, sesVars
  <1>5. ASSUME NEW c \in Conn, NEW s \in Server, Accept(c, s)
        PROVE  Typed
    <2>1. [client[c] EXCEPT !.st = "handshake", !.srv = s] \in Client
      BY <1>5, ZenonT(60) DEF Accept, Client
    <2> QED
      BY <1>5, <2>1 DEF Accept, sesVars
  <1>6. ASSUME NEW c \in Conn, Session(c)
        PROVE  Typed
    <2>1. [client[c] EXCEPT !.lid = ses[client[c].srv]] \in Client
      BY <1>6 DEF Session, Client
    <2> QED
      BY <1>6, <2>1 DEF Session, sesVars
  <1>7. ASSUME NEW c \in Conn, NEW n \in Nick, newEtcdClient(c, n)
        PROVE  Typed
    <2>1. UNCHANGED sesVars
      BY <1>7 DEF newEtcdClient
    <2>2. UpClient(client[c].srv, n) \in Client
      BY <1>7 DEF newEtcdClient, UpClient, Client
    <2>3. CASE client' = [client EXCEPT ![c] = UpClient(@.srv, n)]
      BY <2>1, <2>2, <2>3 DEF sesVars
    <2> QED
      BY <1>4, <1>7, <2>1, <2>3 DEF newEtcdClient
  <1>8. ASSUME NEW c \in Conn, Disconnect(c) \/ Evict(c)
        PROVE  Typed
    BY <1>4, <1>8, SMTT(60) DEF Disconnect, Evict
  <1>9. ASSUME NEW c \in Conn, NEW ch \in Chan, Join(c, ch) \/ Part(c, ch)
        PROVE  Typed
    BY <1>4, <1>9 DEF Join, Part
  <1>10. ASSUME NEW c \in Conn, NEW ch \in Chan, NEW m \in Nick, kick(c, ch, m)
         PROVE  Typed
    BY <1>4, <1>10 DEF kick
  <1>11. ASSUME NEW c \in Conn, Quit(c)
         PROVE  Typed
    <2>1. UNCHANGED sesVars
      BY <1>11 DEF Quit
    <2>2. ASSUME NEW N, client' = Evicted([client EXCEPT ![c].lid = NoLease], N)
          PROVE  Typed
      BY <2>1, <2>2, ClientTypes, EvictedType, Zenon DEF sesVars
    <2> QED
      BY <1>4, <1>11, <2>1, <2>2, Zenon DEF Quit
  <1>12. ASSUME NEW c \in Conn, NEW ch \in Chan, CleanNicks(c, ch)
         PROVE  Typed
    BY <1>12 DEF CleanNicks, sesVars
  <1>13. CASE UNCHANGED vars
    BY <1>13 DEF vars
  <1> QED
    BY <1>1, <1>2, <1>3, <1>5, <1>6, <1>7, <1>8, <1>9, <1>10, <1>11, <1>12, <1>13 DEF Next

(* Every step keeps every variable in its type.                            *)
LEMMA TypeStep == TypeOK /\ [Next]_vars => TypeOK'
  <1> SUFFICES ASSUME TypeOK, [Next]_vars
               PROVE  TypeOK'
    OBVIOUS
  <1>0. KeysTyped /\ live \subseteq Lease
    BY DEF TypeOK, KeysTyped
  <1>1. UNCHANGED etcdVars => KeysTyped'
    BY <1>0 DEF KeysTyped, etcdVars
  <1>2. ASSUME NEW l \in Lease, LeaseExpire(l)
        PROVE  KeysTyped'
    <2>1. NoUser \in UserValue
      BY NewUserType DEF NoUser
    <2> QED
      BY <1>0, <1>2, <2>1, NoNicksType DEF LeaseExpire, KeysTyped
  <1>3. ASSUME NEW c \in Conn, NEW ch \in Chan, CleanNicks(c, ch)
        PROVE  KeysTyped'
    BY <1>0, <1>3 DEF CleanNicks, KeysTyped
  <1>4. KeysTyped'
    BY <1>0, <1>1, <1>2, <1>3, StoreCases, UserTxnTypes, ChannelTxnTypes DEF StoreSteps
  <1> QED
    BY <1>4, HandlerTypes DEF TypeOK, KeysTyped

LEMMA TypeInit == Init => TypeOK
  <1>1. NoUser \in UserValue /\ NewClient \in Client
    BY NewUserType, SMTT(60) DEF NoUser, NewClient, Client
  <1> QED
    BY <1>1, NoNicksType DEF Init, TypeOK

(* Every reachable state is typed.                                         *)
THEOREM TypeCorrect == Spec => []TypeOK
  BY TypeInit, TypeStep, PTL DEF Spec

-----------------------------------------------------------------------------
(***************************************************************************)
(* Keys do not outlive their leases.                                       *)
(***************************************************************************)

Held ==
    /\ KeyedLists
    /\ \A n \in Nick : userCtl[n].lease \in live \cup {NoLease}
    /\ \A n \in Nick : userMsg[n] \in live \cup {NoLease}
    /\ \A ch \in Chan : nickKeys[ch] \subseteq live

(* A key is put under a live lease only, or keeps the lease it had; the    *)
(* expiry of a lease takes every key under it.                             *)
LEMMA HeldStep == TypeOK /\ Held /\ [Next]_vars => Held'
  <1> SUFFICES ASSUME TypeOK, Held, [Next]_vars
               PROVE  Held'
    OBVIOUS
  <1> USE DEF TypeOK, Held, KeyedLists
  <1>1. CASE UNCHANGED etcdVars /\ live \subseteq live'
    BY <1>1 DEF etcdVars
  <1>2. ASSUME NEW l \in Lease, LeaseExpire(l)
        PROVE  Held'
    BY <1>2 DEF LeaseExpire, NoUser, NewUser
  <1>3. ASSUME NEW n \in Nick, NEW lid \in live, RegisterTxn(n, lid), live' = live
        PROVE  Held'
    BY <1>3 DEF RegisterTxn, NewUser
  <1>4. ASSUME NEW n \in Nick, NEW ch \in Chan, NEW lid \in live, JoinTxn(n, ch, lid), live' = live
        PROVE  Held'
    <2>1. addChannel(userCtl[n], ch, lid).lease = lid
      BY DEF addChannel
    <2> QED
      BY <1>4, <2>1, SMTT(60) DEF JoinTxn
  <1>5. ASSUME NEW n \in Nick, NEW ch \in Chan, NEW lid \in Lease, PartTxn(n, ch, lid), live' = live
        PROVE  Held'
    <2>1. part(userCtl[n], ch).lease = userCtl[n].lease
      BY UserUpdates, Zenon
    <2> QED
      BY <1>5, <2>1, SMTT(60) DEF PartTxn
  <1>6. ASSUME NEW n \in Nick, NEW lid \in Lease, QuitTxn(n, lid), live' = live
        PROVE  Held'
    BY <1>6 DEF QuitTxn, NoUser, NewUser
  <1>7. ASSUME NEW c \in Conn, NEW ch \in Chan, CleanNicks(c, ch)
        PROVE  Held'
    BY <1>7 DEF CleanNicks, sesVars
  <1> QED
    BY <1>1, <1>2, <1>3, <1>4, <1>5, <1>6, <1>7, StoreCases, Zenon DEF StoreSteps

(* Whatever the timing of sessions and evictions, no user key             *)
(* and no nick list outlives its lease.                                    *)
THEOREM Released == Spec => []ReleasedOnExpiry
  <1>1. Init => Held
    BY DEF Init, Held, KeyedLists, NoUser, NewUser
  <1>2. TypeOK /\ Held => ReleasedOnExpiry
    BY SMTT(60) DEF TypeOK, Held, KeyedLists, ReleasedOnExpiry
  <1> QED
    BY <1>1, <1>2, HeldStep, TypeCorrect, PTL DEF Spec

-----------------------------------------------------------------------------
(***************************************************************************)
(* Channel operators.                                                      *)
(***************************************************************************)

(* One operator entry at most, and none before the channel is created: the *)
(* second part is what a join that creates the channel relies on.          *)
OpInv == OneOperator /\ OpsAfterCreation

(* A step that only removes entries at the front, k of them for each nick, *)
(* and keeps the channels, keeps OpInv: an entry that is left was there    *)
(* before, k places further on.                                            *)
LEMMA OpShrink ==
    ASSUME TypeOK, OpInv, chans' = chans,
           NEW k \in [Chan -> [Lease -> [Nick -> Nat]]],
           \A ch \in Chan, l \in Lease, m \in Nick : \A i \in DOMAIN nicks'[ch][l][m] :
              /\ i \in Nat
              /\ i + k[ch][l][m] \in DOMAIN nicks[ch][l][m]
              /\ nicks'[ch][l][m][i] = nicks[ch][l][m][i + k[ch][l][m]]
    PROVE  OpInv'
  <1>1. OpsAfterCreation'
    BY SMTT(60) DEF OpInv, OpsAfterCreation
  <1>2. ASSUME NEW ch \in Chan, NEW l1 \in Lease, NEW l2 \in Lease,
               NEW m1 \in Nick, NEW m2 \in Nick,
               NEW i \in DOMAIN nicks'[ch][l1][m1], NEW j \in DOMAIN nicks'[ch][l2][m2],
               nicks'[ch][l1][m1][i] # {}, nicks'[ch][l2][m2][j] # {}
        PROVE  l1 = l2 /\ m1 = m2 /\ i = j
    <2>0. OneOperator
      BY SMTT(60) DEF OpInv
    <2>p. PICK p \in DOMAIN nicks[ch][l1][m1] :
             nicks[ch][l1][m1][p] # {} /\ p = i + k[ch][l1][m1]
      BY <1>2, SMTT(60)
    <2>q. PICK q \in DOMAIN nicks[ch][l2][m2] :
             nicks[ch][l2][m2][q] # {} /\ q = j + k[ch][l2][m2]
      BY <1>2, SMTT(60)
    <2>1. l1 = l2 /\ m1 = m2 /\ p = q
      <3>1. \A x \in DOMAIN nicks[ch][l1][m1], y \in DOMAIN nicks[ch][l2][m2] :
               nicks[ch][l1][m1][x] # {} /\ nicks[ch][l2][m2][y] # {}
                 => l1 = l2 /\ m1 = m2 /\ x = y
        BY ONLY <2>0, Zenon DEF OneOperator
      <3> QED
        BY <2>p, <2>q, <3>1, Zenon
    <2>2. l1 = l2 /\ m1 = m2 /\ i + k[ch][l1][m1] = j + k[ch][l1][m1]
      BY <2>1, <2>p, <2>q, Zenon
    <2>3. i \in Nat /\ j \in Nat
      OBVIOUS
    <2>4. k[ch][l1][m1] \in Nat
      BY SMTT(60)
    <2> QED
      BY <2>2, <2>3, <2>4
  <1> QED
    BY <1>1, <1>2, SMTT(60) DEF OpInv, OneOperator

(* The entries of n lose their first d[ch] in the lists of lid, and        *)
(* nothing else changes: both a part and a quit do that.                   *)
LEMMA OpDel ==
    ASSUME TypeOK, TypeOK', OpInv, chans' = chans,
           NEW n \in Nick, NEW lid \in Lease, NEW d \in [Chan -> Nat],
           \A ch \in Chan : \/ nicks'[ch] = nicks[ch]
                            \/ nicks'[ch] = [nicks[ch] EXCEPT ![lid] = del(n, d[ch], @)]
    PROVE  OpInv'
  <1> DEFINE k == [ch \in Chan |-> [l \in Lease |-> [m \in Nick |->
                     IF nicks'[ch] # nicks[ch] /\ l = lid /\ m = n THEN d[ch] ELSE 0]]]
  <1>1. k \in [Chan -> [Lease -> [Nick -> Nat]]]
    BY SMTT(60)
  <1>2. ASSUME NEW ch \in Chan, NEW l \in Lease, NEW m \in Nick,
               NEW i \in DOMAIN nicks'[ch][l][m]
        PROVE  /\ i \in Nat
               /\ i + k[ch][l][m] \in DOMAIN nicks[ch][l][m]
               /\ nicks'[ch][l][m][i] = nicks[ch][l][m][i + k[ch][l][m]]
    <2>0. /\ nicks[ch][l] \in ChannelNicks /\ nicks[ch][lid] \in ChannelNicks
          /\ d[ch] \in Nat
          /\ nicks[ch] \in [Lease -> ChannelNicks]
      BY DEF TypeOK
    <2>i. i \in Nat
      <3>1. nicks'[ch][l][m] \in Seq(NickMode)
        BY SMTT(60) DEF TypeOK, ChannelNicks
      <3> QED
        BY ONLY <3>1, i \in DOMAIN nicks'[ch][l][m]
    <2>1. CASE nicks'[ch] # nicks[ch] /\ l = lid /\ m = n
      <3>1. nicks'[ch][l] = del(n, d[ch], nicks[ch][lid])
        BY <2>0, <2>1, Zenon
      <3>2. k[ch][l][m] = d[ch]
        BY <2>1
      <3> HIDE DEF k
      <3> QED
        BY <2>0, <2>i, <2>1, <3>1, <3>2, DelEntries
    <2>2. CASE ~(nicks'[ch] # nicks[ch] /\ l = lid /\ m = n)
      <3>1. nicks'[ch][l][m] = nicks[ch][l][m]
        <4>1. \A x \in Nick : x # n => del(n, d[ch], nicks[ch][lid])[x] = nicks[ch][lid][x]
          BY <2>0, DelEntries
        <4> QED
          BY <2>0, <2>2, <4>1, ZenonT(60)
      <3>2. k[ch][l][m] = 0
        BY <2>2
      <3> HIDE DEF k
      <3> QED
        BY <2>i, <3>1, <3>2
    <2> QED
      BY <2>1, <2>2
  <1> HIDE DEF k
  <1> QED
    BY <1>1, <1>2, OpShrink, SMTT(60)

(* A join adds an operator entry only to a channel it creates, which had   *)
(* none.                                                                   *)
LEMMA OpJoin ==
    ASSUME TypeOK, OpInv, NEW n \in Nick, NEW ch \in Chan, NEW lid \in Lease,
           JoinTxn(n, ch, lid)
    PROVE  OpInv'
  <1> DEFINE list == nicks[ch][lid]
             md == JoinMode(ch)
             new == add(n, md, list)
  <1>0. /\ list \in ChannelNicks /\ md \in NickMode
        /\ nicks \in [Chan -> [Lease -> ChannelNicks]]
    BY DEF TypeOK, JoinMode, NickMode
  <1>1. /\ \A m \in Nick : m # n => new[m] = list[m]
        /\ \A i \in DOMAIN new[n] : new[n][i] = IF i \in DOMAIN list[n] THEN list[n][i] ELSE md
        /\ DOMAIN new[n] = DOMAIN list[n] \cup {Len(list[n]) + 1}
    <2> HIDE DEF list, md
    <2> QED
      BY <1>0, AddEntries
  <1>2. nicks' = [nicks EXCEPT ![ch][lid] = new] /\ chans' = chans \cup {ch}
    BY DEF JoinTxn
  <1>3. nicks'[ch][lid] = new
    BY <1>0, <1>2
  <1>4. /\ \A x \in Chan, l \in Lease : ~(x = ch /\ l = lid) => nicks'[x][l] = nicks[x][l]
    BY <1>0, <1>2
  <1>o. OneOperator /\ OpsAfterCreation
    BY DEF OpInv
  <1>c. ch \in chans => md = {}
    BY DEF JoinMode
  <1> HIDE DEF md, new
  <1>5. OpsAfterCreation'
    <2> SUFFICES ASSUME NEW x \in Chan, x \notin chans', NEW l \in Lease, NEW m \in Nick,
                        NEW i \in DOMAIN nicks'[x][l][m]
                 PROVE  nicks'[x][l][m][i] = {}
      BY DEF OpsAfterCreation
    <2>1. x \notin chans /\ nicks'[x][l][m] = nicks[x][l][m]
      BY <1>2, <1>4
    <2> QED
      BY ONLY <1>o, <2>1, i \in DOMAIN nicks'[x][l][m] DEF OpsAfterCreation
  <1>6. ASSUME NEW x \in Chan, NEW l \in Lease, NEW m \in Nick,
               NEW i \in DOMAIN nicks'[x][l][m], nicks'[x][l][m][i] # {}
        PROVE  \/ i \in DOMAIN nicks[x][l][m] /\ nicks[x][l][m][i] # {}
               \/ x = ch /\ ch \notin chans /\ l = lid /\ m = n /\ i = Len(list[n]) + 1
    BY ONLY <1>1, <1>3, <1>4, <1>6, <1>c
  <1>7. OneOperator'
    <2> SUFFICES ASSUME NEW x \in Chan, NEW l1 \in Lease, NEW l2 \in Lease,
                        NEW m1 \in Nick, NEW m2 \in Nick,
                        NEW i \in DOMAIN nicks'[x][l1][m1], NEW j \in DOMAIN nicks'[x][l2][m2],
                        nicks'[x][l1][m1][i] # {}, nicks'[x][l2][m2][j] # {}
                 PROVE  l1 = l2 /\ m1 = m2 /\ i = j
      BY DEF OneOperator
    <2>1. CASE x = ch /\ ch \notin chans
      <3>1. \A l \in Lease, m \in Nick : \A p \in DOMAIN nicks[x][l][m] : nicks[x][l][m][p] = {}
        BY <1>o, <2>1 DEF OpsAfterCreation
      <3> QED
        BY <1>6, <3>1, SMTT(60)
    <2>2. CASE ~(x = ch /\ ch \notin chans)
      <3>1. /\ i \in DOMAIN nicks[x][l1][m1] /\ nicks[x][l1][m1][i] # {}
            /\ j \in DOMAIN nicks[x][l2][m2] /\ nicks[x][l2][m2][j] # {}
        BY <1>6, <2>2, SMTT(60)
      <3> QED
        BY ONLY <1>o, <3>1, SMTT(60) DEF OneOperator
    <2> QED
      BY <2>1, <2>2
  <1> QED
    BY <1>5, <1>7 DEF OpInv

(* Every step keeps OpInv.                                                 *)
LEMMA OpStep == TypeOK /\ TypeOK' /\ OpInv /\ [Next]_vars => OpInv'
  <1> SUFFICES ASSUME TypeOK, TypeOK', OpInv, [Next]_vars
               PROVE  OpInv'
    BY SMTT(60)
  <1>1. CASE UNCHANGED <<chans, nicks>>
    BY <1>1, SMTT(60) DEF OpInv, OneOperator, OpsAfterCreation
  <1>2. ASSUME NEW l \in Lease, LeaseExpire(l)
        PROVE  OpInv'
    <2>1. /\ chans' = chans
          /\ \A ch \in Chan : nicks'[ch] = [nicks[ch] EXCEPT ![l] = NoNicks]
      BY <1>2 DEF LeaseExpire
    <2>2. \A ch \in Chan, x \in Lease, m \in Nick :
             nicks'[ch][x][m] = IF x = l THEN <<>> ELSE nicks[ch][x][m]
      BY <2>1 DEF NoNicks, TypeOK
    <2>3. \A ch \in Chan, x \in Lease, m \in Nick : \A i \in DOMAIN nicks'[ch][x][m] :
             i \in DOMAIN nicks[ch][x][m] /\ nicks'[ch][x][m][i] = nicks[ch][x][m][i]
      BY <2>2
    <2>4. OneOperator /\ OpsAfterCreation
      BY DEF OpInv
    <2>5. OneOperator'
      BY ONLY <2>3, <2>4 DEF OneOperator
    <2>6. OpsAfterCreation'
      BY ONLY <2>1, <2>3, <2>4 DEF OpsAfterCreation
    <2> QED
      BY <2>5, <2>6 DEF OpInv
  <1>3. ASSUME NEW n \in Nick, NEW ch \in Chan, NEW lid \in Lease, PartTxn(n, ch, lid)
        PROVE  OpInv'
    <2> DEFINE d == [x \in Chan |-> 1]
    <2>1. d \in [Chan -> Nat] /\ chans' = chans
      BY <1>3 DEF PartTxn
    <2>2. \A x \in Chan : \/ nicks'[x] = nicks[x]
                          \/ nicks'[x] = [nicks[x] EXCEPT ![lid] = del(n, d[x], @)]
      BY <1>3 DEF PartTxn, TypeOK
    <2> HIDE DEF d
    <2> QED
      BY <2>1, <2>2, OpDel
  <1>4. ASSUME NEW n \in Nick, NEW lid \in Lease, QuitTxn(n, lid)
        PROVE  OpInv'
    <2> DEFINE d == userCtl[n].Channels
    <2>1. d \in [Chan -> Nat] /\ chans' = chans
      BY <1>4 DEF QuitTxn, TypeOK, UserValue
    <2>2. \A x \in Chan : \/ nicks'[x] = nicks[x]
                          \/ nicks'[x] = [nicks[x] EXCEPT ![lid] = del(n, d[x], @)]
      BY <1>4 DEF QuitTxn, TypeOK
    <2> HIDE DEF d
    <2> QED
      BY <2>1, <2>2, OpDel
  <1>5. live \subseteq Lease
    BY DEF TypeOK
  <1> QED
    BY <1>1, <1>2, <1>3, <1>4, <1>5, OpJoin, StoreCases, Zenon
       DEF StoreSteps, etcdVars, RegisterTxn, CleanNicks

(* However joins on all the servers interleave, and whatever expires, a    *)
(* channel has at most one operator entry.                                 *)
THEOREM SingleOperator == Spec => []OneOperator
  <1>1. Init => OpInv
    BY DEF Init, OpInv, OneOperator, OpsAfterCreation, NoNicks
  <1>2. OpInv => OneOperator
    BY DEF OpInv
  <1> QED
    BY <1>1, <1>2, OpStep, TypeCorrect, PTL DEF Spec

-----------------------------------------------------------------------------
(***************************************************************************)
(* Clients keep their message key.                                         *)
(***************************************************************************)

(* No client starts, and none that goes on changes its nick.               *)
NoNewClient ==
    \A c \in Conn : client'[c].st = "up" =>
        client[c].st = "up" /\ client'[c].nick = client[c].nick

(* The ends of a command are such steps.                                   *)
LEMMA EndsKeepClients ==
    ASSUME TypeOK, NEW c \in Conn, Return(c) \/ Fail(c)
    PROVE  NoNewClient
  <1> USE DEF NoNewClient
  <1>1. client \in [Conn -> Client]
    BY DEF TypeOK
  <1>2. client[c] \in Client
    BY <1>1
  <1>3. CASE Return(c)
    <2>1. client'[c] = [client[c] EXCEPT !.lid = NoLease]
      BY <1>1, <1>3 DEF Return
    <2>2. client'[c].st = client[c].st /\ client'[c].nick = client[c].nick
      BY <1>2, <2>1 DEF Client
    <2> QED
      BY <1>1, <1>3, <2>2 DEF Return
  <1>4. CASE Fail(c)
    BY <1>1, <1>4 DEF Fail, GoneClient
  <1> QED
    BY <1>3, <1>4

(* A client that outlives an eviction of the nicks N has another nick.     *)
LEMMA EvictedClients ==
    ASSUME NEW cl \in [Conn -> Client], NEW N, NEW c \in Conn, Evicted(cl, N)[c].st = "up"
    PROVE  cl[c].st = "up" /\ Evicted(cl, N)[c] = cl[c] /\ cl[c].nick \notin N
  <1>1. Evicted(cl, N)[c] = IF cl[c].st = "up" /\ cl[c].nick \in N
                            THEN IF LateEviction THEN [cl[c] EXCEPT !.st = "doomed"] ELSE GoneClient
                            ELSE cl[c]
    BY DEF Evicted
  <1>2. cl[c] \in Client
    OBVIOUS
  <1>3. [cl[c] EXCEPT !.st = "doomed"].st # "up"
    BY <1>2 DEF Client
  <1> QED
    BY <1>1, <1>3 DEF GoneClient

(* A step either ends or keeps clients and keeps the message keys, or is   *)
(* one of the three that touch message keys.                               *)
LEMMA ReachableStep == TypeOK /\ UpIsReachable /\ [Next]_vars => UpIsReachable'
  <1> SUFFICES ASSUME TypeOK, UpIsReachable, [Next]_vars
               PROVE  UpIsReachable'
    OBVIOUS
  <1>0. client \in [Conn -> Client] /\ userMsg \in [Nick -> Lease \cup {NoLease}]
    BY DEF TypeOK
  <1>1. NoNewClient /\ UNCHANGED userMsg => UpIsReachable'
    BY DEF UpIsReachable, NoNewClient
  <1>2. ASSUME NEW s \in Server, NewSession(s) \/ SessionDone(s) \/ Crash(s)
        PROVE  UpIsReachable'
    BY <1>0, <1>1, <1>2, SMTT(60) DEF NewSession, SessionDone, Crash, GoneClient, NoNewClient, etcdVars
  <1>3. ASSUME NEW l \in Lease, LeaseExpire(l)
        PROVE  UpIsReachable'
    <2> SUFFICES ASSUME NEW c \in Conn, client'[c].st = "up"
                 PROVE  userMsg'[client'[c].nick] # NoLease
      BY SMTT(60) DEF UpIsReachable
    <2> DEFINE N == {n \in Nick : userMsg[n] = l}
    <2>1. client[c].st = "up" /\ client'[c] = client[c] /\ client[c].nick \notin N
      BY <1>0, <1>3, EvictedClients DEF LeaseExpire
    <2>2. client[c].nick \in Nick
      BY <1>0, <2>1 DEF Client
    <2> QED
      BY <1>3, <2>1, <2>2 DEF LeaseExpire, UpIsReachable
  <1>4. ASSUME NEW c \in Conn, NEW s \in Server, Accept(c, s)
        PROVE  UpIsReachable'
    <2>1. client'[c] = [client[c] EXCEPT !.st = "handshake", !.srv = s] /\ client[c] \in Client
      BY <1>0, <1>4 DEF Accept
    <2>2. client'[c].st # "up"
      BY <2>1 DEF Client
    <2> QED
      BY <1>0, <1>1, <1>4, <2>2 DEF Accept, NoNewClient, etcdVars
  <1>5. ASSUME NEW c \in Conn, Session(c)
        PROVE  UpIsReachable'
    <2>1. client'[c] = [client[c] EXCEPT !.lid = ses[client[c].srv]] /\ client[c] \in Client
      BY <1>0, <1>5 DEF Session
    <2>2. client'[c].st = client[c].st /\ client'[c].nick = client[c].nick
      BY <2>1 DEF Client
    <2> QED
      BY <1>0, <1>1, <1>5, <2>2 DEF Session, NoNewClient, etcdVars
  <1>6. ASSUME NEW c \in Conn, NEW n \in Nick, newEtcdClient(c, n)
        PROVE  UpIsReachable'
    <2>1. client[c].lid \in Lease
      BY <1>0, <1>6 DEF newEtcdClient, Client
    <2>2. CASE RegisterTxn(n, client[c].lid) /\ client' = [client EXCEPT ![c] = UpClient(@.srv, n)]
      BY <1>0, <2>1, <2>2, DistinctNone DEF RegisterTxn, UpClient, UpIsReachable
    <2> QED
      BY <1>1, <1>6, <2>2, EndsKeepClients, SMTT(60) DEF newEtcdClient, etcdVars
  <1>7. ASSUME NEW c \in Conn, Disconnect(c) \/ Evict(c)
        PROVE  UpIsReachable'
    BY <1>1, <1>7, EndsKeepClients, SMTT(60) DEF Disconnect, Evict, etcdVars
  <1>8. ASSUME NEW c \in Conn, NEW ch \in Chan, Join(c, ch) \/ Part(c, ch)
        PROVE  UpIsReachable'
    BY <1>1, <1>8, EndsKeepClients DEF Join, Part, JoinTxn, PartTxn, etcdVars
  <1>9. ASSUME NEW c \in Conn, NEW ch \in Chan, NEW m \in Nick, kick(c, ch, m)
        PROVE  UpIsReachable'
    BY <1>1, <1>9, EndsKeepClients DEF kick, PartTxn, etcdVars
  <1>10. ASSUME NEW c \in Conn, Quit(c)
         PROVE  UpIsReachable'
    <2> DEFINE n == client[c].nick
               cl == [client EXCEPT ![c].lid = NoLease]
               N == IF userMsg[n] = NoLease THEN {} ELSE {n}
    <2>1. CASE Fail(c) /\ UNCHANGED etcdVars
      BY <1>1, <2>1, EndsKeepClients, SMTT(60) DEF etcdVars
    <2>2. CASE QuitTxn(n, client[c].lid) /\ client' = Evicted(cl, N)
      <3> SUFFICES ASSUME NEW d \in Conn, client'[d].st = "up"
                   PROVE  userMsg'[client'[d].nick] # NoLease
        BY DEF UpIsReachable
      <3>1. cl \in [Conn -> Client]
        BY ClientTypes, SMTT(60)
      <3>2. cl[d].st = "up" /\ client'[d] = cl[d] /\ cl[d].nick \notin N
        <4> HIDE DEF cl, N
        <4> QED
          BY <2>2, <3>1, EvictedClients
      <3>3. client[d].st = "up" /\ cl[d].nick = client[d].nick
        <4>1. client[d] \in Client /\ cl[d] = IF d = c THEN [client[d] EXCEPT !.lid = NoLease] ELSE client[d]
          BY <1>0
        <4> QED
          BY <3>2, <4>1 DEF Client
      <3>4. client[d].nick \in Nick
        BY <1>0, <3>3 DEF Client
      <3> QED
        BY <1>0, <2>2, <3>2, <3>3, <3>4 DEF QuitTxn, UpIsReachable
    <2> QED
      BY <1>10, <2>1, <2>2 DEF Quit
  <1>11. ASSUME NEW c \in Conn, NEW ch \in Chan, CleanNicks(c, ch)
         PROVE  UpIsReachable'
    BY <1>1, <1>11 DEF CleanNicks, NoNewClient
  <1>12. CASE UNCHANGED vars
    BY <1>1, <1>12 DEF vars, NoNewClient
  <1> QED
    BY <1>2, <1>3, <1>4, <1>5, <1>6, <1>7, <1>8, <1>9, <1>10, <1>11, <1>12 DEF Next

(* Whatever the timing, a client that was not told to stop can be reached. *)
THEOREM Reachable == Spec => []UpIsReachable
  <1>1. Init => UpIsReachable
    BY DEF Init, UpIsReachable, NewClient
  <1> QED
    BY <1>1, ReachableStep, TypeCorrect, PTL DEF Spec
=============================================================================
