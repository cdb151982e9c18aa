------------------------------ MODULE Commands ------------------------------
(***************************************************************************)
(* The commands that change users and channels, as the closures they hand  *)
(* to doSTM, for Transactions to execute.                                  *)
(*                                                                         *)
(* A command is [op, nick, ch, to, arg, lid]: what it is, who gave it, its *)
(* channel, the user it is about, its other arguments, and the lease of    *)
(* the session that was fetched before the transaction began.              *)
(***************************************************************************)
EXTENDS Transactions, SequencesExt, TLC

CONSTANTS
    Nick, NoNick,
    Chan, NoChan,
    Lease,
    Noticed,       \* the message keys that the administrator sends notices to
    Script(_)      \* the commands a nick may give, with no session yet

-----------------------------------------------------------------------------
(***************************************************************************)
(* Keys and values.  A user is [Lease, Mode, Channels], a channel is       *)
(* [Mode, Topic], an operator's record is its password.  A nick list is a  *)
(* sequence of pairs of a nick and whether its modes are "Oo"; no command  *)
(* sets them apart or gives voice.  A message key holds the kind of the    *)
(* last message.  etcd's leases are kept like keys.                        *)
(***************************************************************************)
keyUserCtl(n)      == <<"user ctl", n>>
keyUserMsg(n)      == <<"user msg", n>>
keyChanCtl(ch)     == <<"chan ctl", ch>>
keyChanMsg(ch)     == <<"chan msg", ch>>
keyChanNicks(ch, l) == <<"chan nicks", ch, l>>
keyOperCtl         == <<"oper ctl">>
leaseOf(l)         == <<"lease", l>>

Keys ==
    {keyUserCtl(n) : n \in Nick} \cup {keyUserMsg(n) : n \in Nick}
      \cup {keyChanCtl(ch) : ch \in Chan} \cup {keyChanMsg(ch) : ch \in Chan}
      \cup {keyChanNicks(ch, l) : ch \in Chan, l \in Lease}
      \cup {keyOperCtl} \cup {leaseOf(l) : l \in Lease}

(* A list as its key holds it, or the empty one.                           *)
ListOf(v, k) == IF v[k] = None THEN <<>> ELSE v[k]

(* The first entry of a nick decides, and goes first.                      *)
find(list, n) == SelectInSeq(list, LAMBDA e : e[1] = n)
IsOp(list, n) == find(list, n) # 0 /\ list[find(list, n)][2]
del(list, n)  == RemoveFirstMatch(list, LAMBDA e : e[1] = n)

inChan(uv, ch) == ch \in ToSet(uv.Channels)
part(uv, ch)   == [uv EXCEPT !.Channels = RemoveFirst(@, ch)]

-----------------------------------------------------------------------------
(***************************************************************************)
(* What a closure comes to: it fails, or leaves the store alone, or writes *)
(* puts, of which some keep the lease that their key has or use one.  set  *)
(* are the closure's variables that it makes true, kept the ones that it   *)
(* does not assign; it makes the others false.                             *)
(***************************************************************************)
Error == [err |-> TRUE, puts |-> <<>>, keep |-> {}, set |-> {}, kept |-> {}]

Refuses(flag, kept) == [err |-> FALSE, puts |-> <<>>, keep |-> {}, set |-> {flag}, kept |-> kept]

Puts(w, keep, kept) == [err |-> FALSE, puts |-> w, keep |-> keep, set |-> {}, kept |-> kept]

Leaves == Puts(<<>>, {}, {})

privMsgUser(c, v) ==
    LET me     == v[keyUserCtl(c.nick)]
        target == v[keyUserCtl(c.to)]
    IN  IF target = None THEN Refuses("noNick", {"badOtr"})
        ELSE IF me = None THEN Error
        ELSE IF "a" \in target.Mode
             THEN Puts(keyUserMsg(c.nick) :> "AWAY", {keyUserMsg(c.nick)}, {"badOtr"})
        ELSE IF c.arg # <<"OTR">> /\ "E" \in me.Mode \cup target.Mode THEN Refuses("badOtr", {})
        ELSE Puts(keyUserMsg(c.to) :> "PRIVMSG", {keyUserMsg(c.to)},
                  IF c.arg = <<"OTR">> THEN {"badOtr"} ELSE {})

privMsgChan(c, v) ==
    LET me   == v[keyUserCtl(c.nick)]
        ctl  == v[keyChanCtl(c.ch)]
        list == v[keyChanNicks(c.ch, me.Lease)]
        Send(kept) == Puts(keyChanMsg(c.ch) :> "PRIVMSG", {keyChanMsg(c.ch)}, kept)
    IN  IF ctl = None THEN Refuses("noNick", {"noSend"})
        ELSE IF me = None THEN Error
        ELSE IF "m" \notin ctl.Mode THEN Send({"noSend"})
        ELSE IF list = None THEN Error
        ELSE IF find(list, c.nick) = 0 THEN Refuses("noNick", {"noSend"})
        ELSE IF ~IsOp(list, c.nick) THEN Refuses("noSend", {})
        ELSE Send({})

(* The password is right or wrong; whether the record makes a global       *)
(* operator is left to Modes.                                              *)
Oper(c, v) ==
    LET me == v[keyUserCtl(c.nick)]
    IN  IF me = None THEN Error
        ELSE IF v[keyOperCtl] # c.arg THEN Puts(<<>>, {}, {"loggedIn"})
        ELSE [Puts(keyUserCtl(c.nick) :> [me EXCEPT !.Mode = @ \cup {"o"}],
                   {keyUserCtl(c.nick)}, {}) EXCEPT !.set = {"loggedIn"}]

(* A slip: the user stays on the nick list.                                *)
kickFromRecord(c, v) ==
    LET target == v[keyUserCtl(c.to)]
    IN  IF target = None \/ ~inChan(target, c.ch) THEN Refuses("userNotOnChan", {})
        ELSE Puts(keyUserCtl(c.to) :> part(target, c.ch), {keyUserCtl(c.to)}, {})

(* The closure's own list is the target's when both are on one server.     *)
kick(c, v) ==
    LET mine   == v[keyChanNicks(c.ch, c.lid)]
        target == v[keyUserCtl(c.to)]
        theirs == keyChanNicks(c.ch, target.Lease)
    IN  IF mine = None \/ find(ListOf(v, keyChanNicks(c.ch, c.lid)), c.nick) = 0
             THEN Refuses("notOnChan", {"notOp", "userNotOnChan"})
        ELSE IF ~IsOp(mine, c.nick) THEN Refuses("notOp", {"userNotOnChan"})
        ELSE IF target = None \/ ~inChan(target, c.ch) THEN Refuses("userNotOnChan", {})
        ELSE IF v[theirs] = None THEN Error
        ELSE Puts(   keyUserCtl(c.to)  :> part(target, c.ch)
                  @@ theirs            :> del(v[theirs], c.to)
                  @@ keyChanMsg(c.ch)  :> "KICK",
                  {keyUserCtl(c.to), theirs}, {})

Join(c, v) ==
    LET me   == v[keyUserCtl(c.nick)]
        ctl  == v[keyChanCtl(c.ch)]
        nicks == keyChanNicks(c.ch, c.lid)
    IN  IF me = None THEN Error
        ELSE Puts(   keyUserCtl(c.nick) :> [me EXCEPT !.Channels = Append(@, c.ch)]
                  @@ keyChanCtl(c.ch)   :> (IF ctl = None THEN [Mode |-> {}, Topic |-> NoNick]
                                            ELSE ctl)
                  @@ nicks              :> Append(ListOf(v, nicks), <<c.nick, ctl = None>>)
                  @@ keyChanMsg(c.ch)   :> "JOIN",
                  {leaseOf(c.lid)}, {})

Part(c, v) ==
    LET me    == v[keyUserCtl(c.nick)]
        nicks == keyChanNicks(c.ch, c.lid)
        leave == keyUserCtl(c.nick) :> part(me, c.ch) @@ keyChanMsg(c.ch) :> "PART"
    IN  IF me = None THEN Error
        ELSE IF ~inChan(me, c.ch) THEN Refuses("notOnChan", {})
        ELSE IF v[nicks] = None THEN Puts(leave, {keyUserCtl(c.nick)}, {})
        ELSE Puts(leave @@ nicks :> del(v[nicks], c.nick), {keyUserCtl(c.nick), nicks}, {})

(* A slip: the user's record is left behind.                               *)
QuitKeepsCtl(c, v) == Puts(keyUserMsg(c.nick) :> None, {}, {})

(* A channel that is in the record twice is left twice.                    *)
Quit(c, v) ==
    LET me     == v[keyUserCtl(c.nick)]
        nicks(ch) == keyChanNicks(ch, c.lid)
        lists  == {nicks(ch) : ch \in {x \in ToSet(me.Channels) : v[nicks(x)] # None}}
        leave(w, ch) == IF nicks(ch) \in DOMAIN w
                        THEN [w EXCEPT ![nicks(ch)] = del(@, c.nick)] ELSE w
    IN  IF me = None THEN Error
        ELSE Puts(   FoldLeft(leave, Restrict(v, lists), me.Channels)
                  @@ [k \in {keyChanMsg(l[2]) : l \in lists} |-> "QUIT"]
                  @@ keyUserCtl(c.nick) :> None @@ keyUserMsg(c.nick) :> None,
                  lists, {})

(* A mode after "+x" or "-x"; Modes has the general case.                  *)
update(mode, arg) == IF arg[1] = "+" THEN mode \cup {arg[2]} ELSE mode \ {arg[2]}

chanMode(c, v) ==
    LET ctl  == v[keyChanCtl(c.ch)]
        list == v[keyChanNicks(c.ch, c.lid)]
        new  == update(ctl.Mode, c.arg)
    IN  IF ctl = None THEN Refuses("noChan", {"notOnChan", "notOp"})
        ELSE IF list = None THEN Error
        ELSE IF find(list, c.nick) = 0 THEN Refuses("notOnChan", {"notOp"})
        ELSE IF ~IsOp(list, c.nick) THEN Refuses("notOp", {})
        ELSE IF new = ctl.Mode THEN Leaves
        ELSE Puts(keyChanCtl(c.ch) :> [ctl EXCEPT !.Mode = new], {}, {})

userMode(c, v) ==
    LET me  == v[keyUserCtl(c.nick)]
        new == update(me.Mode, c.arg)
    IN  IF me = None THEN Error
        ELSE IF new = me.Mode THEN Leaves
        ELSE Puts(keyUserCtl(c.nick) :> [me EXCEPT !.Mode = new], {keyUserCtl(c.nick)}, {})

Away(c, v) ==
    LET me == v[keyUserCtl(c.nick)]
    IN  IF me = None THEN Error
        ELSE Puts(keyUserCtl(c.nick) :> [me EXCEPT !.Mode = update(@, c.arg)],
                  {keyUserCtl(c.nick)}, {})

(* TOPIC asks for the topic, or sets it: to the name of who set it.        *)
Topic(c, v) ==
    LET ctl  == v[keyChanCtl(c.ch)]
        list == v[keyChanNicks(c.ch, c.lid)]
        Set(kept) == Puts(   keyChanCtl(c.ch) :> [ctl EXCEPT !.Topic = c.nick]
                          @@ keyChanMsg(c.ch) :> "TOPIC", {}, kept)
    IN  IF ctl = None THEN Refuses("noChan", {"notOnChan", "notOp"})
        ELSE IF c.arg = <<"ask">> THEN Puts(<<>>, {}, {"notOnChan", "notOp"})
        ELSE IF "t" \notin ctl.Mode THEN Set({"notOnChan", "notOp"})
        ELSE IF list = None THEN Error
        ELSE IF find(list, c.nick) = 0 THEN Refuses("notOnChan", {"notOp"})
        ELSE IF ~IsOp(list, c.nick) THEN Refuses("notOp", {})
        ELSE Set({})

-----------------------------------------------------------------------------
(***************************************************************************)
(* The closures in the form that Transactions takes them.                  *)
(***************************************************************************)
Closure(c, v) ==
    CASE c.op = "PRIVMSG" /\ c.ch = NoChan -> privMsgUser(c, v)
      [] c.op = "PRIVMSG" /\ c.ch # NoChan -> privMsgChan(c, v)
      [] c.op = "OPER"  -> Oper(c, v)
      [] c.op = "KICK"  -> kick(c, v)
      [] c.op = "JOIN"  -> Join(c, v)
      [] c.op = "PART"  -> Part(c, v)
      [] c.op = "QUIT"  -> Quit(c, v)
      [] c.op = "MODE" /\ c.ch # NoChan -> chanMode(c, v)
      [] c.op = "MODE" /\ c.ch = NoChan -> userMode(c, v)
      [] c.op = "AWAY"  -> Away(c, v)
      [] c.op = "TOPIC" -> Topic(c, v)

(* A slip: no variable is ever reset.                                      *)
stickyFlags(c, v, old) == Closure(c, v).set \cup old

closureFlags(c, v, old) == Closure(c, v).set \cup (old \cap Closure(c, v).kept)

(* The keys that each command passes to doSTM.                             *)
prefetch(c) ==
    LET me    == keyUserCtl(c.nick)
        nicks == keyChanNicks(c.ch, c.lid)
    IN CASE c.op = "PRIVMSG" /\ c.ch = NoChan -> {me, keyUserCtl(c.to)}
         [] c.op = "PRIVMSG" /\ c.ch # NoChan -> {me, keyChanCtl(c.ch)}
         [] c.op = "OPER"  -> {me, keyOperCtl}
         [] c.op = "KICK"  -> {keyUserCtl(c.to), nicks}
         [] c.op = "JOIN"  -> {me, keyChanCtl(c.ch), nicks}
         [] c.op = "PART"  -> {me, nicks}
         [] c.op = "MODE" /\ c.ch # NoChan -> {keyChanCtl(c.ch), nicks}
         [] c.op = "TOPIC" -> {keyChanCtl(c.ch)}
         [] OTHER -> {me}

(* The nick lists that a closure comes to after that: its own under +m and *)
(* +t, those of every channel to quit, and that of the user to kick.       *)
furtherReads(c, v) ==
    LET me     == v[keyUserCtl(c.nick)]
        ctl    == v[keyChanCtl(c.ch)]
        target == v[keyUserCtl(c.to)]
    IN CASE c.op = "PRIVMSG" /\ c.ch # NoChan ->
              IF ctl # None /\ me # None /\ "m" \in ctl.Mode
              THEN {keyChanNicks(c.ch, me.Lease)} ELSE {}
         [] c.op = "TOPIC" ->
              IF ctl # None /\ c.arg # <<"ask">> /\ "t" \in ctl.Mode
              THEN {keyChanNicks(c.ch, c.lid)} ELSE {}
         [] c.op = "QUIT" ->
              IF me # None THEN {keyChanNicks(ch, c.lid) : ch \in ToSet(me.Channels)} ELSE {}
         [] c.op = "KICK" ->
              IF /\ IsOp(ListOf(v, keyChanNicks(c.ch, c.lid)), c.nick)
                 /\ target # None /\ inChan(target, c.ch)
              THEN {keyChanNicks(c.ch, target.Lease)} ELSE {}
         [] OTHER -> {}

(* A client gives commands one by one.  Its lease is that of its server's  *)
(* session.  Only JOIN starts goroutines, one for each of its channels.    *)
inputs(p, d) ==
    LET me == d[keyUserCtl(p[1])]
    IN IF me = None THEN {}
       ELSE {[op |-> c.op, nick |-> p[1], ch |-> c.ch, to |-> c.to, arg |-> c.arg,
              lid |-> me.Lease] : c \in Script(p[1])}

together(p, c, q, d) == p[1] # q[1] \/ (c.op = "JOIN" /\ d.op = "JOIN")

AllCommands ==
    {[op |-> c.op, nick |-> n, ch |-> c.ch, to |-> c.to, arg |-> c.arg, lid |-> l] :
        c \in UNION {Script(m) : m \in Nick}, n \in Nick, l \in Lease}

(* Expiry removes a lease and all keys under it at once.                   *)
expiry(l, d) ==
    [k \in {leaseOf(l)} \cup {keyChanNicks(ch, l) : ch \in Chan}
             \cup UNION {{keyUserCtl(n), keyUserMsg(n)} :
                            n \in {m \in Nick : d[keyUserCtl(m)] # None
                                               /\ d[keyUserCtl(m)].Lease = l}} |-> None]

(* "ircdctl oper" makes and removes an operator's record.                  *)
operEvents == {keyOperCtl :> <<"right">>, keyOperCtl :> None}

(* A slip: the key need not be there.                                      *)
noticeAnyway(d) == {k :> "NOTICE" : k \in Noticed}

(* "ircdctl notice" writes to message keys, each in a transaction of its   *)
(* own that does so if the key is there and otherwise leaves it.           *)
notices(d) == {k :> "NOTICE" : k \in {x \in Noticed : d[x] # None}}

events(d) == {expiry(l, d) : l \in {x \in Lease : d[leaseOf(x)] # None}}
               \cup {w \in operEvents : w[keyOperCtl] # d[keyOperCtl]}
               \cup notices(d)

-----------------------------------------------------------------------------
(***************************************************************************)
(* Properties.                                                             *)
(***************************************************************************)

(* What a finished command tells its client: the first of the reasons for  *)
(* a refusal that its variables hold, in the order of its switch.          *)
Reasons == <<"noNick", "noChan", "notOnChan", "userNotOnChan", "notOp", "noSend", "badOtr">>

Reply(c, flags) ==
    LET first == SelectInSeq(Reasons, LAMBDA r : r \in flags)
    IN  IF c.op = "OPER" THEN (IF "loggedIn" \in flags THEN "ok" ELSE "mismatch")
        ELSE IF first = 0 THEN "ok" ELSE Reasons[first]

Times(s, x) == Len(SelectSeq(s, LAMBDA y : y = x))

(* A user's record and the nick list of its session list the user on a     *)
(* channel equally often, and a list has no other nicks, though concurrent *)
(* joins (client.go:96), parts, kicks and quits all rewrite both.          *)
RecordsAgree ==
    \A n \in Nick, ch \in Chan, l \in Lease :
        LET me   == data[keyUserCtl(n)]
            list == ListOf(data, keyChanNicks(ch, l))
        IN Times([i \in DOMAIN list |-> list[i][1]], n)
             = IF me # None /\ me.Lease = l THEN Times(me.Channels, ch) ELSE 0

(* etcd never rejects the puts of a command that may commit: the keys      *)
(* whose leases they keep and the leases they use are there, also those    *)
(* the command never read, such as the message key of a user that was      *)
(* found (etcd_client.go:619) and the lease of its session (:273).         *)
PutsFindTheirKeys == \A p \in Proc : proc[p].st = "commit" /\ Current(p) => Accepted(p)

(* A user's message key is there exactly as long as the user: a message or *)
(* a notice that is late for a user who quit, or whose lease expired, does *)
(* not leave a key that a later user of the nick would find, and that      *)
(* nothing would remove (etcd_client.go:619, notice.go:40-44).             *)
KeysComeAndGo ==
    \A n \in Nick : data[keyUserMsg(n)] = None <=> data[keyUserCtl(n)] = None

OpNow(c) == IsOp(ListOf(data, keyChanNicks(c.ch, c.lid)), c.nick)

(* No message reaches a moderated channel, no topic is set under +t, no    *)
(* mode is changed and nobody is kicked, but by one who is an operator of  *)
(* the channel at that moment, whatever was true when the command looked   *)
(* (etcd_client.go:662-674, 488, 779, 991-1003).                           *)
ChannelRules ==
    [][ \A p \in Proc : LET c   == proc[p].cmd
                            ctl == data[keyChanCtl(c.ch)] IN
          Commit(p) /\ DOMAIN Outcome(p).puts # {} /\ c.ch # NoChan =>
            /\ c.op = "PRIVMSG" /\ "m" \in ctl.Mode => OpNow(c)
            /\ c.op = "TOPIC" /\ "t" \in ctl.Mode => OpNow(c)
            /\ c.op = "MODE" => OpNow(c)
            /\ c.op = "KICK" =>
                 OpNow(c) /\ LET u == data[keyUserCtl(c.to)]
                            IN  u # None /\ inChan(u, c.ch) ]_vars

(* No plain message is left for or by a user who is gone or is +E at that  *)
(* moment, and nobody becomes an operator but by the password that is set  *)
(* at that moment (etcd_client.go:609-619, 706-715).                       *)
UserRules ==
    [][ \A p \in Proc : LET c == proc[p].cmd IN
          Commit(p) =>
            /\ c.op = "PRIVMSG" /\ c.ch = NoChan /\ c.arg # <<"OTR">>
                 /\ keyUserMsg(c.to) \in DOMAIN Outcome(p).puts =>
                    \A n \in {c.nick, c.to} : LET u == data[keyUserCtl(n)]
                                              IN  u # None /\ "E" \notin u.Mode
            /\ c.op = "OPER" /\ DOMAIN Outcome(p).puts # {} => data[keyOperCtl] = c.arg ]_vars

(* A command is told to be refused exactly if the attempt that committed   *)
(* was, however many attempts came before it.  OPER, TOPIC and PRIVMSG do  *)
(* not assign all of their variables in every attempt and are not claimed. *)
Truthful(ops) ==
    \A p \in Proc : proc[p].st = "done" /\ proc[p].cmd.op \in ops =>
        (Reply(proc[p].cmd, proc[p].flags) = "ok"
           <=> Reply(proc[p].cmd, closureFlags(proc[p].cmd, proc[p].view, {})) = "ok")

RepliesAreTrue == Truthful({"JOIN", "PART", "KICK", "MODE", "AWAY", "QUIT"})

(* A client that is told ERR_CANNOTSENDTOCHAN has not sent its message     *)
(* (etcd_client.go:685).                                                   *)
RefusedIsNotSent ==
    \A p \in Proc : proc[p].st = "done" /\ Reply(proc[p].cmd, proc[p].flags) = "noSend" =>
        keyChanMsg(proc[p].cmd.ch) \notin DOMAIN Outcome(p).puts
=============================================================================
