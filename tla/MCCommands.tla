----------------------------- MODULE MCCommands -----------------------------
(***************************************************************************)
(* A small instance of Commands: the founder of a channel, n1, and a user  *)
(* n2 who may be on it, on one server or on two.                           *)
(***************************************************************************)
EXTENDS Commands

MCNick  == {"n1", "n2"}
MCChan  == {"a", "b"}
MCLease == {"l1", "l2"}

MCNoticed == {keyUserMsg("n2")}

(* The second goroutine of n2 is for the second channel of a JOIN.         *)
MCProc == {<<"n1", 1>>, <<"n2", 1>>, <<"n2", 2>>}

Cmd(op, ch, to, arg) == [op |-> op, ch |-> ch, to |-> to, arg |-> arg]

MCScript(n) ==
    IF n = "n1"
    THEN {Cmd("PRIVMSG", NoChan, "n2", <<>>), Cmd("KICK", "a", "n2", <<>>),
          Cmd("MODE", "a", NoNick, <<"+", "m">>), Cmd("MODE", "a", NoNick, <<"-", "m">>),
          Cmd("MODE", NoChan, NoNick, <<"+", "E">>), Cmd("QUIT", NoChan, NoNick, <<>>)}
    ELSE {Cmd("PRIVMSG", "a", NoNick, <<>>), Cmd("PRIVMSG", NoChan, "n1", <<>>),
          Cmd("TOPIC", "a", NoNick, <<"set">>), Cmd("KICK", "a", "n1", <<>>),
          Cmd("JOIN", "a", NoNick, <<>>), Cmd("JOIN", "b", NoNick, <<>>),
          Cmd("PART", "a", NoNick, <<>>), Cmd("QUIT", NoChan, NoNick, <<>>),
          Cmd("AWAY", NoChan, NoNick, <<"+", "a">>), Cmd("OPER", NoChan, NoNick, <<"right">>)}

(* n1 founded channel "a"; l is the lease of n2.                           *)
Store(l, joined, chanModes, userModes, oper) ==
    [k \in Keys |->
        CASE k = keyUserCtl("n1") -> [Lease |-> "l1", Mode |-> {}, Channels |-> <<"a">>]
          [] k = keyUserCtl("n2") -> [Lease |-> l, Mode |-> userModes,
                                      Channels |-> IF joined THEN <<"a">> ELSE <<>>]
          [] k \in {keyUserMsg("n1"), keyUserMsg("n2")} -> ""
          [] k = keyChanCtl("a") -> [Mode |-> chanModes, Topic |-> NoNick]
          [] k = keyChanMsg("a") -> "JOIN"
          [] k = keyChanNicks("a", "l1") -> IF joined /\ l = "l1"
                                            THEN <<<<"n1", TRUE>>, <<"n2", FALSE>>>>
                                            ELSE <<<<"n1", TRUE>>>>
          [] k = keyChanNicks("a", "l2") /\ joined /\ l = "l2" -> <<<<"n2", FALSE>>>>
          [] k \in {leaseOf("l1"), leaseOf(l)} -> "held"
          [] k = keyOperCtl -> oper
          [] OTHER -> None]

MCInitial ==
    {[Store("l2", FALSE, {}, {}, None) EXCEPT ![keyUserCtl("n2")] = None,
                                              ![keyUserMsg("n2")] = None],  \* n2 has gone
     Store("l1", TRUE,  {}, {}, <<"right">>),
     Store("l2", TRUE,  {"m", "t"}, {"E"}, None),
     Store("l2", FALSE, {"t"}, {}, <<"right">>)}
=============================================================================
