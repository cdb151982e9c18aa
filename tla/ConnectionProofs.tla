-------------------------- MODULE ConnectionProofs --------------------------
(***************************************************************************)
(* Safety of a connection, for channels of any capacity and any number of  *)
(* messages: each goroutine reports once, the encoder has one user, and no *)
(* monitor outlives its handler.                                           *)
(***************************************************************************)
EXTENDS Connection, TLAPS

(* Errors that are in errc or may still come.                              *)
Errors ==
    /\ errc \in Nat
    /\ errc <= ErrCap
    /\ reader # "ended" \/ writer # "ended" => errc < ErrCap
    /\ reader # "ended" /\ writer # "ended" => errc = 0

Lock ==
    /\ monitor = [m \in Monitor |-> monitor[m]]
    /\ (writer = "encode") <=> (wmu = "writer")
    /\ (monitor["user"] = "encode") <=> (wmu = "monitor")

Over == \A m \in Monitor : monitor[m] \in {"none", "ended"}

(* No monitor before the user is registered, and none after the handler    *)
(* has returned.                                                           *)
Lifetimes ==
    /\ at \in {"request", "cap", "register", "inuse", "retry"} => Over
    /\ at = "returned" /\ ~srv => Over

Inv == Errors /\ Lock /\ Lifetimes

LEMMA InitInv == Init => Inv
<1>1. Init => Errors
  BY DEF Init, Errors, ErrCap
<1>2. Init => Lock
  BY DEF Init, Lock, Monitor
<1>3. Init => Lifetimes
  BY DEF Init, Lifetimes, Over
<1> QED
  BY <1>1, <1>2, <1>3 DEF Inv

(* A report takes its goroutine's place in errc.                           *)
LEMMA ErrorsKept == Errors /\ [Next]_vars => Errors'
<1> SUFFICES ASSUME Errors, [Next]_vars
             PROVE  Errors'
  OBVIOUS
<1> USE DEF Errors, ErrCap
<1>1. CASE Decode \/ Reader
  BY <1>1 DEF Decode, Reader, DecodeFails, PutMessage, ReaderReports
<1>2. CASE Writer
  BY <1>2 DEF Writer, WriterLocks, WriterReports, WriterEncodes
<1>3. CASE Handler
  BY <1>3 DEF Handler, ReadRequest, SendCap, Register, SendInUse, Retry, SendWelcome,
       Welcomed, Fetch, LeaveLoop, SendReply, CommandEnds, Cancel, Return, SendMsg,
       HandOver, ioVars
<1>4. CASE Deletion
  BY <1>4 DEF Deletion, SeesDeletion, SyncLocks, SyncEncodes, ioVars
<1>5. ASSUME NEW m \in Monitor, ForwardNext(m) \/ Watching(m)
      PROVE  Errors'
  BY <1>5 DEF ForwardNext, Watching, Forward, WatchEnds, Drained, HandOver, ioVars
<1>6. CASE PeerStalls \/ PeerReads \/ PeerGoes \/ Shutdown \/ KeyGoes \/ UNCHANGED vars
  BY <1>6 DEF PeerStalls, PeerReads, PeerGoes, Shutdown, KeyGoes, vars, ioVars
<1> QED
  BY <1>1, <1>2, <1>3, <1>4, <1>5, <1>6 DEF Next

(* A monitor that moves leaves the others where they are.                  *)
LEMMA MovesOne ==
    ASSUME Lock, NEW m, NEW from, NEW to, Moves(m, from, to)
    PROVE  /\ monitor' = [n \in Monitor |-> monitor'[n]]
           /\ \A n \in Monitor : n # m => monitor'[n] = monitor[n]
           /\ m \in Monitor => monitor[m] = from /\ monitor'[m] = to
  BY DEF Lock, Moves

LEMMA LockKept == Lock /\ Lifetimes /\ [Next]_vars => Lock'
<1> SUFFICES ASSUME Lock, Lifetimes, [Next]_vars
             PROVE  Lock'
  OBVIOUS
<1>1. CASE Decode \/ Reader
  BY <1>1 DEF Lock, Decode, Reader, DecodeFails, PutMessage, ReaderReports, monVars
<1>2. CASE Writer
  BY <1>2 DEF Lock, Writer, WriterLocks, WriterReports, WriterEncodes, monVars
<1>3. CASE Handler
  <2>1. /\ wmu' = wmu
        /\ writer' = writer \/ (writer = "wait" /\ writer' = "lock")
    BY <1>3 DEF Handler, ReadRequest, SendCap, Register, SendInUse, Retry, SendWelcome,
         Welcomed, Fetch, LeaveLoop, SendReply, CommandEnds, Cancel, Return, SendMsg,
         HandOver, ioVars
  <2>2. /\ monitor' = [m \in Monitor |-> monitor'[m]]
        /\ monitor'["user"] = monitor["user"]
             \/ (monitor'["user"] = "watch" /\ Register)
    BY <1>3 DEF Lock, Monitor, Handler, ReadRequest, SendCap, Register, SendInUse, Retry,
         SendWelcome, Welcomed, Fetch, LeaveLoop, SendReply, CommandEnds, Cancel, Return,
         monVars
  <2>3. Register => monitor["user"] # "encode"
    BY DEF Register, Lifetimes, Over, Monitor
  <2> QED
    BY <2>1, <2>2, <2>3 DEF Lock
<1>4. CASE Deletion
  <2>1. CASE SeesDeletion
    BY <2>1, MovesOne DEF Lock, SeesDeletion, ioVars, Monitor
  <2>2. CASE SyncLocks
    BY <2>2, MovesOne DEF Lock, SyncLocks, Monitor
  <2>3. ASSUME NEW ok \in BOOLEAN, SyncEncodes(ok)
        PROVE  Lock'
    BY <2>3, MovesOne DEF Lock, SyncEncodes, Stops, Monitor
  <2> QED
    BY <1>4, <2>1, <2>2, <2>3 DEF Deletion
<1>5. ASSUME NEW m \in Monitor, ForwardNext(m) \/ Watching(m)
      PROVE  Lock'
  <2>1. /\ wmu' = wmu
        /\ writer' = writer \/ (writer = "wait" /\ writer' = "lock")
    BY <1>5 DEF ForwardNext, Watching, Forward, WatchEnds, Drained, HandOver, ioVars
  <2>2. \E from \in {"watch", "send", "drain"}, to \in {"send", "watch", "ended", "drain"} :
           Moves(m, from, to)
    BY <1>5 DEF ForwardNext, Watching, Forward, WatchEnds, Drained, Stops
  <2> QED
    BY <2>1, <2>2, MovesOne DEF Lock, Monitor
<1>6. CASE PeerStalls \/ PeerReads \/ PeerGoes \/ Shutdown \/ KeyGoes \/ UNCHANGED vars
  BY <1>6 DEF Lock, PeerStalls, PeerReads, PeerGoes, Shutdown, KeyGoes, vars, ioVars, monVars
<1> QED
  BY <1>1, <1>2, <1>3, <1>4, <1>5, <1>6 DEF Next

LEMMA LifetimesKept == Lock /\ Lifetimes /\ [Next]_vars => Lifetimes'
<1> SUFFICES ASSUME Lock, Lifetimes, [Next]_vars
             PROVE  Lifetimes'
  OBVIOUS
<1>1. CASE Decode \/ Reader \/ Writer
  BY <1>1 DEF Lifetimes, Over, Decode, Reader, DecodeFails, PutMessage, ReaderReports,
       Writer, WriterLocks, WriterReports, WriterEncodes, monVars, cliVars
<1>2. CASE Register
  BY <1>2 DEF Lock, Lifetimes, Over, Register, Monitor
<1>3. CASE CommandEnds
  BY <1>3 DEF Lock, Lifetimes, Over, CommandEnds, cliVars
<1>4. CASE Handler /\ ~Register /\ ~CommandEnds
  <2>1. UNCHANGED <<monitor, srv>>
    BY <1>4 DEF Handler, ReadRequest, SendCap, SendInUse, Retry, SendWelcome,
         Welcomed, Fetch, LeaveLoop, SendReply, Cancel, Return, monVars, cliVars
  <2>2. Over' <=> Over
    BY <2>1 DEF Over
  <2>3. CASE ReadRequest \/ SendCap \/ SendInUse \/ Retry
    BY <2>2, <2>3 DEF Lifetimes, ReadRequest, SendCap, SendInUse, Retry
  <2>4. CASE Welcomed
    BY <2>1, <2>4 DEF Lifetimes, Welcomed
  <2>5. CASE SendWelcome \/ Fetch \/ LeaveLoop \/ SendReply \/ Cancel \/ Return
    BY <2>2, <2>5 DEF Lifetimes, Over, SendWelcome, Fetch, LeaveLoop, SendReply, Cancel, Return
  <2> QED
    BY <1>4, <2>3, <2>4, <2>5 DEF Handler
<1>5. CASE Deletion
  BY <1>5, MovesOne DEF Lifetimes, Over, Deletion, SeesDeletion, SyncLocks, SyncEncodes,
       Stops, Monitor, cliVars
<1>6. ASSUME NEW m \in Monitor, ForwardNext(m) \/ Watching(m)
      PROVE  Lifetimes'
  <2>1. /\ UNCHANGED <<at, srv>>
        /\ \E from \in {"watch", "send", "drain"}, to \in {"send", "watch", "ended", "drain"} :
              Moves(m, from, to)
    BY <1>6 DEF ForwardNext, Watching, Forward, WatchEnds, Drained, Stops, cliVars
  <2>2. ~Over
    BY <2>1, MovesOne DEF Over
  <2> QED
    BY <2>1, <2>2 DEF Lifetimes
<1>7. CASE PeerStalls \/ PeerReads \/ PeerGoes \/ Shutdown \/ KeyGoes \/ UNCHANGED vars
  BY <1>7 DEF Lifetimes, Over, PeerStalls, PeerReads, PeerGoes, Shutdown, KeyGoes, vars,
       cliVars, monVars
<1> QED
  BY <1>1, <1>2, <1>3, <1>4, <1>5, <1>6, <1>7 DEF Next, Handler

LEMMA InvHolds == Spec => []Inv
  BY InitInv, ErrorsKept, LockKept, LifetimesKept, PTL DEF Spec, Inv

(* The capacity of errc suffices whatever the handler does (conn.go:33).   *)
THEOREM ReportsNeverWait == Spec => []ReportsFindRoom
<1>1. Inv => ReportsFindRoom
  BY DEF Inv, Errors, ReportsFindRoom
<1> QED
  BY <1>1, InvHolds, PTL

(* The lock keeps messages whole (conn.go:23).                             *)
THEOREM EncoderIsExclusive == Spec => []OneEncoder
<1>1. Inv => OneEncoder
  BY DEF Inv, Lock, OneEncoder
<1> QED
  BY <1>1, InvHolds, PTL

(* No monitor outlives a handler that was not cut short (server.go:75-78). *)
THEOREM HandlersLeaveNothing == Spec => []MonitorsEndFirst
<1>1. Inv => MonitorsEndFirst
  BY DEF Inv, Lifetimes, Over, MonitorsEndFirst
<1> QED
  BY <1>1, InvHolds, PTL
=============================================================================
