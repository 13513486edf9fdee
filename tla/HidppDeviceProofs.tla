-------------------------- MODULE HidppDeviceProofs --------------------------
(***************************************************************************)
(* For any number of threads, calls and reports, every mix of backends and *)
(* both things a second lock of a mutex may do: the mutex keeps threads    *)
(* apart from hid_read to the answer of hid_error, so that a failure is    *)
(* told by its own text, a report that was read is what the call returns,  *)
(* and reports are returned in order, but for a read_back() that is        *)
(* overtaken after it gave the mutex back.                                 *)
(***************************************************************************)
EXTENDS HidppDevice, SequenceTheorems, FiniteSetTheorems, TLAPS

-----------------------------------------------------------------------------
(***************************************************************************)
(* The inductive invariant                                                 *)
(***************************************************************************)
Values == {Nothing, Error, Zeros} \cup 1 .. MaxReports

\* Calls are numbered, and no two that run have one number.
NumberInv ==
    /\ calls \in 0 .. MaxCalls /\ text <= calls /\ last <= arrived
    /\ buf \in [Threads -> Values] /\ returned \in [Threads -> Values]
    /\ \A t \in Threads : call[t] <= calls
    /\ \A t \in Threads : Busy(t) => call[t] > 0
    /\ \A t, s \in Threads : t # s /\ Busy(t) /\ Busy(s) => call[t] # call[s]

\* From hid_read to hid_error's answer a call holds the mutex, over an open
\* handle, and only a read_back() goes on without it.
Holding == {"reading", "read", "stuck"}
LockInv ==
    \A t \in Threads :
        /\ pc[t] \in Holding <=> holder = t
        /\ pc[t] \in Holding => m_dev = "open" /\ op[t] \in Reads
        /\ pc[t] = "unlocked" => op[t] = "read_back"

\* Whose text the backend keeps.  A call finds no text on linux, none ever on
\* libusb and mac, and none of its own until it fails.
TextInv ==
    /\ backend \in {"libusb", "mac"} => text = NoText
    /\ \A t \in Threads :
        /\ pc[t] = "reading" \/ (pc[t] = "read" /\ buf[t] # Error) =>
             (backend = "linux" => text = NoText)
        /\ pc[t] \in {"called", "reading"} \/ (pc[t] = "read" /\ buf[t] # Error) =>
             text # call[t]

\* Reports wait in the order they came, behind what was returned and what a
\* thread is about to return.
Between(q, low, high) ==
    /\ \A i \in 1 .. Len(q) : low < q[i] /\ q[i] <= high
    /\ \A i, j \in 1 .. Len(q) : i < j => q[i] < q[j]
OrderInv ==
    /\ Between(queue, last, arrived)
    /\ \A t \in Threads : before[t] <= last
    /\ \A t \in Threads : pc[t] \in {"read", "unlocked"} /\ buf[t] > 0 =>
         before[t] < buf[t] /\ buf[t] <= arrived /\ Between(queue, buf[t], arrived)
    /\ \A t \in Threads : pc[t] = "read" /\ buf[t] > 0 =>
         /\ last < buf[t]
         /\ \A s \in Threads : pc[s] = "unlocked" => buf[s] < buf[t]

DeviceInv ==
    /\ TypeOK /\ NumberInv /\ LockInv
    /\ FailureToldByItsText /\ TextInv /\ OrderInv

-----------------------------------------------------------------------------
(***************************************************************************)
(* Queues of reports                                                       *)
(***************************************************************************)
LEMMA Elements ==
    ASSUME NEW N, NEW q \in Seq(1 .. N)
    PROVE  \A i \in 1 .. Len(q) : q[i] \in Int
<1> TAKE i \in 1 .. Len(q)
<1>1. q[i] \in 1 .. N
  BY ElementOfSeq, Zenon
<1> QED
  BY <1>1

\* Taking the first number off a rising queue leaves a rising queue above it.
LEMMA TakeFirst ==
    ASSUME NEW N, NEW q \in Seq(1 .. N), q # <<>>,
           NEW low \in Int, NEW high \in Int, Between(q, low, high)
    PROVE  /\ Head(q) \in 1 .. N /\ Tail(q) \in Seq(1 .. N)
           /\ low < Head(q) /\ Head(q) <= high
           /\ Between(Tail(q), low, high) /\ Between(Tail(q), Head(q), high)
<1>1. /\ Head(q) = q[1] /\ Head(q) \in 1 .. N /\ Tail(q) \in Seq(1 .. N)
      /\ Len(q) \in Nat /\ Len(q) > 0 /\ Len(Tail(q)) = Len(q) - 1
  <2>1. /\ Head(q) \in 1 .. N /\ Tail(q) \in Seq(1 .. N)
        /\ Len(Tail(q)) = Len(q) - 1
    BY HeadTailProperties, Zenon
  <2>2. Len(q) \in Nat \ {0}
    BY EmptySeq, Zenon
  <2> QED
    BY <2>1, <2>2
<1>2. \A i \in 1 .. Len(Tail(q)) : Tail(q)[i] = q[i + 1] /\ i + 1 \in 1 .. Len(q)
  BY <1>1, HeadTailProperties
<1>3. 1 \in 1 .. Len(q) /\ \A i \in 1 .. Len(Tail(q)) : 1 < i + 1
  BY <1>1
<1>4. \A i \in 1 .. Len(q) : q[i] \in Int
  BY Elements
<1>5. \A i, j \in 1 .. Len(Tail(q)) : i < j => Tail(q)[i] < Tail(q)[j]
  BY <1>1, <1>2 DEF Between
<1> QED
  BY <1>1, <1>2, <1>3, <1>4, <1>5 DEF Between

\* The number after the last one given keeps a queue rising.
LEMMA PutLast ==
    ASSUME NEW N \in Nat, NEW q \in Seq(1 .. N), NEW low \in Int, NEW n \in Nat,
           n < N, low <= n, Between(q, low, n)
    PROVE  LET r == Append(q, n + 1)
           IN  /\ r \in Seq(1 .. N) /\ r # <<>> /\ Between(r, low, n + 1)
               /\ Tail(r) \in Seq(1 .. N) /\ Between(Tail(r), low, n + 1)
<1> DEFINE r == Append(q, n + 1)
<1>1. n + 1 \in 1 .. N
  OBVIOUS
<1>2. /\ r \in Seq(1 .. N) /\ Len(r) = Len(q) + 1 /\ Len(q) \in Nat
      /\ r[Len(q) + 1] = n + 1 /\ \A i \in 1 .. Len(q) : r[i] = q[i]
      /\ r # <<>>
  BY <1>1, AppendProperties
<1> HIDE DEF r
<1>3. \A i \in 1 .. Len(q) : q[i] \in Int
  BY Elements
<1>4. Between(r, low, n + 1)
  <2>1. PICK l \in Nat : l = Len(q)
    BY <1>2
  <2>2. Len(r) = l + 1 /\ r[l + 1] = n + 1
    BY <1>2, <2>1
  <2>3. ASSUME NEW i \in 1 .. l
        PROVE  r[i] = q[i] /\ r[i] \in Int /\ low < r[i] /\ r[i] <= n
    BY <1>2, <1>3, <2>1 DEF Between
  <2>4. ASSUME NEW i \in 1 .. l, NEW j \in 1 .. l, i < j PROVE r[i] < r[j]
    <3>1. q[i] < q[j]
      BY <2>1, <2>4 DEF Between
    <3> QED
      BY <2>3, <3>1
  <2>5. ASSUME NEW i \in 1 .. l PROVE r[i] < r[l + 1]
    BY <2>2, <2>3
  <2>6. low < r[l + 1] /\ r[l + 1] <= n + 1
    BY <2>2
  <2>7. ASSUME NEW i \in 1 .. l PROVE low < r[i] /\ r[i] <= n + 1
    BY <2>3
  <2>8. \A i \in 1 .. l + 1 : i \in 1 .. l \/ i = l + 1
    BY <2>1
  <2>9. \A i \in 1 .. Len(r) : low < r[i] /\ r[i] <= n + 1
    BY <2>2, <2>6, <2>7, <2>8, Zenon
  <2>10. ASSUME NEW i \in 1 .. Len(r), NEW j \in 1 .. Len(r), i < j PROVE r[i] < r[j]
    <3>1. i \in 1 .. l
      BY <2>1, <2>2, <2>10
    <3>2. j \in 1 .. l \/ j = l + 1
      BY <2>2, <2>8
    <3> QED
      BY <2>4, <2>5, <2>10, <3>1, <3>2, Zenon
  <2> QED
    BY <2>9, <2>10 DEF Between
<1>5. Tail(r) \in Seq(1 .. N) /\ Between(Tail(r), low, n + 1)
  BY <1>2, <1>4, TakeFirst
<1> QED
  BY <1>2, <1>4, <1>5 DEF r

\* A bound may be moved outwards.
LEMMA Widen ==
    ASSUME NEW N, NEW q \in Seq(1 .. N), NEW low \in Int, NEW high \in Int,
           NEW low2 \in Int, NEW high2 \in Int, low2 <= low, high <= high2,
           Between(q, low, high)
    PROVE  Between(q, low2, high2)
<1>1. \A i \in 1 .. Len(q) : q[i] \in Int
  BY Elements
<1> QED
  BY <1>1 DEF Between

-----------------------------------------------------------------------------
(***************************************************************************)
(* The steps                                                               *)
(***************************************************************************)
LEMMA DeviceInit == Init => DeviceInv
<1> SUFFICES ASSUME Init PROVE DeviceInv
  OBVIOUS
<1> USE DeviceAssumption DEF Init, Handle!Init, Nothing, Handle!Nothing, NoText, Ops, Busy
<1>1. DeviceType /\ ReportType /\ CallerType /\ ReaderType
  BY DEF DeviceType, ReportType, CallerType, ReaderType
<1>2. GoneType
  BY Zenon DEF GoneType
<1>3. NumberInv
  BY DEF NumberInv, Values
<1>4. LockInv /\ FailureToldByItsText /\ TextInv
  BY DEF LockInv, Holding, FailureToldByItsText, TextInv
<1>5. OrderInv
  BY DEF OrderInv, Between
<1> QED
  BY <1>1, <1>2, <1>3, <1>4, <1>5 DEF DeviceInv, TypeOK

\* The mutex is held from hid_read to the end of the call, and nothing closes
\* the handle meanwhile.
LEMMA LockStep == DeviceInv /\ [Next]_vars => LockInv'
<1> SUFFICES ASSUME DeviceInv, [Next]_vars PROVE LockInv'
  OBVIOUS
<1>0. /\ LockInv /\ CallerType /\ NoThread \notin Threads
      /\ m_dev \in {"null", "open"} /\ holder \in Threads \cup {NoThread}
  BY DeviceAssumption DEF DeviceInv, TypeOK, DeviceType
<1> USE <1>0 DEF LockInv, CallerType, Holding, callerVars
<1>1. ASSUME NEW t \in Threads, NEW o \in Ops, Call(t, o)
      PROVE  LockInv'
  BY <1>1 DEF Call
<1>2. ASSUME NEW t \in Threads, Open(t) PROVE LockInv'
  BY <1>2 DEF Open, Enter, MayEnter, Return
<1>3. ASSUME NEW t \in Threads, Close(t) PROVE LockInv'
  BY <1>3 DEF Close, Enter, MayEnter, Return
<1>4. ASSUME NEW t \in Threads, Write(t) PROVE LockInv'
  BY <1>4 DEF Write, Enter, MayEnter, Return
<1>5. ASSUME NEW t \in Threads, GetError(t) PROVE LockInv'
  BY <1>5 DEF GetError, Enter, MayEnter, Return
<1>6. ASSUME NEW t \in Threads, ReadBegins(t) PROVE LockInv'
  BY <1>6 DEF ReadBegins, Enter, MayEnter
<1>7. ASSUME NEW t \in Threads, ReadEnds(t) PROVE LockInv'
  BY <1>7 DEF ReadEnds, HolderAfterRead
<1>8. ASSUME NEW t \in Threads, ReadReturns(t) PROVE LockInv'
  BY <1>8 DEF ReadReturns, Released, Return
<1>9. ASSUME NEW t \in Threads, Relocks(t) PROVE LockInv'
  BY <1>9 DEF Relocks, Released, Return
<1>10. ASSUME NEW t \in Threads, Unlocks(t) PROVE LockInv'
  BY <1>10 DEF Unlocks, Released
<1>11. ASSUME NEW t \in Threads, ReadBackReturns(t) PROVE LockInv'
  BY <1>11 DEF ReadBackReturns, Return, Value
<1>12. CASE Arrive
  BY <1>12 DEF Arrive
<1>13. CASE Unplug \/ Plug
  BY <1>13 DEF Unplug, Plug
<1>14. CASE UNCHANGED vars
  BY <1>14 DEF vars
<1> QED
  BY <1>1, <1>2, <1>3, <1>4, <1>5, <1>6, <1>7, <1>8, <1>9, <1>10,
     <1>11, <1>12, <1>13, <1>14
     DEF Next, Step

\* The rest of the types, a part at a time.
LEMMA GoneStep == DeviceInv /\ [Next]_vars => GoneType'
<1> SUFFICES ASSUME DeviceInv, [Next]_vars PROVE GoneType'
  OBVIOUS
<1> USE DEF DeviceInv, TypeOK, GoneType, reportVars
<1>1. ASSUME NEW t \in Threads, NEW o \in Ops, Call(t, o)
      PROVE  GoneType'
  BY <1>1, Zenon DEF Call
<1>2. ASSUME NEW t \in Threads, Open(t) PROVE GoneType'
  BY <1>2, Zenon DEF Open
<1>3. ASSUME NEW t \in Threads, Close(t) PROVE GoneType'
  BY <1>3, Zenon DEF Close
<1>4. ASSUME NEW t \in Threads, Write(t) PROVE GoneType'
  BY <1>4, Zenon DEF Write
<1>5. ASSUME NEW t \in Threads, GetError(t) PROVE GoneType'
  BY <1>5, Zenon DEF GetError
<1>6. ASSUME NEW t \in Threads, ReadBegins(t) PROVE GoneType'
  BY <1>6, Zenon DEF ReadBegins, Handle!Call
<1>7. ASSUME NEW t \in Threads, ReadEnds(t) PROVE GoneType'
  BY <1>7, Zenon DEF ReadEnds, Handle!Take, Handle!Fail
<1>8. ASSUME NEW t \in Threads, ReadReturns(t) PROVE GoneType'
  BY <1>8, Zenon DEF ReadReturns
<1>9. ASSUME NEW t \in Threads, Relocks(t) PROVE GoneType'
  BY <1>9, Zenon DEF Relocks
<1>10. ASSUME NEW t \in Threads, Unlocks(t) PROVE GoneType'
  BY <1>10, Zenon DEF Unlocks
<1>11. ASSUME NEW t \in Threads, ReadBackReturns(t) PROVE GoneType'
  BY <1>11, Zenon DEF ReadBackReturns
<1>12. CASE Arrive
  BY <1>12, Zenon DEF Arrive, Handle!Arrive
<1>13. CASE Unplug \/ Plug
  BY <1>13, Zenon DEF Unplug, Plug, Handle!Lose
<1>14. CASE UNCHANGED vars
  BY <1>14, Zenon DEF vars
<1> QED
  BY <1>1, <1>2, <1>3, <1>4, <1>5, <1>6, <1>7, <1>8, <1>9, <1>10,
     <1>11, <1>12, <1>13, <1>14
     DEF Next, Step

\* Every step keeps what a thread knows of its call.
LEMMA CallerStep == DeviceInv /\ [Next]_vars => CallerType'
<1> SUFFICES ASSUME DeviceInv, [Next]_vars PROVE CallerType'
  OBVIOUS
<1>0. CallerType /\ calls \in 0 .. MaxCalls /\ MaxCalls \in Nat /\ last \in 0 .. MaxReports
  BY DeviceAssumption DEF DeviceInv, TypeOK, NumberInv, ReportType
<1> USE <1>0 DEF CallerType, callerVars
<1>1. ASSUME NEW t \in Threads, NEW o \in Ops, Call(t, o)
      PROVE  CallerType'
  BY <1>1 DEF Call
<1>2. ASSUME NEW t \in Threads, Open(t) PROVE CallerType'
  BY <1>2 DEF Open, Return
<1>3. ASSUME NEW t \in Threads, Close(t) PROVE CallerType'
  BY <1>3 DEF Close, Return
<1>4. ASSUME NEW t \in Threads, Write(t) PROVE CallerType'
  BY <1>4 DEF Write, Return
<1>5. ASSUME NEW t \in Threads, GetError(t) PROVE CallerType'
  BY <1>5 DEF GetError, Return
<1>6. ASSUME NEW t \in Threads, ReadBegins(t) PROVE CallerType'
  BY <1>6 DEF ReadBegins
<1>7. ASSUME NEW t \in Threads, ReadEnds(t) PROVE CallerType'
  BY <1>7 DEF ReadEnds
<1>8. ASSUME NEW t \in Threads, ReadReturns(t) PROVE CallerType'
  BY <1>8 DEF ReadReturns, Return
<1>9. ASSUME NEW t \in Threads, Relocks(t) PROVE CallerType'
  BY <1>9 DEF Relocks, Return
<1>10. ASSUME NEW t \in Threads, Unlocks(t) PROVE CallerType'
  BY <1>10 DEF Unlocks, Released
<1>11. ASSUME NEW t \in Threads, ReadBackReturns(t) PROVE CallerType'
  BY <1>11 DEF ReadBackReturns, Return, Value
<1>12. CASE Arrive
  BY <1>12 DEF Arrive
<1>13. CASE Unplug \/ Plug
  BY <1>13 DEF Unplug, Plug
<1>14. CASE UNCHANGED vars
  BY <1>14 DEF vars
<1> QED
  BY <1>1, <1>2, <1>3, <1>4, <1>5, <1>6, <1>7, <1>8, <1>9, <1>10,
     <1>11, <1>12, <1>13, <1>14
     DEF Next, Step

\* Every step keeps a read inside the lock it was begun under.
LEMMA ReaderStep == DeviceInv /\ [Next]_vars => ReaderType'
<1> SUFFICES ASSUME DeviceInv, [Next]_vars PROVE ReaderType'
  OBVIOUS
<1>0. LockInv /\ CallerType /\ ReaderType /\ NoThread \notin Threads
  BY DeviceAssumption DEF DeviceInv, TypeOK
<1> USE <1>0 DEF LockInv, CallerType, ReaderType, Holding, callerVars, reportVars
<1>1. ASSUME NEW t \in Threads, NEW o \in Ops, Call(t, o)
      PROVE  ReaderType'
  BY <1>1 DEF Call
<1>2. ASSUME NEW t \in Threads, Open(t) PROVE ReaderType'
  BY <1>2 DEF Open, Enter, MayEnter, Return
<1>3. ASSUME NEW t \in Threads, Close(t) PROVE ReaderType'
  BY <1>3 DEF Close, Enter, MayEnter, Return
<1>4. ASSUME NEW t \in Threads, Write(t) PROVE ReaderType'
  BY <1>4 DEF Write, Enter, MayEnter, Return
<1>5. ASSUME NEW t \in Threads, GetError(t) PROVE ReaderType'
  BY <1>5 DEF GetError, Enter, MayEnter, Return
<1>6. ASSUME NEW t \in Threads, ReadBegins(t) PROVE ReaderType'
  BY <1>6 DEF ReadBegins, Enter, MayEnter, Handle!Call
<1>7. ASSUME NEW t \in Threads, ReadEnds(t) PROVE ReaderType'
  BY <1>7 DEF ReadEnds, HolderAfterRead, Handle!Take, Handle!Fail
<1>8. ASSUME NEW t \in Threads, ReadReturns(t) PROVE ReaderType'
  BY <1>8 DEF ReadReturns, Released, Return
<1>9. ASSUME NEW t \in Threads, Relocks(t) PROVE ReaderType'
  BY <1>9 DEF Relocks, Released, Return
<1>10. ASSUME NEW t \in Threads, Unlocks(t) PROVE ReaderType'
  BY <1>10 DEF Unlocks, Released
<1>11. ASSUME NEW t \in Threads, ReadBackReturns(t) PROVE ReaderType'
  BY <1>11 DEF ReadBackReturns, Return, Value
<1>12. CASE Arrive
  BY <1>12 DEF Arrive, Handle!Arrive
<1>13. CASE Unplug \/ Plug
  BY <1>13 DEF Unplug, Plug, Handle!Lose
<1>14. CASE UNCHANGED vars
  BY <1>14 DEF vars
<1> QED
  BY <1>1, <1>2, <1>3, <1>4, <1>5, <1>6, <1>7, <1>8, <1>9, <1>10,
     <1>11, <1>12, <1>13, <1>14
     DEF Next, Step

\* A report is a number, of one that arrived.
LEMMA ReportStep == DeviceInv /\ [Next]_vars => ReportType'
<1> SUFFICES ASSUME DeviceInv, [Next]_vars PROVE ReportType'
  OBVIOUS
<1>0. /\ ReportType /\ CallerType /\ OrderInv /\ NumberInv /\ last <= arrived
      /\ NoText = 0 /\ MaxCalls \in Nat /\ MaxReports \in Nat
      /\ Nothing = 0 /\ Handle!Nothing = 0 /\ Error = -1 /\ Zeros = -2
  BY DeviceAssumption DEF DeviceInv, TypeOK, NumberInv, NoText, Nothing, Error, Zeros,
                          Handle!Nothing, Handle!Error
<1>q. /\ queue \in Seq(1 .. MaxReports) /\ arrived \in 0 .. MaxReports
      /\ last \in 0 .. MaxReports /\ text \in 0 .. MaxCalls
      /\ result \in {Nothing, Error} \cup 1 .. MaxReports
      /\ Between(queue, last, arrived)
  BY <1>0 DEF ReportType, OrderInv
<1>b. \A t \in Threads : call[t] \in 0 .. MaxCalls /\ buf[t] \in Values
  BY <1>0 DEF CallerType, NumberInv
<1> USE DEF ReportType, Values, callerVars, reportVars
<1>1. ASSUME NEW t \in Threads, NEW o \in Ops, Call(t, o)
      PROVE  ReportType'
  BY <1>1, <1>0, <1>q, <1>b DEF Call
<1>2. ASSUME NEW t \in Threads, Open(t) PROVE ReportType'
  BY <1>2, <1>0, <1>q, <1>b DEF Open, Return, TextsAtOpen
<1>3. ASSUME NEW t \in Threads, Close(t) PROVE ReportType'
  BY <1>3, <1>0, <1>q, <1>b DEF Close, Return
<1>4. ASSUME NEW t \in Threads, Write(t) PROVE ReportType'
  BY <1>4, <1>0, <1>q, <1>b DEF Write, Return, TextAfterWrite,
                                LinuxTextAfterWrite, WindowsTextAfterWrite,
                                TextOnFailure, Unchanged
<1>5. ASSUME NEW t \in Threads, GetError(t) PROVE ReportType'
  BY <1>5, <1>0, <1>q, <1>b DEF GetError, Return
<1>6. ASSUME NEW t \in Threads, ReadBegins(t) PROVE ReportType'
  BY <1>6, <1>0, <1>q, <1>b DEF ReadBegins, TextAtRead, Handle!Call
<1>7. ASSUME NEW t \in Threads, ReadEnds(t) PROVE ReportType'
  <2>1. text' \in 0 .. MaxCalls
    BY <1>7, <1>q, <1>b DEF ReadEnds, TextOnFailure, Unchanged
  <2>2. arrived' = arrived /\ last' = last
    BY <1>7 DEF ReadEnds, Handle!Take, Handle!Fail
  <2>3. CASE Handle!Take
    <3>1. queue # <<>> /\ result' = Head(queue) /\ queue' = Tail(queue)
      BY <2>3 DEF Handle!Take
    <3>2. Head(queue) \in 1 .. MaxReports /\ Tail(queue) \in Seq(1 .. MaxReports)
      BY <1>q, <3>1, TakeFirst
    <3> QED
      BY <1>q, <2>1, <2>2, <3>1, <3>2
  <2>4. CASE Handle!Fail
    BY <1>0, <1>q, <2>1, <2>2, <2>4 DEF Handle!Fail, Handle!Error
  <2> QED
    BY <1>7, <2>3, <2>4 DEF ReadEnds
<1>8. ASSUME NEW t \in Threads, ReadReturns(t) PROVE ReportType'
  BY <1>8, <1>0, <1>q, <1>b DEF ReadReturns, Return, HasText, Value
<1>9. ASSUME NEW t \in Threads, Relocks(t) PROVE ReportType'
  BY <1>9, <1>0, <1>q, <1>b DEF Relocks, Return, HasText
<1>10. ASSUME NEW t \in Threads, Unlocks(t) PROVE ReportType'
  BY <1>10, <1>0, <1>q, <1>b DEF Unlocks, Released
<1>11. ASSUME NEW t \in Threads, ReadBackReturns(t) PROVE ReportType'
  BY <1>11, <1>0, <1>q, <1>b DEF ReadBackReturns, Return, Value
<1>12. CASE Arrive
  <2>1. /\ arrived < MaxReports /\ arrived' = arrived + 1 /\ result' = result
        /\ text' = text /\ last' = last
    BY <1>12 DEF Arrive, Handle!Arrive
  <2>2. queue' \in Seq(1 .. MaxReports)
    <3>1. LET r == Append(queue, arrived + 1)
          IN  r \in Seq(1 .. MaxReports) /\ Tail(r) \in Seq(1 .. MaxReports)
      BY <1>0, <1>q, <2>1, PutLast
    <3> QED
      BY <1>12, <2>1, <3>1, Zenon DEF Arrive, Handle!Arrive
  <2> QED
    BY <1>0, <1>q, <2>1, <2>2
<1>13. CASE Unplug \/ Plug
  BY <1>13, <1>0, <1>q, <1>b DEF Unplug, Plug, Handle!Lose
<1>14. CASE UNCHANGED vars
  BY <1>14, <1>0, <1>q, <1>b DEF vars
<1> QED
  BY <1>1, <1>2, <1>3, <1>4, <1>5, <1>6, <1>7, <1>8, <1>9, <1>10,
     <1>11, <1>12, <1>13, <1>14
     DEF Next, Step

\* A closed handle keeps neither reports nor a text.
LEMMA HandleStep == DeviceInv /\ [Next]_vars => DeviceType'
<1> SUFFICES ASSUME DeviceInv, [Next]_vars PROVE DeviceType'
  OBVIOUS
<1>0. /\ LockInv /\ DeviceType /\ NoThread \notin Threads /\ m_dev \in {"null", "open"}
      /\ holder \in Threads \cup {NoThread}
  BY DeviceAssumption DEF DeviceInv, TypeOK, DeviceType
<1> USE <1>0 DEF LockInv, DeviceType, Holding, reportVars
<1>1. ASSUME NEW t \in Threads, NEW o \in Ops, Call(t, o)
      PROVE  DeviceType'
  BY <1>1 DEF Call
<1>2. ASSUME NEW t \in Threads, Open(t) PROVE DeviceType'
  BY <1>2 DEF Open, Enter, MayEnter
<1>3. ASSUME NEW t \in Threads, Close(t) PROVE DeviceType'
  BY <1>3 DEF Close, Enter, MayEnter
<1>4. ASSUME NEW t \in Threads, Write(t) PROVE DeviceType'
  BY <1>4 DEF Write, Enter, MayEnter
<1>5. ASSUME NEW t \in Threads, GetError(t) PROVE DeviceType'
  BY <1>5 DEF GetError, Enter, MayEnter
<1>6. ASSUME NEW t \in Threads, ReadBegins(t) PROVE DeviceType'
  BY <1>6 DEF ReadBegins, Enter, MayEnter, Handle!Call
<1>7. ASSUME NEW t \in Threads, ReadEnds(t) PROVE DeviceType'
  BY <1>7 DEF ReadEnds, HolderAfterRead, Handle!Take, Handle!Fail
<1>8. ASSUME NEW t \in Threads, ReadReturns(t) PROVE DeviceType'
  BY <1>8 DEF ReadReturns, Released
<1>9. ASSUME NEW t \in Threads, Relocks(t) PROVE DeviceType'
  BY <1>9 DEF Relocks, Released
<1>10. ASSUME NEW t \in Threads, Unlocks(t) PROVE DeviceType'
  BY <1>10 DEF Unlocks, Released
<1>11. ASSUME NEW t \in Threads, ReadBackReturns(t) PROVE DeviceType'
  BY <1>11 DEF ReadBackReturns, Return, Value
<1>12. CASE Arrive
  BY <1>12 DEF Arrive, Handle!Arrive
<1>13. CASE Unplug \/ Plug
  BY <1>13 DEF Unplug, Plug, Handle!Lose
<1>14. CASE UNCHANGED vars
  BY <1>14 DEF vars
<1> QED
  BY <1>1, <1>2, <1>3, <1>4, <1>5, <1>6, <1>7, <1>8, <1>9, <1>10,
     <1>11, <1>12, <1>13, <1>14
     DEF Next, Step

\* Calls keep numbers of their own.
LEMMA NumberStep == DeviceInv /\ [Next]_vars => NumberInv'
<1> SUFFICES ASSUME DeviceInv, [Next]_vars PROVE NumberInv'
  OBVIOUS
<1>0. /\ NumberInv /\ CallerType /\ ReportType /\ OrderInv /\ LockInv
      /\ NoText = 0 /\ MaxCalls \in Nat /\ MaxReports \in Nat
      /\ Nothing = 0 /\ Error = -1 /\ Zeros = -2
  BY DeviceAssumption DEF DeviceInv, TypeOK, NoText, Nothing, Error, Zeros,
                          Handle!Nothing, Handle!Error
<1>r. ReportType'
  BY ReportStep
<1>q. /\ arrived \in 0 .. MaxReports /\ last \in 0 .. MaxReports
      /\ text \in 0 .. MaxCalls /\ calls \in 0 .. MaxCalls
  BY <1>0 DEF ReportType, NumberInv
<1>l. \A t \in Threads : /\ buf[t] \in Values
                         /\ pc[t] \in {"read", "unlocked"} /\ buf[t] > 0 => buf[t] <= arrived
  BY <1>0 DEF NumberInv, OrderInv
<1>u. result' \in Values
  BY <1>r DEF ReportType, Values
<1> USE DEF NumberInv, CallerType, Values, Busy, callerVars, reportVars
<1>1. ASSUME NEW t \in Threads, NEW o \in Ops, Call(t, o)
      PROVE  NumberInv'
  BY <1>1, <1>0, <1>q DEF Call
<1>2. ASSUME NEW t \in Threads, Open(t) PROVE NumberInv'
  BY <1>2, <1>0, <1>q DEF Open, Enter, Return, TextsAtOpen
<1>3. ASSUME NEW t \in Threads, Close(t) PROVE NumberInv'
  BY <1>3, <1>0, <1>q DEF Close, Enter, Return
<1>4. ASSUME NEW t \in Threads, Write(t) PROVE NumberInv'
  BY <1>4, <1>0, <1>q DEF Write, Enter, Return, TextAfterWrite,
                          LinuxTextAfterWrite, WindowsTextAfterWrite,
                          TextOnFailure, Unchanged
<1>5. ASSUME NEW t \in Threads, GetError(t) PROVE NumberInv'
  BY <1>5, <1>0, <1>q DEF GetError, Enter, Return
<1>6. ASSUME NEW t \in Threads, ReadBegins(t) PROVE NumberInv'
  BY <1>6, <1>0, <1>q DEF ReadBegins, Enter, TextAtRead, Handle!Call
<1>7. ASSUME NEW t \in Threads, ReadEnds(t) PROVE NumberInv'
  BY <1>7, <1>0, <1>q, <1>u DEF ReadEnds, HolderAfterRead, TextOnFailure,
                                Unchanged, Handle!Take, Handle!Fail
<1>8. ASSUME NEW t \in Threads, ReadReturns(t) PROVE NumberInv'
  <2> DEFINE v == buf[t]
  <2>1. v \in Values /\ (v > 0 => v <= arrived) /\ pc[t] = "read"
    BY <1>8, <1>l DEF ReadReturns
  <2>2. /\ pc' = [pc EXCEPT ![t] = "idle"] /\ returned' = [returned EXCEPT ![t] = v]
        /\ last' = IF v > last THEN v ELSE last
        /\ UNCHANGED <<calls, op, call, buf, text, arrived>>
    BY <1>8 DEF ReadReturns, Return
  <2> HIDE DEF v
  <2>3. returned' \in [Threads -> Values] /\ last' <= arrived'
    BY <1>0, <1>q, <2>1, <2>2
  <2> QED
    BY <1>0, <1>q, <2>1, <2>2, <2>3
<1>9. ASSUME NEW t \in Threads, Relocks(t) PROVE NumberInv'
  BY <1>9, <1>0, <1>q DEF Relocks, Return, HasText
<1>10. ASSUME NEW t \in Threads, Unlocks(t) PROVE NumberInv'
  BY <1>10, <1>0, <1>q DEF Unlocks, Released
<1>11. ASSUME NEW t \in Threads, ReadBackReturns(t) PROVE NumberInv'
  <2> DEFINE v == Value(t)
  <2>1. v \in Values /\ (v > 0 => v <= arrived) /\ pc[t] = "unlocked"
    BY <1>11, <1>0, <1>l DEF ReadBackReturns, Value
  <2>2. /\ pc' = [pc EXCEPT ![t] = "idle"] /\ returned' = [returned EXCEPT ![t] = v]
        /\ last' = IF v > last THEN v ELSE last
        /\ UNCHANGED <<calls, op, call, buf, text, arrived>>
    BY <1>11 DEF ReadBackReturns, Return
  <2> HIDE DEF v
  <2>3. returned' \in [Threads -> Values] /\ last' <= arrived'
    BY <1>0, <1>q, <2>1, <2>2
  <2> QED
    BY <1>0, <1>q, <2>1, <2>2, <2>3
<1>12. CASE Arrive
  BY <1>12, <1>0, <1>q DEF Arrive, Handle!Arrive
<1>13. CASE Unplug \/ Plug
  BY <1>13, <1>0, <1>q DEF Unplug, Plug, Handle!Lose
<1>14. CASE UNCHANGED vars
  BY <1>14, <1>0, <1>q DEF vars
<1> QED
  BY <1>1, <1>2, <1>3, <1>4, <1>5, <1>6, <1>7, <1>8, <1>9, <1>10,
     <1>11, <1>12, <1>13, <1>14
     DEF Next, Step

\* While a failed read looks for its text, the mutex keeps others from theirs.
LEMMA FailureStep == DeviceInv /\ [Next]_vars => FailureToldByItsText'
<1> SUFFICES ASSUME DeviceInv, [Next]_vars PROVE FailureToldByItsText'
  OBVIOUS
<1>0. FailureToldByItsText /\ LockInv /\ CallerType /\ NoThread \notin Threads
      /\ buf \in [Threads -> Values]
  BY DeviceAssumption DEF DeviceInv, TypeOK, NumberInv
<1>e. Handle!Nothing = 0 /\ Nothing = 0 /\ Error = -1
  BY DEF Nothing, Error, Handle!Nothing, Handle!Error
<1> USE DEF FailureToldByItsText, LockInv, CallerType, Holding, callerVars
<1>1. ASSUME NEW t \in Threads, NEW o \in Ops, Call(t, o)
      PROVE  FailureToldByItsText'
  BY <1>1, <1>0, <1>e DEF Call
<1>2. ASSUME NEW t \in Threads, Open(t) PROVE FailureToldByItsText'
  BY <1>2, <1>0, <1>e DEF Open, Enter, MayEnter, Return, TextsAtOpen
<1>3. ASSUME NEW t \in Threads, Close(t) PROVE FailureToldByItsText'
  BY <1>3, <1>0, <1>e DEF Close, Enter, MayEnter, Return
<1>4. ASSUME NEW t \in Threads, Write(t) PROVE FailureToldByItsText'
  BY <1>4, <1>0, <1>e DEF Write, Enter, MayEnter, Return, TextAfterWrite,
                          LinuxTextAfterWrite, WindowsTextAfterWrite,
                          TextOnFailure, Unchanged
<1>5. ASSUME NEW t \in Threads, GetError(t) PROVE FailureToldByItsText'
  BY <1>5, <1>0, <1>e DEF GetError, Enter, MayEnter, Return
<1>6. ASSUME NEW t \in Threads, ReadBegins(t) PROVE FailureToldByItsText'
  BY <1>6, <1>0, <1>e DEF ReadBegins, Enter, MayEnter, TextAtRead
<1>7. ASSUME NEW t \in Threads, ReadEnds(t) PROVE FailureToldByItsText'
  <2>1. /\ holder = t /\ pc' = [pc EXCEPT ![t] = "read"] /\ call' = call
        /\ buf' = [buf EXCEPT ![t] = result'] /\ backend' = backend
    BY <1>7, <1>0 DEF ReadEnds
  <2>2. result' = Error => text' = TextOnFailure(t)
    <3>1. CASE Handle!Fail /\ text' = TextOnFailure(t)
      BY <3>1
    <3>2. CASE Handle!Take
      <4>1. /\ queue # <<>> /\ result' = Head(queue) /\ queue \in Seq(1 .. MaxReports)
            /\ Between(queue, last, arrived) /\ last \in Int /\ arrived \in Int
        BY <3>2 DEF Handle!Take, DeviceInv, TypeOK, ReportType, OrderInv
      <4>2. result' \in 1 .. MaxReports
        BY <4>1, TakeFirst
      <4> QED
        BY <1>e, <4>2
    <3> QED
      BY <1>7, <3>1, <3>2 DEF ReadEnds
  <2>3. \A s \in Threads : pc'[s] = "read" => s = t
    BY <1>0, <2>1
  <2>4. buf'[t] = Error /\ backend' \in {"linux", "windows"} => text' = call'[t]
    BY <1>0, <2>1, <2>2 DEF TextOnFailure
  <2> QED
    BY <2>3, <2>4
<1>8. ASSUME NEW t \in Threads, ReadReturns(t) PROVE FailureToldByItsText'
  BY <1>8, <1>0, <1>e DEF ReadReturns, Released, Return
<1>9. ASSUME NEW t \in Threads, Relocks(t) PROVE FailureToldByItsText'
  BY <1>9, <1>0, <1>e DEF Relocks, Released, Return
<1>10. ASSUME NEW t \in Threads, Unlocks(t) PROVE FailureToldByItsText'
  BY <1>10, <1>0, <1>e DEF Unlocks, Released
<1>11. ASSUME NEW t \in Threads, ReadBackReturns(t) PROVE FailureToldByItsText'
  BY <1>11, <1>0, <1>e DEF ReadBackReturns, Return, Value
<1>12. CASE Arrive
  BY <1>12, <1>0, <1>e DEF Arrive
<1>13. CASE Unplug \/ Plug
  BY <1>13, <1>0, <1>e DEF Unplug, Plug
<1>14. CASE UNCHANGED vars
  BY <1>14, <1>0, <1>e DEF vars
<1> QED
  BY <1>1, <1>2, <1>3, <1>4, <1>5, <1>6, <1>7, <1>8, <1>9, <1>10,
     <1>11, <1>12, <1>13, <1>14
     DEF Next, Step

\* A text is that of a call that failed, and linux forgets it at the next read.
LEMMA TextStep == DeviceInv /\ [Next]_vars => TextInv'
<1> SUFFICES ASSUME DeviceInv, [Next]_vars PROVE TextInv'
  OBVIOUS
<1>0. /\ TextInv /\ LockInv /\ NumberInv /\ CallerType /\ NoThread \notin Threads
      /\ MaxCalls \in Nat /\ text \in 0 .. MaxCalls
  BY DeviceAssumption DEF DeviceInv, TypeOK, ReportType
<1>e. Handle!Nothing = 0 /\ Nothing = 0 /\ Error = -1 /\ NoText = 0
  BY DEF Nothing, Error, NoText, Handle!Nothing, Handle!Error
<1> USE DEF TextInv, LockInv, NumberInv, CallerType, Holding, Busy, callerVars
<1>1. ASSUME NEW t \in Threads, NEW o \in Ops, Call(t, o)
      PROVE  TextInv'
  BY <1>1, <1>0, <1>e DEF Call
<1>2. ASSUME NEW t \in Threads, Open(t) \/ Close(t) PROVE TextInv'
  <2>1. /\ holder = NoThread /\ pc[t] = "called" /\ pc' = [pc EXCEPT ![t] = "idle"]
        /\ text' \in TextsAtOpen(t) /\ UNCHANGED <<backend, call, buf>>
    BY <1>2 DEF Open, Close, Enter, MayEnter, Return, TextsAtOpen
  <2>2. \A s \in Threads : pc[s] \notin {"reading", "read"}
    BY <1>0, <2>1
  <2>3. \A s \in Threads : s # t => pc'[s] = pc[s]
    BY <1>0, <2>1
  <2>4. pc'[t] = "idle" /\ (backend \in {"libusb", "mac"} => text' = NoText)
    BY <1>0, <2>1 DEF TextsAtOpen
  <2>5. ASSUME NEW s \in Threads, pc'[s] = "called" PROVE text' # call[s]
    <3>1. s # t /\ pc[s] = "called"
      BY <2>3, <2>4, <2>5
    <3>2. call[s] > 0 /\ call[s] # call[t]
      BY <1>0, <2>1, <3>1
    <3> QED
      BY <1>e, <2>1, <3>2 DEF TextsAtOpen
  <2> QED
    BY <2>1, <2>2, <2>3, <2>4, <2>5
<1>4. ASSUME NEW t \in Threads, Write(t) PROVE TextInv'
  BY <1>4, <1>0, <1>e DEF Write, Enter, MayEnter, Return, TextAfterWrite,
                          LinuxTextAfterWrite, WindowsTextAfterWrite,
                          TextOnFailure, Unchanged
<1>5. ASSUME NEW t \in Threads, GetError(t) PROVE TextInv'
  BY <1>5, <1>0, <1>e DEF GetError, Enter, MayEnter, Return
<1>6. ASSUME NEW t \in Threads, ReadBegins(t) PROVE TextInv'
  BY <1>6, <1>0, <1>e DEF ReadBegins, Enter, MayEnter, TextAtRead
<1>7. ASSUME NEW t \in Threads, ReadEnds(t) PROVE TextInv'
  <2>1. /\ holder = t /\ pc[t] = "reading" /\ pc' = [pc EXCEPT ![t] = "read"]
        /\ call' = call /\ buf' = [buf EXCEPT ![t] = result'] /\ backend' = backend
    BY <1>7, <1>0 DEF ReadEnds
  <2>2. \/ text' = text
        \/ result' = Error /\ text' = TextOnFailure(t)
    BY <1>7 DEF ReadEnds, Handle!Fail, Error
  <2>3. \A s \in Threads : s # t => pc'[s] = pc[s] /\ buf'[s] = buf[s]
    BY <1>0, <2>1
  <2>4. pc'[t] = "read" /\ buf'[t] = result'
    BY <1>0, <2>1
  <2>5. \A s \in Threads : s # t => pc[s] \notin {"reading", "read"}
    BY <1>0, <2>1
  <2>6. \A s \in Threads : s # t /\ pc[s] = "called" => call[s] # call[t] /\ call[s] # text
    BY <1>0, <2>1
  <2>7. CASE text' = text
    BY <1>0, <2>1, <2>3, <2>4, <2>5, <2>6, <2>7
  <2>8. CASE result' = Error /\ text' = TextOnFailure(t)
    BY <1>0, <2>1, <2>3, <2>4, <2>5, <2>6, <2>8 DEF TextOnFailure, Unchanged
  <2> QED
    BY <2>2, <2>7, <2>8
<1>8. ASSUME NEW t \in Threads, ReadReturns(t) PROVE TextInv'
  BY <1>8, <1>0, <1>e DEF ReadReturns, Released, Return
<1>9. ASSUME NEW t \in Threads, Relocks(t) PROVE TextInv'
  BY <1>9, <1>0, <1>e DEF Relocks, Released, Return
<1>10. ASSUME NEW t \in Threads, Unlocks(t) PROVE TextInv'
  BY <1>10, <1>0, <1>e DEF Unlocks, Released
<1>11. ASSUME NEW t \in Threads, ReadBackReturns(t) PROVE TextInv'
  BY <1>11, <1>0, <1>e DEF ReadBackReturns, Return, Value
<1>12. CASE Arrive
  BY <1>12, <1>0, <1>e DEF Arrive
<1>13. CASE Unplug \/ Plug
  BY <1>13, <1>0, <1>e DEF Unplug, Plug
<1>14. CASE UNCHANGED vars
  BY <1>14, <1>0, <1>e DEF vars
<1> QED
  BY <1>1, <1>2, <1>4, <1>5, <1>6, <1>7, <1>8, <1>9, <1>10,
     <1>11, <1>12, <1>13, <1>14
     DEF Next, Step

\* A report is above those that were returned when its call began, and, while
\* the mutex is held, above those of the calls that gave it back before.
LEMMA OrderStep == DeviceInv /\ [Next]_vars => OrderInv'
<1> SUFFICES ASSUME DeviceInv, [Next]_vars PROVE OrderInv'
  OBVIOUS
<1>0. /\ OrderInv /\ LockInv /\ CallerType /\ NoThread \notin Threads
      /\ buf \in [Threads -> Values] /\ MaxReports \in Nat
      /\ queue \in Seq(1 .. MaxReports) /\ arrived \in 0 .. MaxReports
      /\ last \in 0 .. MaxReports /\ last <= arrived
  BY DeviceAssumption DEF DeviceInv, TypeOK, ReportType, NumberInv
<1>e. Handle!Nothing = 0 /\ Nothing = 0 /\ Error = -1 /\ Zeros = -2
  BY DEF Nothing, Error, Zeros, Handle!Nothing, Handle!Error
<1>n. \A low, high : Between(<<>>, low, high)
  BY DEF Between
<1> USE DEF OrderInv, LockInv, CallerType, Holding, callerVars, reportVars
<1>b. /\ \A t \in Threads : buf[t] \in Int /\ before[t] \in Int
      /\ \A t \in Threads : pc[t] = "read" => \A s \in Threads : pc[s] = "read" => s = t
  <2>1. Values \subseteq Int
    BY <1>0, <1>e, SMTT(30) DEF Values
  <2>2. \A t \in Threads : buf[t] \in Values /\ before[t] \in 0 .. MaxReports
    BY <1>0
  <2>3. \A t \in Threads : pc[t] = "read" => \A s \in Threads : pc[s] = "read" => s = t
    BY <1>0
  <2>4. ASSUME NEW t \in Threads PROVE buf[t] \in Int /\ before[t] \in Int
    <3>1. buf[t] \in Values /\ before[t] \in 0 .. MaxReports
      BY <2>2
    <3>2. buf[t] \in Int
      BY <2>1, <3>1, Zenon
    <3>3. before[t] \in Int
      BY <1>0, <3>1
    <3> QED
      BY <3>2, <3>3
  <2> QED
    BY <2>3, <2>4
<1>1. ASSUME NEW t \in Threads, NEW o \in Ops, Call(t, o)
      PROVE  OrderInv'
  BY <1>1, <1>0, <1>e DEF Call
<1>2. ASSUME NEW t \in Threads, Open(t) PROVE OrderInv'
  BY <1>2, <1>0, <1>e, <1>n DEF Open, Enter, MayEnter, Return
<1>3. ASSUME NEW t \in Threads, Close(t) PROVE OrderInv'
  BY <1>3, <1>0, <1>e, <1>n DEF Close, Enter, MayEnter, Return
<1>4. ASSUME NEW t \in Threads, Write(t) PROVE OrderInv'
  BY <1>4, <1>0, <1>e DEF Write, Enter, MayEnter, Return
<1>5. ASSUME NEW t \in Threads, GetError(t) PROVE OrderInv'
  BY <1>5, <1>0, <1>e DEF GetError, Enter, MayEnter, Return
<1>6. ASSUME NEW t \in Threads, ReadBegins(t) PROVE OrderInv'
  BY <1>6, <1>0, <1>e DEF ReadBegins, Enter, MayEnter, Handle!Call
<1>7. ASSUME NEW t \in Threads, ReadEnds(t) PROVE OrderInv'
  <2>1. /\ holder = t /\ pc' = [pc EXCEPT ![t] = "read"] /\ arrived' = arrived
        /\ buf' = [buf EXCEPT ![t] = result'] /\ UNCHANGED <<last, before>>
    BY <1>7, <1>0 DEF ReadEnds, Handle!Take, Handle!Fail
  <2>2. /\ buf'[t] = result' /\ \A s \in Threads : pc'[s] = "read" => s = t
        /\ \A s \in Threads : s # t => pc'[s] = pc[s] /\ buf'[s] = buf[s]
    BY <1>0, <2>1
  <2>3. CASE Handle!Take
    <3>1. queue # <<>> /\ result' = Head(queue) /\ queue' = Tail(queue)
      BY <2>3 DEF Handle!Take
    <3>2. /\ last < Head(queue) /\ Head(queue) <= arrived /\ Head(queue) \in Int
          /\ Between(queue', last, arrived)
          /\ Between(queue', Head(queue), arrived)
      BY <1>0, <3>1, TakeFirst
    <3>3. ASSUME NEW s \in Threads, pc[s] = "unlocked", buf[s] > 0
          PROVE  buf[s] < Head(queue) /\ Between(queue', buf[s], arrived)
      BY <1>0, <1>b, <3>1, <3>3, TakeFirst
    <3>4. \A s \in Threads : pc[s] = "unlocked" => buf[s] < Head(queue)
      <4> TAKE s \in Threads
      <4>1. Head(queue) > 0
        BY <1>0, <3>2
      <4> QED
        BY <1>b, <3>2, <3>3, <4>1
    <3>5. before[t] <= last /\ before[t] < Head(queue)
      BY <1>0, <1>b, <3>2
    <3>6. ASSUME NEW s \in Threads, pc'[s] \in {"read", "unlocked"}, buf'[s] > 0
          PROVE  before[s] < buf'[s] /\ buf'[s] <= arrived /\ Between(queue', buf'[s], arrived)
      <4>1. CASE s = t
        BY <2>2, <3>1, <3>2, <3>5, <4>1
      <4>2. CASE s # t
        BY <1>0, <2>2, <3>3, <3>6, <4>2
      <4> QED
        BY <4>1, <4>2
    <3>7. ASSUME NEW s \in Threads, pc'[s] = "read", buf'[s] > 0
          PROVE  /\ last < buf'[s]
                 /\ \A u \in Threads : pc'[u] = "unlocked" => buf'[u] < buf'[s]
      <4>1. s = t /\ pc'[t] # "unlocked"
        BY <2>2, <3>7
      <4> QED
        BY <2>2, <3>1, <3>2, <3>4, <4>1
    <3> QED
      BY <1>0, <2>1, <3>2, <3>6, <3>7
  <2>4. CASE Handle!Fail
    <3>1. queue' = queue /\ result' = -1
      BY <2>4 DEF Handle!Fail, Handle!Error
    <3>2. ~(buf'[t] > 0)
      BY <2>2, <3>1
    <3> QED
      BY <1>0, <2>1, <2>2, <3>1, <3>2
  <2> QED
    BY <1>7, <2>3, <2>4 DEF ReadEnds
<1>8. ASSUME NEW t \in Threads, ReadReturns(t) PROVE OrderInv'
  <2>1. /\ pc[t] = "read" /\ pc' = [pc EXCEPT ![t] = "idle"]
        /\ last' = IF buf[t] > last THEN buf[t] ELSE last
        /\ UNCHANGED <<queue, arrived, buf, before>>
    BY <1>8 DEF ReadReturns, Return
  <2>2. \A s \in Threads : pc'[s] # "read" /\ (pc'[s] = "unlocked" => pc[s] = "unlocked")
    BY <1>0, <1>b, <2>1
  <2>3. Between(queue', last', arrived')
    BY <1>0, <1>b, <2>1
  <2>4. last <= last'
    BY <1>0, <1>b, <2>1
  <2>5. \A s \in Threads : before'[s] <= last'
    BY <1>0, <1>b, <2>1, <2>4
  <2> QED
    BY <1>0, <2>1, <2>2, <2>3, <2>5
<1>9. ASSUME NEW t \in Threads, Relocks(t) PROVE OrderInv'
  BY <1>9, <1>0, <1>e DEF Relocks, Released, Return, HasText
<1>10. ASSUME NEW t \in Threads, Unlocks(t) PROVE OrderInv'
  <2>1. /\ pc[t] = "read" /\ pc' = [pc EXCEPT ![t] = "unlocked"]
        /\ UNCHANGED <<queue, arrived, buf, before, last>>
    BY <1>10 DEF Unlocks
  <2>2. \A s \in Threads : pc'[s] # "read"
    BY <1>0, <1>b, <2>1
  <2>3. \A s \in Threads : pc'[s] = "unlocked" => pc[s] \in {"read", "unlocked"}
    BY <1>0, <2>1
  <2> QED
    BY <1>0, <2>1, <2>2, <2>3
<1>11. ASSUME NEW t \in Threads, ReadBackReturns(t) PROVE OrderInv'
  <2>1. /\ pc[t] = "unlocked" /\ pc' = [pc EXCEPT ![t] = "idle"]
        /\ last' = IF Value(t) > last THEN Value(t) ELSE last
        /\ UNCHANGED <<queue, arrived, buf, before>>
    BY <1>11 DEF ReadBackReturns, Return
  <2>2. \A s \in Threads : pc'[s] \in {"read", "unlocked"} => s # t /\ pc'[s] = pc[s]
    BY <1>0, <2>1
  <2>3. /\ last' \in Int /\ last <= last'
        /\ last' = last \/ (buf[t] > 0 /\ last' = buf[t])
    BY <1>0, <1>b, <1>e, <2>1 DEF Value
  <2>4. Between(queue', last', arrived')
    BY <1>0, <2>1, <2>3
  <2>5. \A s \in Threads : before'[s] <= last'
    BY <1>0, <1>b, <2>1, <2>3
  <2>6. \A s \in Threads : pc[s] = "read" /\ buf[s] > 0 => last' < buf[s]
    BY <1>0, <2>1, <2>3
  <2> QED
    BY <1>0, <2>1, <2>2, <2>4, <2>5, <2>6
<1>12. CASE Arrive
  <2>1. /\ arrived < MaxReports /\ arrived' = arrived + 1
        /\ pc' = pc /\ buf' = buf /\ last' = last /\ before' = before
    BY <1>12 DEF Arrive, Handle!Arrive
  <2> DEFINE r == Append(queue, arrived + 1)
  <2>2. queue' = r \/ queue' = Tail(r)
    BY <1>12, <2>1, Zenon DEF Arrive, Handle!Arrive
  <2>3. ASSUME NEW low \in Int, low <= arrived, Between(queue, low, arrived)
        PROVE  Between(queue', low, arrived')
    <3>1. Between(r, low, arrived + 1) /\ Between(Tail(r), low, arrived + 1)
      BY <1>0, <2>1, <2>3, PutLast
    <3> QED
      BY <2>1, <2>2, <3>1
  <2>4. Between(queue', last', arrived')
    BY <1>0, <2>1, <2>3
  <2>5. ASSUME NEW s \in Threads, pc[s] \in {"read", "unlocked"}, buf[s] > 0
        PROVE  /\ before[s] < buf[s] /\ buf[s] <= arrived + 1
               /\ Between(queue', buf[s], arrived')
    <3>1. before[s] < buf[s] /\ buf[s] <= arrived /\ Between(queue, buf[s], arrived)
      BY <1>0, <2>5
    <3> QED
      BY <1>0, <1>b, <2>3, <3>1
  <2> QED
    BY <1>0, <2>1, <2>4, <2>5
<1>13. CASE Unplug \/ Plug
  BY <1>13, <1>0, <1>e DEF Unplug, Plug, Handle!Lose
<1>14. CASE UNCHANGED vars
  BY <1>14, <1>0, <1>e DEF vars
<1> QED
  BY <1>1, <1>2, <1>3, <1>4, <1>5, <1>6, <1>7, <1>8, <1>9, <1>10,
     <1>11, <1>12, <1>13, <1>14
     DEF Next, Step

\* DeviceInv is inductive, for any callers: each lock is held by whom the code
\* says, and reports are in order on their way.
THEOREM DeviceNext == DeviceInv /\ [Next]_vars => DeviceInv'
BY LockStep, GoneStep, CallerStep, ReaderStep, ReportStep, HandleStep, NumberStep,
   FailureStep, TextStep, OrderStep, Zenon DEF DeviceInv, TypeOK

\* DeviceInv holds whatever threads call on a hidpp_device and in what order.
THEOREM DeviceInvariant == Spec => []DeviceInv
BY DeviceInit, DeviceNext, PTL DEF Spec

-----------------------------------------------------------------------------
(***************************************************************************)
(* What a call tells its caller: for any callers                           *)
(***************************************************************************)
\* The device and its backend keep their types: a closed handle has neither
\* reports nor a text, and the backend's reader is the thread in hid_read.
THEOREM DeviceTypeCorrect == Spec => []TypeOK
<1>1. DeviceInv => TypeOK
  BY DEF DeviceInv
<1> QED
  BY <1>1, DeviceInvariant, PTL

\* On linux and windows a read that failed finds the text of its own failure.
THEOREM DeviceFailureTold == Spec => []FailureToldByItsText
<1>1. DeviceInv => FailureToldByItsText
  BY DEF DeviceInv
<1> QED
  BY <1>1, DeviceInvariant, PTL

\* A report that hid_read took is returned, but for the windows backend with
\* the text of an older call.
THEOREM DeviceReportKept == Spec => ReportKept
<1> DEFINE Fate(t) ==
             \/ pc[t] = "read" /\ pc'[t] = "unlocked" /\ buf'[t] = buf[t]
             \/ pc'[t] = "idle" /\ returned'[t] = buf[t]
             \/ pc[t] = "read" /\ backend = "windows" /\ text \notin {NoText, call[t]}
           Kept == \A t \in Threads :
             pc[t] \in {"read", "unlocked"} /\ pc'[t] # pc[t] /\ buf[t] > 0 => Fate(t)
<1>1. DeviceInv /\ [Next]_vars => [Kept]_vars
  <2> SUFFICES ASSUME DeviceInv, Next, NEW t \in Threads,
                      pc[t] \in {"read", "unlocked"}, pc'[t] # pc[t], buf[t] > 0
               PROVE  Fate(t)
    BY DEF Kept
  <2>0. /\ CallerType /\ TextInv /\ returned \in [Threads -> Values]
        /\ backend \in {"linux", "windows", "libusb", "mac"}
        /\ buf[t] # Error
    BY DeviceAssumption DEF DeviceInv, TypeOK, DeviceType, NumberInv, Error, Handle!Error
  <2>1. CASE ReadReturns(t)
    BY <2>0, <2>1 DEF ReadReturns, Return, CallerType
  <2>2. CASE Relocks(t)
    <3>1. pc[t] = "read" /\ text # NoText
      BY <2>2 DEF Relocks, HasText
    <3>2. text # call[t]
      BY <2>0, <3>1 DEF TextInv
    <3>3. backend = "windows"
      BY <2>0, <3>1 DEF TextInv
    <3> QED
      BY <3>1, <3>2, <3>3
  <2>3. CASE Unlocks(t)
    BY <2>0, <2>3 DEF Unlocks, CallerType
  <2>4. CASE ReadBackReturns(t)
    BY <2>0, <2>4 DEF ReadBackReturns, Value, Return, CallerType
  <2>5. ASSUME NEW s \in Threads, Step(s), ~ ReadReturns(t), ~ Relocks(t),
               ~ Unlocks(t), ~ ReadBackReturns(t)
        PROVE  FALSE
    <3>1. CASE s = t
      BY <2>0, <2>5, <3>1
         DEF Step, Open, Close, Write, GetError, ReadBegins, ReadEnds, Enter, CallerType
    <3>2. CASE s # t /\ (Open(s) \/ Close(s) \/ Write(s) \/ GetError(s))
      BY <2>0, <3>2 DEF Open, Close, Write, GetError, Return, CallerType
    <3>3. CASE s # t /\ (ReadBegins(s) \/ ReadEnds(s) \/ ReadReturns(s) \/ Relocks(s))
      BY <2>0, <3>3 DEF ReadBegins, ReadEnds, ReadReturns, Relocks, Return, CallerType
    <3>4. CASE s # t /\ (Unlocks(s) \/ ReadBackReturns(s))
      BY <2>0, <3>4 DEF Unlocks, ReadBackReturns, Return, CallerType
    <3> QED
      BY <2>5, <3>1, <3>2, <3>3, <3>4 DEF Step
  <2>6. ASSUME NEW s \in Threads, NEW o \in Ops, Call(s, o) PROVE FALSE
    BY <2>0, <2>6 DEF Call, CallerType
  <2>7. CASE Arrive \/ Unplug \/ Plug
    BY <2>7 DEF Arrive, Unplug, Plug, callerVars
  <2> QED
    BY <2>1, <2>2, <2>3, <2>4, <2>5, <2>6, <2>7 DEF Next
<1> QED
  BY <1>1, DeviceInvariant, PTL DEF Spec, ReportKept

\* A call returns a report that was sent after all those returned when it
\* began; the reads that fill out under the lock, after all those returned.
THEOREM DeviceReturnedInOrder == Spec => ReturnedInOrder
<1> DEFINE InOrder(t) == /\ returned'[t] > before[t]
                         /\ op[t] \in {"read", "raw_read"} => returned'[t] > last
           Ordered == \A t \in Threads :
             Busy(t) /\ pc'[t] = "idle" /\ returned'[t] > 0 => InOrder(t)
<1>1. DeviceInv /\ [Next]_vars => [Ordered]_vars
  <2> SUFFICES ASSUME DeviceInv, Next, NEW t \in Threads,
                      Busy(t), pc'[t] = "idle", returned'[t] > 0
               PROVE  InOrder(t)
    BY DEF Ordered
  <2>0. /\ CallerType /\ LockInv /\ returned \in [Threads -> Values]
        /\ \A s \in Threads : pc[s] \in {"read", "unlocked"} /\ buf[s] > 0 => before[s] < buf[s]
        /\ \A s \in Threads : pc[s] = "read" /\ buf[s] > 0 => last < buf[s]
        /\ \A s \in Threads : before[s] \in Int /\ buf[s] \in Int /\ last \in Int
        /\ Nothing = 0 /\ Error = -1 /\ Zeros = -2
    <3>1. /\ CallerType /\ ReportType /\ NumberInv /\ LockInv /\ OrderInv
          /\ MaxReports \in Nat /\ Nothing = 0 /\ Error = -1 /\ Zeros = -2
      BY DeviceAssumption
         DEF DeviceInv, TypeOK, Nothing, Error, Zeros, Handle!Nothing, Handle!Error
    <3>2. Values \subseteq Int
      BY <3>1, SMTT(30) DEF Values
    <3>3. \A s \in Threads : before[s] \in Int /\ buf[s] \in Int /\ last \in Int
      <4>1. last \in Int
        BY <3>1 DEF ReportType
      <4>2. ASSUME NEW s \in Threads PROVE before[s] \in Int /\ buf[s] \in Int
        <5>1. buf[s] \in Values /\ before[s] \in 0 .. MaxReports
          BY <3>1 DEF CallerType, NumberInv
        <5> QED
          <6>1. buf[s] \in Int
            BY <3>2, <5>1, Zenon
          <6>2. before[s] \in Int
            BY <3>1, <5>1
          <6> QED
            BY <6>1, <6>2
      <4> QED
        BY <4>1, <4>2
    <3> QED
      BY <3>1, <3>3 DEF NumberInv, OrderInv
  <2>1. CASE ReadReturns(t)
    <3>1. pc[t] = "read" /\ returned'[t] = buf[t]
      BY <2>0, <2>1 DEF ReadReturns, Return
    <3> QED
      BY <2>0, <3>1
  <2>2. CASE Unlocks(t) \/ ReadBegins(t) \/ ReadEnds(t)
    BY <2>0, <2>2 DEF Unlocks, ReadBegins, ReadEnds, CallerType
  <2>3. CASE ReadBackReturns(t)
    <3>1. pc[t] = "unlocked" /\ returned'[t] = Value(t) /\ op[t] = "read_back"
      BY <2>0, <2>3 DEF ReadBackReturns, Return, DeviceInv, LockInv
    <3>2. Value(t) = buf[t]
      BY <2>0, <3>1 DEF Value
    <3> QED
      BY <2>0, <3>1, <3>2
  <2>4. CASE Open(t) \/ Close(t) \/ Write(t) \/ GetError(t) \/ Relocks(t)
    BY <2>0, <2>4 DEF Open, Close, Write, GetError, Relocks, Return, CallerType
  <2>5. ASSUME NEW s \in Threads, Step(s), s # t PROVE FALSE
    <3>1. CASE Open(s) \/ Close(s) \/ Write(s) \/ GetError(s)
      BY <2>0, <2>5, <3>1 DEF Open, Close, Write, GetError, Return, CallerType, Busy
    <3>2. CASE ReadBegins(s) \/ ReadEnds(s) \/ ReadReturns(s) \/ Relocks(s)
      BY <2>0, <2>5, <3>2 DEF ReadBegins, ReadEnds, ReadReturns, Relocks, Return,
                              CallerType, Busy
    <3>3. CASE Unlocks(s) \/ ReadBackReturns(s)
      BY <2>0, <2>5, <3>3 DEF Unlocks, ReadBackReturns, Return, CallerType, Busy
    <3> QED
      BY <2>5, <3>1, <3>2, <3>3 DEF Step
  <2>6. ASSUME NEW s \in Threads, NEW o \in Ops, Call(s, o) PROVE FALSE
    BY <2>0, <2>6 DEF Call, CallerType, Busy
  <2>7. CASE Arrive \/ Unplug \/ Plug
    BY <2>7 DEF Arrive, Unplug, Plug, callerVars, Busy
  <2>8. CASE Step(t)
    BY <2>1, <2>2, <2>3, <2>4, <2>8 DEF Step
  <2> QED
    BY <2>5, <2>6, <2>7, <2>8 DEF Next
<1> QED
  BY <1>1, DeviceInvariant, PTL DEF Spec, ReturnedInOrder

-----------------------------------------------------------------------------
(***************************************************************************)
(* The handle under the calls: for callers who begin no call beside a      *)
(* close, and close beside no call that waits for the mutex                *)
(***************************************************************************)
\* What callers see to.
CalledInv ==
    \A t \in Threads : pc[t] = "called" =>
        /\ op[t] \in Reads \cup {"write"} => m_dev = "open"
        /\ op[t] = "open" =>
             m_dev = "null" /\ \A s \in Threads : s # t /\ pc[s] = "called" => op[s] # "open"
        /\ op[t] = "close" => \A s \in Threads : s # t => pc[s] # "called"

\* Disciplined callers open and close only when nobody else is in a call.
LEMMA CalledStep ==
    ASSUME Disciplined, DeviceInv, CalledInv, [Next]_vars
    PROVE  CalledInv'
<1>0. LockInv /\ CalledInv /\ CallerType /\ NoThread \notin Threads
      /\ m_dev \in {"null", "open"}
  BY DeviceAssumption DEF DeviceInv, TypeOK, DeviceType
<1> USE DEF CalledInv, LockInv, CallerType, Holding, Reads, callerVars
<1>1. ASSUME NEW t \in Threads, NEW o \in Ops, Call(t, o)
      PROVE  CalledInv'
  BY <1>1, <1>0 DEF Call, Legal, Busy
<1>2. ASSUME NEW t \in Threads, Open(t) PROVE CalledInv'
  BY <1>2, <1>0 DEF Open, Enter, MayEnter, Return
<1>3. ASSUME NEW t \in Threads, Close(t) PROVE CalledInv'
  BY <1>3, <1>0 DEF Close, Enter, MayEnter, Return
<1>4. ASSUME NEW t \in Threads, Write(t) PROVE CalledInv'
  BY <1>4, <1>0 DEF Write, Enter, MayEnter, Return
<1>5. ASSUME NEW t \in Threads, GetError(t) PROVE CalledInv'
  BY <1>5, <1>0 DEF GetError, Enter, MayEnter, Return
<1>6. ASSUME NEW t \in Threads, ReadBegins(t) PROVE CalledInv'
  BY <1>6, <1>0 DEF ReadBegins, Enter, MayEnter
<1>7. ASSUME NEW t \in Threads, ReadEnds(t) PROVE CalledInv'
  BY <1>7, <1>0 DEF ReadEnds, HolderAfterRead
<1>8. ASSUME NEW t \in Threads, ReadReturns(t) PROVE CalledInv'
  BY <1>8, <1>0 DEF ReadReturns, Released, Return
<1>9. ASSUME NEW t \in Threads, Relocks(t) PROVE CalledInv'
  BY <1>9, <1>0 DEF Relocks, Released, Return
<1>10. ASSUME NEW t \in Threads, Unlocks(t) PROVE CalledInv'
  BY <1>10, <1>0 DEF Unlocks, Released
<1>11. ASSUME NEW t \in Threads, ReadBackReturns(t) PROVE CalledInv'
  BY <1>11, <1>0 DEF ReadBackReturns, Return, Value
<1>12. CASE Arrive
  BY <1>12, <1>0 DEF Arrive
<1>13. CASE Unplug \/ Plug
  BY <1>13, <1>0 DEF Unplug, Plug
<1>14. CASE UNCHANGED vars
  BY <1>14, <1>0 DEF vars
<1> QED
  BY <1>1, <1>2, <1>3, <1>4, <1>5, <1>6, <1>7, <1>8, <1>9, <1>10,
     <1>11, <1>12, <1>13, <1>14
     DEF Next, Step

\* One thread at a time is inside the backend, and hid_read and hid_write get a
\* handle that is open and stays open, each time their turn comes.
THEOREM DeviceOneInBackend ==
    ASSUME Disciplined
    PROVE  Spec => []OneInBackend
<1>1. Init => CalledInv
  BY DEF Init, CalledInv
<1>2. DeviceInv /\ CalledInv /\ [Next]_vars => CalledInv'
  BY CalledStep
<1>3. DeviceInv /\ CalledInv => OneInBackend
  <2> SUFFICES ASSUME DeviceInv, CalledInv PROVE OneInBackend
    OBVIOUS
  <2> DEFINE Inside == {t \in Threads : pc[t] \in {"reading", "read"}}
  <2>1. \A t \in Inside : t = holder
    BY DEF DeviceInv, LockInv, Holding
  <2>2. Inside = {} \/ Inside = {holder}
    BY <2>1
  <2>3. Cardinality(Inside) <= 1
    <3>1. Cardinality({}) = 0 /\ Cardinality({holder}) = 1
      BY FS_EmptySet, FS_Singleton
    <3> HIDE DEF Inside
    <3> QED
      BY <2>2, <3>1
  <2> QED
    BY <2>3 DEF OneInBackend, DeviceInv, LockInv, Holding, CalledInv
<1> QED
  BY <1>1, <1>2, <1>3, DeviceInvariant, PTL DEF Spec
=============================================================================
