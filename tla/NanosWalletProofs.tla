-------------------------- MODULE NanosWalletProofs --------------------------
(***************************************************************************)
(* For any number of threads, operations, mode changes and handles: each   *)
(* mutex of a wallet is held where the code says so; and, if callers use   *)
(* what takes no lock only when alone, no handle leaks, none is used after *)
(* hid_close, and m_valid says whether there is one.                       *)
(***************************************************************************)
EXTENDS NanosWallet, TLAPS

-----------------------------------------------------------------------------
(***************************************************************************)
(* The inductive invariants                                                *)
(***************************************************************************)
\* The steps of an exchange, once it has the lock.
Exchanging == {"attempt", "write", "readWait", "read", "retryClose", "retryOpen"}

\* A wallet that was opened once has a product id, so that a retry never opens
\* by the placeholder of a new wallet; and a running call has tries left.
ProductInv ==
    m_productId = Absent => ~m_valid /\ \A t \in Threads : pc[t] \notin Exchanging
TriesInv == \A t \in Threads : pc[t] # "idle" => call[t].tries < MaxTries

TypeInv == TypeOK /\ ProductInv /\ TriesInv

-----------------------------------------------------------------------------
(***************************************************************************)
(* How a step moves its thread                                             *)
(***************************************************************************)
LEMMA GotoType ==
    ASSUME ThreadType, NEW t \in Threads, NEW l \in Locked \cup Unlocked, Goto(t, l)
    PROVE  /\ pc' \in [Threads -> Locked \cup Unlocked] /\ ret' \in [Threads -> Results]
           /\ pc'[t] = l /\ \A s \in Threads : s # t => pc'[s] = pc[s]
BY DEF Goto, ThreadType

\* A call that returns leaves its thread idle and no other moved.
LEMMA ReturnType ==
    ASSUME ThreadType, NEW t \in Threads, NEW r \in Results, Return(t, r)
    PROVE  /\ pc' \in [Threads -> Locked \cup Unlocked] /\ ret' \in [Threads -> Results]
           /\ pc'[t] = "idle" /\ \A s \in Threads : s # t => pc'[s] = pc[s]
BY DEF Return, ThreadType, Unlocked

\* What the operations return is listed.
LEMMA ResultsListed ==
    /\ \A a \in Apps : a \in Results
    /\ {"none", "closed", "APP_OPENED", "APP_NOT_OPENED", "DISCONNECTED",
        "PERMISSION_ERROR", "true", "false", "reply", "empty", "throw"} \subseteq Results
BY DEF Results

\* hid_open gives a handle that nobody has.
LEMMA OpenDeviceType ==
    ASSUME HidType, NEW p \in Apps \cup {Root}, OpenDevice(p)
    PROVE  /\ HidType' /\ m_dev' \in Handles \cup {NULL}
           /\ m_dev' # NULL =>
                m_dev' \notin open /\ open' = open \cup {m_dev'} /\ pid'[m_dev'] = p
           /\ m_dev' = NULL => open' = open
<1>1. CASE mode = p /\ open # Handles /\ m_dev' # NULL
  <2>1. PICK h \in Handles : h \notin open
    BY <1>1 DEF HidType
  <2>2. (CHOOSE x \in Handles : x \notin open) \in Handles \ open
    BY <2>1
  <2>3. /\ m_dev' = (CHOOSE x \in Handles : x \notin open)
        /\ open' = open \cup {m_dev'} /\ pid' = [pid EXCEPT ![m_dev'] = p]
    BY <1>1 DEF OpenDevice
  <2> QED
    BY <1>1, <2>2, <2>3 DEF HidType
<1>2. CASE m_dev' = NULL /\ UNCHANGED hidVars
  BY <1>2 DEF HidType, hidVars
<1>3. NULL \notin Handles
  BY DEF NULL, Handles
<1>4. CASE mode = p /\ open # Handles /\ m_dev' = (CHOOSE x \in Handles : x \notin open)
  <2>1. (CHOOSE x \in Handles : x \notin open) \in Handles
    <3>1. PICK h \in Handles : h \notin open
      BY <1>4 DEF HidType
    <3> QED
      BY <3>1
  <2> QED
    BY <1>1, <1>3, <1>4, <2>1
<1> QED
  BY <1>2, <1>4 DEF OpenDevice

\* hidpp_device::close gives its handle back, if it has one.
LEMMA CloseDeviceType ==
    ASSUME HidType, NEW t \in Threads,
           IF m_dev # NULL THEN CloseDevice(t) ELSE KeepDevice
    PROVE  HidType' /\ m_dev' = NULL /\ open' = open \ {m_dev}
<1>1. CASE m_dev # NULL
  BY <1>1 DEF CloseDevice, HidType
<1>2. CASE m_dev = NULL
  <2>1. m_dev \notin Handles
    BY <1>2 DEF NULL, Handles
  <2>2. open' = open /\ pid' = pid /\ m_dev' = m_dev
    BY <1>2 DEF KeepDevice, hidVars
  <2> QED
    BY <1>2, <2>1, <2>2 DEF HidType
<1> QED
  BY <1>1, <1>2

-----------------------------------------------------------------------------
(***************************************************************************)
(* Types, and who holds which mutex: for any callers                       *)
(***************************************************************************)
THEOREM TypeInit == Init => TypeInv
<1> SUFFICES ASSUME Init PROVE TypeInv
  OBVIOUS
<1> USE WalletAssumption
<1>1. WalletType
  <2>1. m_valid \in BOOLEAN
    BY Zenon DEF Init
  <2> QED
    BY <2>1 DEF Init, WalletType, Modes
<1>2. ThreadType
  <2>1. NoCall \in CallType
    <3>1. FALSE \in BOOLEAN
      BY Zenon
    <3> QED
      BY <3>1 DEF NoCall, CallType
  <2> QED
    BY <2>1, ResultsListed DEF Init, ThreadType, Unlocked
<1>3. HidType /\ EnvType
  BY DEF Init, HidType, EnvType
<1>4. LockType
  BY DEF Init, LockType, Locked
<1>5. ProductInv /\ TriesInv
  BY DEF Init, ProductInv, TriesInv, Exchanging
<1> QED
  BY <1>1, <1>2, <1>3, <1>4, <1>5 DEF TypeInv, TypeOK

\* A thread's fields after it noted what it saw of the bus, or asked once more.
LEMMA NoteSeen ==
    ASSUME NEW t \in Threads, call \in [Threads -> CallType], NEW b \in BOOLEAN,
           call' = [call EXCEPT ![t].seen = b]
    PROVE  /\ call' \in [Threads -> CallType]
           /\ \A s \in Threads : s # t => call'[s] = call[s]
           /\ call'[t].op = call[t].op /\ call'[t].arg = call[t].arg
           /\ call'[t].tries = call[t].tries
BY DEF CallType

\* Counting a try changes nothing else of a call.
LEMMA NoteTry ==
    ASSUME NEW t \in Threads, call \in [Threads -> CallType], NEW n \in 0 .. MaxTries,
           call' = [call EXCEPT ![t].tries = n]
    PROVE  /\ call' \in [Threads -> CallType]
           /\ \A s \in Threads : s # t => call'[s] = call[s]
           /\ call'[t].op = call[t].op /\ call'[t].arg = call[t].arg
           /\ call'[t].tries = n
BY DEF CallType

\* What every step of a call does to the threads: it moves its own on, and
\* leaves the rest alone.
Moves(t) ==
    /\ pc' \in [Threads -> Locked \cup Unlocked] /\ ret' \in [Threads -> Results]
    /\ call' \in [Threads -> CallType]
    /\ \A s \in Threads : s # t => pc'[s] = pc[s] /\ call'[s] = call[s]
    /\ call'[t].op = call[t].op /\ call'[t].arg = call[t].arg

\* A step that only goes on, or returns, moves its own thread.
LEMMA MovesIfKept ==
    ASSUME ThreadType, NEW t \in Threads, call' = call,
           NEW l \in Locked \cup Unlocked, NEW r \in Results,
           Goto(t, l) \/ Return(t, r)
    PROVE  Moves(t)
BY GotoType, ReturnType DEF Moves, ThreadType

\* A step of a thread moves no other.
LEMMA StepMoves ==
    ASSUME TypeInv, NEW t \in Threads, Step(t)
    PROVE  Moves(t)
<1>0. ThreadType /\ call \in [Threads -> CallType] /\ TriesInv /\ mode \in Modes
  BY DEF TypeInv, TypeOK, ThreadType, EnvType
<1>k. ASSUME call' = call, NEW l \in Locked \cup Unlocked, NEW r \in Results,
             Goto(t, l) \/ Return(t, r)
      PROVE  Moves(t)
  BY <1>0, <1>k, MovesIfKept
<1>1. ASSUME CloseHandle(t) \/ ClearValid(t) PROVE Moves(t)
  BY <1>1, <1>k, ResultsListed DEF CloseHandle, ClearValid, Locked, Unlocked
<1>2. CASE ExtLook(t)
  <2>1. (mode = call[t].arg) \in BOOLEAN
    BY Zenon
  <2>2. /\ call' \in [Threads -> CallType]
        /\ \A s \in Threads : s # t => call'[s] = call[s]
        /\ call'[t].op = call[t].op /\ call'[t].arg = call[t].arg
    BY <1>0, <1>2, <2>1, NoteSeen, Zenon DEF ExtLook
  <2>3. Goto(t, "extRoot") \/ Return(t, "APP_OPENED")
    BY <1>2 DEF ExtLook
  <2> QED
    BY <1>0, <2>2, <2>3, GotoType, ReturnType, ResultsListed DEF Moves, Locked, Unlocked
<1>3. CASE Poll(t)
  <2> DEFINE n == call[t].tries + 1
  <2>0. call[t] \in CallType /\ call[t].tries < MaxTries
    BY <1>0, <1>3 DEF Poll, TriesInv
  <2>n. n \in 0 .. MaxTries
    <3>1. call[t].tries \in 0 .. MaxTries
      BY <2>0 DEF CallType
    <3> QED
      BY <2>0, <3>1, WalletAssumption
  <2>1. call' = [call EXCEPT ![t].tries = n]
    BY <1>3 DEF Poll
  <2>2. Goto(t, "poll") \/ Return(t, "none") \/ (mode \in Apps /\ Return(t, mode))
    BY <1>3 DEF Poll
  <2>3. /\ call' \in [Threads -> CallType]
        /\ \A s \in Threads : s # t => call'[s] = call[s]
        /\ call'[t].op = call[t].op /\ call'[t].arg = call[t].arg
    <3> HIDE DEF n
    <3> QED
      BY <1>0, <2>n, <2>1, NoteTry, Zenon
  <2> QED
    BY <1>0, <2>2, <2>3, GotoType, ReturnType, ResultsListed DEF Moves, Unlocked
<1>4. ASSUME ExtRoot(t) \/ ExtOpen(t) PROVE Moves(t)
  BY <1>4, <1>k, ResultsListed DEF ExtRoot, ExtOpen, OpenAs, Locked
<1>5. ASSUME RootKnown(t) \/ RootLook(t) \/ RootClose(t) \/ RootOpen(t) PROVE Moves(t)
  BY <1>5, <1>k, ResultsListed
     DEF RootKnown, RootLook, RootClose, RootOpen, OpenAs, Locked
<1>6. ASSUME InitLook(t) \/ InitRefused(t) \/ InitApp(t) \/ InitRootLook(t) \/ InitOpen(t)
      PROVE  Moves(t)
  BY <1>6, <1>k, ResultsListed
     DEF InitLook, InitRefused, InitApp, InitRootLook, InitOpen, OpenAs, Locked
<1>7. ASSUME \/ ExchangeBegin(t) \/ NoHandle(t) \/ Attempt(t) \/ Write(t)
             \/ ReadBegins(t) \/ ReadEnds(t)
      PROVE  Moves(t)
  BY <1>7, <1>k, ResultsListed
     DEF ExchangeBegin, NoHandle, Attempt, Write, ReadBegins, ReadEnds, Exchanged,
         Locked, Unlocked
<1>8. ASSUME WrongSeqno(t) \/ RetryClose(t) \/ RetryOpen(t) PROVE Moves(t)
  BY <1>8, <1>k, ResultsListed DEF WrongSeqno, RetryClose, RetryOpen, Locked
<1>9. CASE GetOpenedAppPid(t)
  <2>1. (IF mode \in Apps THEN mode ELSE "none") \in Results
    BY ResultsListed
  <2>2. "idle" \in Locked \cup Unlocked
    BY DEF Unlocked
  <2>3. call' = call /\ Return(t, IF mode \in Apps THEN mode ELSE "none")
    BY <1>9 DEF GetOpenedAppPid
  <2> QED
    BY <1>k, <2>1, <2>2, <2>3, Zenon
<1> QED
  BY <1>1, <1>2, <1>3, <1>4, <1>5, <1>6, <1>7, <1>8, <1>9 DEF Step

\* Every opening is by the product id of an application or of the dashboard.
Opens(t, p) == OpenAs(t, p, "APP_OPENED", "PERMISSION_ERROR")
            \/ OpenAs(t, p, "APP_NOT_OPENED", "PERMISSION_ERROR")
            \/ OpenAs(t, p, "true", "false")

\* The operations open for an application or for the dashboard.
LEMMA StepOpens ==
    ASSUME TypeInv, NEW t \in Threads, ExtOpen(t) \/ RootOpen(t) \/ InitOpen(t)
    PROVE  \E p \in Apps \cup {Root} : Opens(t, p)
<1>1. call[t].arg \in Apps \cup {Root}
  BY DEF TypeInv, TypeOK, ThreadType, CallType
<1>2. CASE InitOpen(t)
  <2> DEFINE q == IF call[t].op = "init" THEN call[t].arg ELSE Root
  <2>1. q \in Apps \cup {Root} /\ OpenAs(t, q, "true", "false")
    BY <1>1, <1>2 DEF InitOpen
  <2> QED
    BY <2>1, Zenon DEF Opens
<1>3. CASE ExtOpen(t)
  BY <1>1, <1>3, Zenon DEF ExtOpen, Opens
<1>4. CASE RootOpen(t)
  <2>1. Root \in Apps \cup {Root}
    OBVIOUS
  <2> QED
    BY <1>4, <2>1, Zenon DEF RootOpen, Opens
<1> QED
  BY <1>2, <1>3, <1>4

\* A retry opens by the product id of a wallet that was opened before.
LEMMA RetryOpens ==
    ASSUME TypeInv, NEW t \in Threads, RetryOpen(t)
    PROVE  m_productId \in Apps \cup {Root} /\ OpenDevice(m_productId)
BY DEF RetryOpen, TypeInv, TypeOK, ProductInv, Exchanging, WalletType, Modes

\* Every step keeps the types of the wallet and of hidapi.
LEMMA StepWallet ==
    ASSUME TypeInv, NEW t \in Threads, Step(t)
    PROVE  WalletType' /\ HidType'
<1>1. WalletType /\ HidType
  BY DEF TypeInv, TypeOK
<1>2. ASSUME UNCHANGED <<walletVars, hidVars>> PROVE WalletType' /\ HidType'
  <2>1. m_valid' \in BOOLEAN
    BY <1>1, <1>2, Zenon DEF WalletType, walletVars
  <2> QED
    BY <1>1, <1>2, <2>1 DEF WalletType, HidType, walletVars, hidVars
<1>3. ASSUME m_valid' = m_valid \/ m_valid' = FALSE, m_productId' = m_productId,
             IF m_dev # NULL THEN CloseDevice(t) ELSE KeepDevice
      PROVE  WalletType' /\ HidType'
  <2>1. m_valid' \in BOOLEAN
    BY <1>1, <1>3, Zenon DEF WalletType
  <2> QED
    BY <1>1, <1>3, <2>1, CloseDeviceType DEF WalletType
<1>4. ASSUME m_valid' = m_valid \/ m_valid' = FALSE, m_productId' = m_productId,
             KeepDevice
      PROVE  WalletType' /\ HidType'
  <2>1. m_valid' \in BOOLEAN
    BY <1>1, <1>4, Zenon DEF WalletType
  <2> QED
    BY <1>1, <1>4, <2>1 DEF WalletType, HidType, KeepDevice, hidVars
<1>5. ASSUME NEW p \in Apps \cup {Root}, OpenDevice(p),
             m_productId' = p \/ m_productId' = m_productId,
             m_valid' = m_valid \/ m_valid' = TRUE
      PROVE  WalletType' /\ HidType'
  <2>1. m_valid' \in BOOLEAN
    BY <1>1, <1>5, Zenon DEF WalletType
  <2>2. HidType' /\ m_dev' \in Handles \cup {NULL}
    BY <1>1, <1>5, OpenDeviceType
  <2> QED
    BY <1>1, <1>5, <2>1, <2>2 DEF WalletType, Modes
<1>6. CASE ExtOpen(t) \/ RootOpen(t) \/ InitOpen(t)
  <2>1. PICK p \in Apps \cup {Root} : Opens(t, p)
    BY <1>6, StepOpens
  <2>2. OpenDevice(p) /\ m_productId' = p
        /\ m_valid' = IF m_dev' # NULL THEN TRUE ELSE m_valid
    BY <2>1, Zenon DEF Opens, OpenAs
  <2>3. m_valid' = m_valid \/ m_valid' = TRUE
    BY <2>2, Zenon
  <2> QED
    BY <1>5, <2>2, <2>3
<1>7. CASE RetryOpen(t)
  BY <1>5, <1>7, RetryOpens, Zenon DEF RetryOpen
<1>8. CASE CloseHandle(t) \/ RootClose(t)
  BY <1>3, <1>8, Zenon DEF CloseHandle, RootClose
<1>9. CASE ExtLook(t)
  <2>1. m_valid' = m_valid \/ m_valid' = FALSE
    BY <1>9, Zenon DEF ExtLook
  <2>2. m_productId' = m_productId
    BY <1>9 DEF ExtLook
  <2>3. KeepDevice \/ (m_dev # NULL /\ CloseDevice(t))
    BY <1>9 DEF ExtLook
  <2> QED
    BY <1>3, <1>4, <2>1, <2>2, <2>3, Zenon
<1>10. CASE RetryClose(t)
  <2>1. HidType' /\ m_dev' = NULL
    BY <1>1, <1>10 DEF RetryClose, CloseDevice, HidType
  <2>2. m_valid' \in BOOLEAN
    BY <1>1, <1>10, Zenon DEF RetryClose, WalletType
  <2> QED
    BY <1>1, <1>10, <2>1, <2>2 DEF RetryClose, WalletType
<1>11. CASE ClearValid(t) \/ NoHandle(t)
  BY <1>4, <1>11, Zenon
     DEF ClearValid, NoHandle, ValidWithoutHandle, KeepDevice, hidVars
<1>12. CASE \/ ExtRoot(t) \/ RootKnown(t) \/ RootLook(t) \/ InitLook(t)
            \/ InitRefused(t) \/ InitApp(t) \/ InitRootLook(t)
  BY <1>2, <1>12, Zenon
     DEF ExtRoot, RootKnown, RootLook, InitLook, InitRefused, InitApp, InitRootLook
<1>13. CASE \/ ExchangeBegin(t) \/ Attempt(t) \/ Write(t) \/ ReadBegins(t)
            \/ ReadEnds(t) \/ WrongSeqno(t) \/ Poll(t) \/ GetOpenedAppPid(t)
  BY <1>2, <1>13, Zenon
     DEF ExchangeBegin, Attempt, Write, ReadBegins, ReadEnds, WrongSeqno, Poll,
         GetOpenedAppPid
<1> QED
  BY <1>6, <1>7, <1>8, <1>9, <1>10, <1>11, <1>12, <1>13, Zenon DEF Step

\* Every step keeps each mutex where the code holds it.
LEMMA StepLocks ==
    ASSUME TypeInv, NEW t \in Threads, Step(t)
    PROVE  LockType'
<1>0. ThreadType /\ LockType /\ NoThread \notin Threads
  BY WalletAssumption DEF TypeInv, TypeOK
<1>1. /\ pc' \in [Threads -> Locked \cup Unlocked]
      /\ \A s \in Threads : s # t => pc'[s] = pc[s]
  BY StepMoves DEF Moves
\* The three ways a step treats m_devLock, and the same for m_dev_lock.
<1>k. ASSUME \/ m_devLock' = m_devLock /\ (pc[t] \in Locked <=> pc'[t] \in Locked)
             \/ m_devLock = NoThread /\ m_devLock' = t /\ pc'[t] \in Locked
             \/ /\ pc[t] \in Locked \/ m_devLock = NoThread
                /\ m_devLock' = NoThread /\ pc'[t] \notin Locked,
             \/ m_dev_lock' = m_dev_lock /\ (pc[t] = "read" <=> pc'[t] = "read")
             \/ m_dev_lock = NoThread /\ m_dev_lock' = t /\ pc'[t] = "read"
             \/ pc[t] = "read" /\ m_dev_lock' = NoThread /\ pc'[t] # "read"
      PROVE  LockType'
  BY <1>0, <1>1, <1>k DEF LockType
<1>2. CASE CloseHandle(t) \/ ClearValid(t) \/ ExtLook(t) \/ ExtRoot(t)
  BY <1>0, <1>2, <1>k
     DEF CloseHandle, ClearValid, ExtLook, ExtRoot, Goto, Return, Lock, Unlock,
         lockVars, ThreadType, Locked
<1>3. CASE ExtOpen(t) \/ RootOpen(t) \/ InitOpen(t)
  BY <1>0, <1>3, <1>k
     DEF ExtOpen, RootOpen, InitOpen, OpenAs, Return, Unlock, ThreadType, Locked
<1>4. CASE RootKnown(t) \/ RootLook(t) \/ RootClose(t)
  BY <1>0, <1>4, <1>k
     DEF RootKnown, RootLook, RootClose, Goto, Return, Lock, Unlock, lockVars,
         ThreadType, Locked
<1>5. CASE InitLook(t) \/ InitRefused(t) \/ InitApp(t) \/ InitRootLook(t)
  BY <1>0, <1>5, <1>k
     DEF InitLook, InitRefused, InitApp, InitRootLook, Goto, Return, Lock, Unlock,
         lockVars, ThreadType, Locked
<1>6. CASE ExchangeBegin(t) \/ NoHandle(t) \/ Attempt(t) \/ Write(t)
  BY <1>0, <1>6, <1>k
     DEF ExchangeBegin, NoHandle, Attempt, Write, Exchanged, Goto, Return, Lock,
         Unlock, lockVars, ThreadType, Locked
<1>7. CASE ReadBegins(t) \/ ReadEnds(t) \/ WrongSeqno(t)
  BY <1>0, <1>7, <1>k
     DEF ReadBegins, ReadEnds, WrongSeqno, Exchanged, Goto, Return, Unlock,
         ThreadType, Locked
<1>8. CASE RetryClose(t) \/ RetryOpen(t) \/ GetOpenedAppPid(t)
  BY <1>0, <1>8, <1>k
     DEF RetryClose, RetryOpen, GetOpenedAppPid, Goto, Return, lockVars,
         ThreadType, Locked
<1>9. CASE Poll(t)
  <2>1. pc[t] = "poll" /\ pc'[t] \in {"idle", "poll"}
    BY <1>0, <1>9 DEF Poll, Goto, Return, ThreadType
  <2>2. UNCHANGED lockVars
    BY <1>9 DEF Poll
  <2> QED
    BY <1>k, <2>1, <2>2 DEF lockVars, Locked
<1> QED
  BY <1>2, <1>3, <1>4, <1>5, <1>6, <1>7, <1>8, <1>9, Zenon DEF Step

\* Only a wallet that is valid begins an exchange, and only an opening, which
\* gives it a product id, makes it valid.
LEMMA StepProduct ==
    ASSUME TypeInv, NEW t \in Threads, Step(t)
    PROVE  ProductInv'
<1>0. ThreadType /\ ProductInv
  BY DEF TypeInv, TypeOK
<1>1. \A s \in Threads : s # t => pc'[s] = pc[s]
  BY StepMoves DEF Moves
<1>k. ASSUME m_productId' = m_productId, m_valid' => m_valid,
             pc'[t] \in Exchanging => pc[t] \in Exchanging \/ m_valid
      PROVE  ProductInv'
  BY <1>0, <1>1, <1>k DEF ProductInv
<1>2. CASE CloseHandle(t) \/ ClearValid(t) \/ ExtLook(t) \/ ExtRoot(t)
  BY <1>0, <1>2, <1>k
     DEF CloseHandle, ClearValid, ExtLook, ExtRoot, Goto, Return, walletVars,
         ThreadType, Exchanging
<1>3. CASE ExtOpen(t) \/ RootOpen(t) \/ InitOpen(t)
  <2>1. PICK p \in Apps \cup {Root} : Opens(t, p)
    BY <1>3, StepOpens
  <2>2. m_productId' = p /\ p # Absent
    BY <2>1, WalletAssumption DEF Opens, OpenAs, Root, Absent
  <2> QED
    BY <2>2 DEF ProductInv
<1>4. CASE RootKnown(t) \/ RootLook(t) \/ RootClose(t)
  BY <1>0, <1>4, <1>k
     DEF RootKnown, RootLook, RootClose, Goto, Return, walletVars, ThreadType, Exchanging
<1>5. CASE InitLook(t) \/ InitRefused(t) \/ InitApp(t) \/ InitRootLook(t)
  BY <1>0, <1>5, <1>k
     DEF InitLook, InitRefused, InitApp, InitRootLook, Goto, Return, walletVars,
         ThreadType, Exchanging
<1>6. CASE ExchangeBegin(t) \/ NoHandle(t) \/ Attempt(t) \/ Write(t)
  BY <1>0, <1>6, <1>k
     DEF ExchangeBegin, NoHandle, Attempt, Write, Exchanged, ValidWithoutHandle,
         Goto, Return, walletVars, ThreadType, Exchanging
<1>7. CASE ReadBegins(t) \/ ReadEnds(t) \/ WrongSeqno(t)
  BY <1>0, <1>7, <1>k
     DEF ReadBegins, ReadEnds, WrongSeqno, Exchanged, Goto, Return, walletVars,
         ThreadType, Exchanging
<1>8. CASE RetryClose(t) \/ RetryOpen(t) \/ GetOpenedAppPid(t)
  BY <1>0, <1>8, <1>k
     DEF RetryClose, RetryOpen, GetOpenedAppPid, Goto, Return, walletVars,
         ThreadType, Exchanging
<1>9. CASE Poll(t)
  <2>1. pc'[t] \in {"idle", "poll"} /\ UNCHANGED walletVars
    BY <1>0, <1>9 DEF Poll, Goto, Return, ThreadType
  <2> QED
    BY <1>k, <2>1 DEF walletVars, Exchanging
<1> QED
  BY <1>2, <1>3, <1>4, <1>5, <1>6, <1>7, <1>8, <1>9, Zenon DEF Step

\* Only Poll counts, and it returns at the last try.
LEMMA StepTries ==
    ASSUME TypeInv, NEW t \in Threads, Step(t)
    PROVE  TriesInv'
<1>0. ThreadType /\ TriesInv
  BY DEF TypeInv, TypeOK
<1>1. \A s \in Threads : s # t => pc'[s] = pc[s] /\ call'[s] = call[s]
  BY StepMoves DEF Moves
<1>2. pc[t] # "idle"
  BY DEF Step, CloseHandle, ClearValid, ExtLook, ExtRoot, ExtOpen, RootKnown, RootLook,
         RootClose, RootOpen, InitLook, InitRefused, InitApp, InitRootLook, InitOpen,
         ExchangeBegin, NoHandle, Attempt, Write, ReadBegins, ReadEnds, WrongSeqno,
         RetryClose, RetryOpen, Poll, GetOpenedAppPid
<1>3. ASSUME call'[t].tries = call[t].tries PROVE TriesInv'
  BY <1>0, <1>1, <1>2, <1>3 DEF TriesInv
<1>4. CASE Poll(t)
  <2> DEFINE n == call[t].tries + 1
  <2>1. call[t].tries \in 0 .. MaxTries /\ MaxTries \in Nat
    BY <1>0, WalletAssumption DEF ThreadType, CallType
  <2>2. call'[t].tries = n
    BY <1>0, <1>4 DEF Poll, ThreadType, CallType
  <2>3. CASE n >= MaxTries
    <3>1. pc'[t] = "idle"
      BY <1>0, <1>4, <2>3 DEF Poll, TriesOver, Return, ThreadType
    <3> QED
      BY <1>0, <1>1, <3>1 DEF TriesInv
  <2>4. CASE n < MaxTries
    BY <1>0, <1>1, <2>2, <2>4 DEF TriesInv
  <2> QED
    BY <2>1, <2>3, <2>4
<1>5. CASE ExtLook(t)
  <2>1. (mode = call[t].arg) \in BOOLEAN
    BY Zenon
  <2>2. call'[t].tries = call[t].tries
    BY <1>0, <1>5, <2>1, NoteSeen, Zenon DEF ExtLook, ThreadType
  <2> QED
    BY <1>3, <2>2
<1>6. ASSUME call' = call PROVE TriesInv'
  BY <1>3, <1>6
<1>7. CASE ~ ExtLook(t) /\ ~ Poll(t)
  <2>1. call' = call
    BY <1>7
       DEF Step, CloseHandle, ClearValid, ExtRoot, ExtOpen, OpenAs, RootKnown, RootLook,
           RootClose, RootOpen, InitLook, InitRefused, InitApp, InitRootLook, InitOpen,
           ExchangeBegin, NoHandle, Attempt, Write, ReadBegins, ReadEnds, WrongSeqno,
           RetryClose, RetryOpen, GetOpenedAppPid
  <2> QED
    BY <1>6, <2>1
<1> QED
  BY <1>4, <1>5, <1>7

\* Every step keeps what bounds it.
LEMMA StepEnv ==
    ASSUME TypeInv, NEW t \in Threads, Step(t)
    PROVE  EnvType'
<1>1. EnvType
  BY DEF TypeInv, TypeOK
<1>2. CASE WrongSeqno(t)
  BY <1>1, <1>2 DEF WrongSeqno, EnvType
<1>3. CASE ~ WrongSeqno(t)
  <2>1. UNCHANGED envVars
    BY <1>3
       DEF Step, CloseHandle, ClearValid, ExtLook, ExtRoot, ExtOpen, OpenAs, RootKnown,
           RootLook, RootClose, RootOpen, InitLook, InitRefused, InitApp, InitRootLook,
           InitOpen, ExchangeBegin, NoHandle, Attempt, Write, ReadBegins, ReadEnds,
           RetryClose, RetryOpen, Poll, GetOpenedAppPid
  <2> QED
    BY <1>1, <2>1 DEF envVars, EnvType
<1> QED
  BY <1>2, <1>3

\* A call that begins touches its own thread only.
LEMMA BeginType ==
    ASSUME TypeInv, NEW t \in Threads, NEW o \in Operations, NEW p \in Apps \cup {Root},
           Begin(t, o, p)
    PROVE  /\ TypeInv'
           /\ pc[t] = "idle" /\ pc'[t] = Start(o)
           /\ call'[t].op = o /\ call'[t].arg = p
           /\ \A s \in Threads : s # t => pc'[s] = pc[s] /\ call'[s] = call[s]
<1>0. /\ WalletType /\ ThreadType /\ HidType /\ EnvType /\ LockType
      /\ ProductInv /\ TriesInv
  BY DEF TypeInv, TypeOK
<1> DEFINE c == [op |-> o, arg |-> p, seen |-> FALSE, tries |-> 0]
<1>1. c \in CallType /\ c.tries = 0 /\ c.op = o /\ c.arg = p
  <2>1. FALSE \in BOOLEAN
    BY Zenon
  <2> QED
    BY <2>1, WalletAssumption DEF CallType
<1>2. Start(o) \in Unlocked /\ Start(o) # "idle" /\ Start(o) \notin Locked
  BY DEF Start, Operations, Unlocked, Locked
<1>3. /\ call' = [call EXCEPT ![t] = c] /\ pc' = [pc EXCEPT ![t] = Start(o)]
      /\ ret' = [ret EXCEPT ![t] = "none"] /\ pc[t] = "idle"
  BY DEF Begin
<1>4. UNCHANGED <<walletVars, lockVars, hidVars, mode, switches, strange>>
      /\ ops' = ops + 1
  BY Zenon DEF Begin
<1> HIDE DEF c
<1>5. ThreadType'
  BY <1>0, <1>1, <1>2, <1>3, ResultsListed DEF ThreadType
<1>6. /\ pc'[t] = Start(o) /\ call'[t] = c
      /\ \A s \in Threads : s # t => pc'[s] = pc[s] /\ call'[s] = call[s]
  BY <1>0, <1>3 DEF ThreadType
<1>7. WalletType'
  <2>1. m_valid' \in BOOLEAN
    BY <1>0, <1>4, Zenon DEF WalletType, walletVars
  <2> QED
    BY <1>0, <1>4, <2>1 DEF WalletType, walletVars
<1>8. HidType' /\ EnvType'
  BY <1>0, <1>4 DEF HidType, hidVars, EnvType
<1>9. LockType'
  BY <1>0, <1>2, <1>3, <1>4, <1>6 DEF LockType, lockVars, Unlocked, Locked
<1>10. ProductInv'
  <2>1. Start(o) \notin Exchanging
    BY DEF Start, Operations, Exchanging
  <2> QED
    BY <1>0, <1>4, <1>6, <2>1 DEF ProductInv, walletVars
<1>11. TriesInv'
  BY <1>0, <1>1, <1>6, WalletAssumption DEF TriesInv
<1> QED
  BY <1>1, <1>3, <1>5, <1>6, <1>7, <1>8, <1>9, <1>10, <1>11 DEF TypeInv, TypeOK

\* The Ledger changes its mode without a word to the wallet.
LEMMA SwitchType ==
    ASSUME TypeInv, NEW m \in Modes, Switch(m)
    PROVE  TypeInv' /\ UNCHANGED <<walletVars, lockVars, threadVars, hidVars>>
<1>1. UNCHANGED <<walletVars, lockVars, threadVars, hidVars>>
  BY Zenon DEF Switch
<1>2. m_valid' \in BOOLEAN
  BY <1>1, Zenon DEF TypeInv, TypeOK, WalletType, walletVars
<1>3. WalletType'
  BY <1>1, <1>2 DEF TypeInv, TypeOK, WalletType, walletVars
<1>4. ThreadType' /\ HidType' /\ LockType'
  BY <1>1 DEF TypeInv, TypeOK, ThreadType, HidType, LockType, lockVars, threadVars, hidVars
<1>5. EnvType'
  BY DEF TypeInv, TypeOK, EnvType, Switch
<1>6. ProductInv' /\ TriesInv'
  BY <1>1 DEF TypeInv, ProductInv, TriesInv, walletVars, threadVars
<1> QED
  BY <1>1, <1>3, <1>4, <1>5, <1>6 DEF TypeInv, TypeOK

\* TypeInv is inductive, for any callers: mutexes are held where the code says,
\* and no retry opens with the placeholder of a new wallet.
THEOREM TypeNext == TypeInv /\ [Next]_vars => TypeInv'
<1> SUFFICES ASSUME TypeInv, [Next]_vars PROVE TypeInv'
  OBVIOUS
<1>1. ASSUME NEW t \in Threads, Step(t) PROVE TypeInv'
  <2>1. ThreadType'
    BY <1>1, StepMoves DEF Moves, ThreadType
  <2> QED
    BY <1>1, <2>1, StepWallet, StepLocks, StepProduct, StepTries, StepEnv, Zenon
       DEF TypeInv, TypeOK
<1>2. ASSUME NEW t \in Threads, NEW o \in Operations, NEW p \in Apps \cup {Root},
             Begin(t, o, p)
      PROVE  TypeInv'
  BY <1>2, BeginType
<1>3. ASSUME NEW m \in Modes, Switch(m) PROVE TypeInv'
  BY <1>3, SwitchType
<1>4. ASSUME UNCHANGED vars PROVE TypeInv'
  BY <1>4, Zenon
     DEF vars, walletVars, lockVars, threadVars, hidVars, envVars, TypeInv, TypeOK,
         WalletType, ThreadType, HidType, EnvType, LockType, ProductInv, TriesInv
<1> QED
  BY <1>1, <1>2, <1>3, <1>4 DEF Next

\* The wallet keeps its types, run_app asks MaxTries times at most, and each of
\* the two mutexes is held exactly by the thread that is at a step under it,
\* for any number of threads and whatever they call.
THEOREM WalletTypeCorrect == Spec => []TypeOK
<1>1. TypeInv => TypeOK
  BY DEF TypeInv
<1> QED
  BY <1>1, TypeInit, TypeNext, PTL DEF Spec

-----------------------------------------------------------------------------
(***************************************************************************)
(* The handle: for callers who use what takes no lock only when alone      *)
(***************************************************************************)
\* An operation that takes no lock runs beside no other.
AloneInv ==
    \A t, s \in Threads :
        t # s /\ pc[t] # "idle" /\ call[t].op \in Alone => pc[s] = "idle"

\* Which operations take which path.
Closing    == {"close", "clearValid"}
Extending  == {"ext", "extRoot", "extOpen"}
Initing    == {"init", "init_root", "initApp", "initOpen"}
OpInv ==
    \A t \in Threads :
        /\ pc[t] \in Closing => call[t].op \in {"close", "reopen_with_app"}
        /\ pc[t] \in Extending => call[t].op \in {"init_ext", "reopen_with_app"}
        /\ pc[t] \in Initing => call[t].op \in {"init", "init_root"}
        /\ call[t].op = "reopen_with_app" =>
             pc[t] \in {"idle"} \cup Closing \cup Extending

\* What each path knows of the handle: before it opens one there is none, and
\* before it does I/O or closes there is one, and the flag agrees.
NeedsNone(t) ==
    \/ pc[t] \in {"extRoot", "extOpen", "rootOpen"} \cup Initing
    \/ pc[t] = "ext" /\ call[t].op = "reopen_with_app"
NeedsHandle(t) == pc[t] \in {"rootClose", "write", "readWait", "read", "retryClose"}
PathOf(t) ==
    /\ NeedsNone(t) => ~m_valid /\ m_dev = NULL
    /\ NeedsHandle(t) => m_valid /\ m_dev # NULL
    /\ pc[t] = "attempt" => m_valid
    /\ pc[t] = "retryOpen" => m_valid /\ m_dev = NULL
    /\ pc[t] = "clearValid" => m_dev = NULL
PathInv == \A t \in Threads : PathOf(t)

SessionInv ==
    /\ TypeInv /\ AloneInv /\ OpInv
    /\ HandleOwned /\ ValidMeansHandle /\ PathInv

\* A new wallet has no handle, and says so.
LEMMA SessionInit == Init => SessionInv
<1> SUFFICES ASSUME Init PROVE SessionInv
  OBVIOUS
<1>1. \A t \in Threads : pc[t] = "idle" /\ call[t] = NoCall
  BY DEF Init
<1>2. AloneInv /\ OpInv
  BY <1>1 DEF AloneInv, OpInv, NoCall, Closing, Extending, Initing
<1>3. HandleOwned /\ ValidMeansHandle
  BY DEF Init, HandleOwned, ValidMeansHandle
<1>4. PathInv
  BY <1>1 DEF PathInv, PathOf, NeedsNone, NeedsHandle, Initing
<1> QED
  BY <1>2, <1>3, <1>4, TypeInit DEF SessionInv

\* What a step may not happen beside.
LEMMA OthersIdle ==
    ASSUME SessionInv, NEW t \in Threads, NEW s \in Threads, s # t,
           \/ pc[t] \in Closing \cup Initing
           \/ pc[t] = "ext" /\ call[t].op = "reopen_with_app"
    PROVE  pc[s] = "idle"
<1>1. call[t].op \in Alone /\ pc[t] # "idle"
  BY DEF SessionInv, OpInv, Alone, Closing, Initing
<1> QED
  BY <1>1 DEF SessionInv, AloneInv

\* Who holds m_devLock holds it alone.
LEMMA OthersUnlocked ==
    ASSUME SessionInv, NEW t \in Threads, NEW s \in Threads, s # t,
           pc[t] \in Locked \/ m_devLock = NoThread
    PROVE  pc[s] \notin Locked
BY WalletAssumption DEF SessionInv, TypeInv, TypeOK, LockType

\* When m_devLock is free, a running call finds flag and handle in agreement.
LEMMA Agree ==
    ASSUME SessionInv, NEW t \in Threads, m_devLock = NoThread,
           pc[t] \notin {"idle", "clearValid"}
    PROVE  m_valid <=> m_dev # NULL
<1>1. \A s \in Threads : pc[s] # "clearValid"
  BY OthersIdle DEF Closing
<1> QED
  BY <1>1 DEF SessionInv, ValidMeansHandle

\* The flag and the handle change only where no other call relies on them.
LEMMA OthersStand ==
    ASSUME SessionInv, NEW t \in Threads, Step(t), NEW s \in Threads, s # t
    PROVE  PathOf(s)'
<1>0. /\ pc'[s] = pc[s] /\ call'[s] = call[s]
      /\ PathOf(s)
  BY StepMoves DEF Moves, SessionInv, PathInv
<1>1. CASE m_valid' = m_valid /\ m_dev' = m_dev
  BY <1>0, <1>1 DEF PathOf, NeedsNone, NeedsHandle
<1>2. CASE pc[s] = "idle"
  BY <1>0, <1>2 DEF PathOf, NeedsNone, NeedsHandle, Initing
<1>3. CASE pc[t] \in Locked \/ m_devLock = NoThread
  <2>1. pc[s] \notin Locked
    BY <1>3, OthersUnlocked
  <2>2. CASE pc[s] \in Closing \cup Initing \/ (pc[s] = "ext" /\ call[s].op = "reopen_with_app")
    <3>1. pc[t] = "idle"
      BY <2>2, OthersIdle
    <3> QED
      BY <3>1
         DEF Step, CloseHandle, ClearValid, ExtLook, ExtRoot, ExtOpen, RootKnown, RootLook,
             RootClose, RootOpen, InitLook, InitRefused, InitApp, InitRootLook, InitOpen,
             ExchangeBegin, NoHandle, Attempt, Write, ReadBegins, ReadEnds, WrongSeqno,
             RetryClose, RetryOpen, Poll, GetOpenedAppPid
  <2> QED
    BY <1>0, <2>1, <2>2 DEF PathOf, NeedsNone, NeedsHandle, Initing, Closing, Locked
<1>4. CASE pc[t] \in Closing
  BY <1>2, <1>4, OthersIdle
<1>5. \/ pc[t] \in Locked \cup Closing \/ m_devLock = NoThread
      \/ m_valid' = m_valid /\ m_dev' = m_dev
  <2>1. CASE pc[t] \in Locked \cup Closing
    BY <2>1
  <2>2. CASE ExtLook(t) \/ RootKnown(t) \/ RootLook(t)
    BY <2>2 DEF ExtLook, RootKnown, RootLook, Lock
  <2>3. CASE \/ InitLook(t) \/ InitRefused(t) \/ InitApp(t) \/ InitRootLook(t)
             \/ ExchangeBegin(t) \/ Poll(t) \/ GetOpenedAppPid(t)
    BY <2>3 DEF InitLook, InitRefused, InitApp, InitRootLook, ExchangeBegin, Poll,
                GetOpenedAppPid, walletVars
  <2> QED
    BY <2>1, <2>2, <2>3
       DEF Step, CloseHandle, ClearValid, ExtRoot, ExtOpen, RootClose, RootOpen,
           InitOpen, NoHandle, Attempt, Write, ReadBegins, ReadEnds, WrongSeqno,
           RetryClose, RetryOpen, Locked, Closing
<1> QED
  BY <1>1, <1>3, <1>4, <1>5

\* What a step does to the flag and the handle, and what its thread knows next.
LEMMA StepHandle ==
    ASSUME SessionInv, NEW t \in Threads, Step(t)
    PROVE  HandleOwned' /\ ValidMeansHandle' /\ PathOf(t)'
<1> DEFINE Goal == HandleOwned' /\ ValidMeansHandle' /\ PathOf(t)'
<1>0. /\ HidType /\ ThreadType /\ LockType /\ m_valid \in BOOLEAN
      /\ HandleOwned /\ ValidMeansHandle /\ PathOf(t)
      /\ NoThread \notin Threads /\ t # NoThread
  BY WalletAssumption DEF SessionInv, TypeInv, TypeOK, WalletType, PathInv
<1>t. TypeInv
  BY DEF SessionInv
<1>1. /\ pc'[t] \in Locked \cup Unlocked
      /\ \A s \in Threads : s # t => pc'[s] = pc[s]
      /\ call'[t].op = call[t].op
  BY <1>t, StepMoves DEF Moves
<1>2. LockType'
  BY <1>t, StepLocks
\* Why m_valid agrees with the handle after a step, or need not.
<1>v. ASSUME \/ pc'[t] \in Locked \/ pc'[t] = "clearValid"
             \/ m_valid' <=> m_dev' # NULL
             \/ m_valid' = m_valid /\ m_dev' = m_dev /\ m_devLock' = m_devLock /\ pc[t] # "clearValid"
      PROVE  ValidMeansHandle'
  BY <1>0, <1>1, <1>2, <1>v DEF ValidMeansHandle, LockType
\* A step that leaves the wallet alone.
<1>k. ASSUME UNCHANGED <<walletVars, hidVars>>,
             \/ pc'[t] \in Locked
             \/ m_valid <=> m_dev # NULL
             \/ m_devLock' = m_devLock /\ pc[t] # "clearValid",
             PathOf(t)'
      PROVE  Goal
  <2>1. m_valid' = m_valid /\ m_dev' = m_dev /\ open' = open
    BY <1>k DEF walletVars, hidVars
  <2>2. HandleOwned'
    BY <1>0, <2>1 DEF HandleOwned
  <2>3. ValidMeansHandle'
    BY <1>k, <1>v, <2>1
  <2> QED
    BY <1>k, <2>2, <2>3
\* A step that closes the handle if there is one, and goes on without.
<1>c. ASSUME IF m_dev # NULL THEN CloseDevice(t) ELSE KeepDevice
      PROVE  HandleOwned' /\ m_dev' = NULL
  <2>1. m_dev' = NULL /\ open' = open \ {m_dev}
    BY <1>0, <1>c, CloseDeviceType
  <2> QED
    BY <1>0, <2>1 DEF HandleOwned
\* A step that opens, after a path on which there was no handle.
<1>o. ASSUME NEW p \in Apps \cup {Root}, OpenDevice(p), m_dev = NULL
      PROVE  HandleOwned'
  <2>1. /\ m_dev' # NULL => open' = open \cup {m_dev'}
        /\ m_dev' = NULL => open' = open
    BY <1>0, <1>o, OpenDeviceType
  <2> QED
    BY <1>0, <1>o, <2>1 DEF HandleOwned
<1>3. CASE CloseHandle(t)
  <2>1. HandleOwned' /\ m_dev' = NULL
    BY <1>c, <1>3 DEF CloseHandle
  <2>2. pc'[t] = "clearValid"
    BY <1>0, <1>3, GotoType DEF CloseHandle, Unlocked
  <2> QED
    BY <1>v, <2>1, <2>2 DEF PathOf, NeedsNone, NeedsHandle, Initing
<1>4. CASE ClearValid(t)
  <2>1. m_dev = NULL /\ m_dev' = NULL /\ open' = open /\ m_valid' = FALSE
    BY <1>0, <1>4 DEF ClearValid, PathOf, hidVars
  <2>2. pc'[t] \in {"idle", "ext"}
    BY <1>0, <1>4 DEF ClearValid, Goto, Return, ThreadType
  <2>3. HandleOwned'
    BY <1>0, <2>1 DEF HandleOwned
  <2> QED
    BY <1>v, <2>1, <2>2, <2>3 DEF PathOf, NeedsNone, NeedsHandle
<1>5. CASE ExtLook(t)
  <2>1. CASE m_valid /\ mode = call[t].arg
    <3>1. UNCHANGED <<m_valid, m_productId, m_dev, hidVars, m_devLock>> /\ m_devLock = NoThread
          /\ pc'[t] = "idle"
      BY <1>0, <1>5, <2>1 DEF ExtLook, KeepDevice, Return, ThreadType
    <3>2. PathOf(t)'
      BY <3>1 DEF PathOf, NeedsNone, NeedsHandle, Initing
    <3>3. pc[t] = "ext"
      BY <1>5 DEF ExtLook
    <3> QED
      BY <1>k, <3>1, <3>2, <3>3 DEF walletVars
  <2>2. CASE ~(m_valid /\ mode = call[t].arg)
    <3>1. /\ m_devLock = NoThread /\ pc[t] = "ext" /\ Goto(t, "extRoot") /\ m_valid' = FALSE
          /\ IF m_valid /\ m_dev # NULL THEN CloseDevice(t) ELSE KeepDevice
      BY <1>5, <2>2 DEF ExtLook, Lock, ClosesOld
    <3>2. IF m_dev # NULL THEN CloseDevice(t) ELSE KeepDevice
      BY <3>1, Agree
    <3>3. HandleOwned' /\ m_dev' = NULL
      BY <1>c, <3>2
    <3>4. pc'[t] = "extRoot"
      BY <1>0, <3>1, GotoType DEF Locked
    <3> QED
      BY <1>v, <3>1, <3>3, <3>4 DEF PathOf, NeedsNone, NeedsHandle, Initing, Locked
  <2> QED
    BY <2>1, <2>2
<1>6. CASE ExtRoot(t)
  <2>1. ~m_valid /\ m_dev = NULL /\ UNCHANGED <<walletVars, hidVars>>
    BY <1>0, <1>6 DEF ExtRoot, PathOf, NeedsNone
  <2>2. pc'[t] \in {"idle", "extOpen"}
    BY <1>0, <1>6 DEF ExtRoot, Goto, Return, ThreadType
  <2>3. PathOf(t)'
    BY <2>1, <2>2 DEF PathOf, NeedsNone, NeedsHandle, walletVars
  <2> QED
    BY <1>k, <2>1, <2>3
<1>7. CASE ExtOpen(t) \/ RootOpen(t) \/ InitOpen(t)
  <2>1. PICK p \in Apps \cup {Root} : Opens(t, p)
    BY <1>7, StepOpens DEF SessionInv
  <2>2. /\ OpenDevice(p) /\ m_valid' = (IF m_dev' # NULL THEN TRUE ELSE m_valid)
        /\ pc'[t] = "idle"
    BY <1>0, <2>1 DEF Opens, OpenAs, Return, ThreadType
  <2>3. ~m_valid /\ m_dev = NULL
    BY <1>0, <1>7 DEF ExtOpen, RootOpen, InitOpen, PathOf, NeedsNone, Initing
  <2>4. HandleOwned' /\ (m_valid' <=> m_dev' # NULL)
    BY <1>o, <2>2, <2>3
  <2> QED
    BY <1>v, <2>2, <2>4 DEF PathOf, NeedsNone, NeedsHandle, Initing
<1>8. CASE RootKnown(t) \/ GetOpenedAppPid(t) \/ Poll(t)
  <2>1. /\ UNCHANGED <<walletVars, hidVars, m_devLock>> /\ pc[t] # "clearValid"
        /\ pc'[t] \in {"idle", "poll"}
    BY <1>0, <1>8
       DEF RootKnown, GetOpenedAppPid, Poll, Goto, Return, ThreadType, lockVars
  <2>2. PathOf(t)'
    BY <2>1 DEF PathOf, NeedsNone, NeedsHandle, Initing
  <2> QED
    BY <1>k, <2>1, <2>2
<1>9. CASE RootLook(t)
  <2>1. /\ m_devLock = NoThread /\ pc[t] = "init_ext_root"
        /\ pc'[t] = IF m_valid THEN "rootClose" ELSE "rootOpen"
        /\ UNCHANGED <<walletVars, hidVars>>
    BY <1>0, <1>9 DEF RootLook, Lock, Goto, ThreadType
  <2>2. m_valid <=> m_dev # NULL
    BY <2>1, Agree
  <2>3. PathOf(t)'
    BY <2>1, <2>2 DEF PathOf, NeedsNone, NeedsHandle, Initing, walletVars
  <2> QED
    BY <1>k, <2>1, <2>2, <2>3
<1>10. CASE RootClose(t)
  <2>1. HandleOwned' /\ m_dev' = NULL
    BY <1>c, <1>10 DEF RootClose
  <2>2. pc'[t] = "idle" /\ m_valid' = FALSE
    BY <1>0, <1>10 DEF RootClose, Return, ThreadType
  <2> QED
    BY <1>v, <2>1, <2>2 DEF PathOf, NeedsNone, NeedsHandle, Initing
<1>11. CASE InitLook(t) \/ InitRefused(t) \/ InitApp(t) \/ InitRootLook(t)
  <2>1. UNCHANGED <<walletVars, hidVars>> /\ pc'[t] \in {"idle"} \cup Initing
    BY <1>0, <1>11
       DEF InitLook, InitRefused, InitApp, InitRootLook, Goto, Return, ThreadType, Initing
  <2>2. ~m_valid /\ m_dev = NULL
    BY <1>0, <1>11
       DEF InitLook, InitRefused, InitApp, InitRootLook, PathOf, NeedsNone, Initing
  <2>3. PathOf(t)'
    BY <2>1, <2>2 DEF PathOf, NeedsNone, NeedsHandle, Initing, walletVars
  <2> QED
    BY <1>k, <2>1, <2>2, <2>3
<1>12. CASE ExchangeBegin(t)
  <2>1. /\ UNCHANGED <<walletVars, hidVars>> /\ m_devLock = NoThread /\ pc[t] = "exchange"
        /\ pc'[t] = IF m_valid THEN "attempt" ELSE "idle"
    BY <1>0, <1>12 DEF ExchangeBegin, Lock, Goto, Return, ThreadType
  <2>2. m_valid <=> m_dev # NULL
    BY <2>1, Agree
  <2>3. PathOf(t)'
    BY <2>1, <2>2 DEF PathOf, NeedsNone, NeedsHandle, Initing, walletVars
  <2> QED
    BY <1>k, <2>1, <2>2, <2>3
<1>13. CASE NoHandle(t)
  <2>1. m_dev = NULL /\ m_dev' = NULL /\ open' = open /\ m_valid' = FALSE
    BY <1>13 DEF NoHandle, HasHandle, ValidWithoutHandle, hidVars
  <2>2. pc'[t] \in {"idle", "poll"}
    BY <1>0, <1>13 DEF NoHandle, Exchanged, Goto, Return, ThreadType
  <2>3. HandleOwned'
    BY <1>0, <2>1 DEF HandleOwned
  <2> QED
    BY <1>v, <2>1, <2>2, <2>3 DEF PathOf, NeedsNone, NeedsHandle, Initing
<1>14. CASE Attempt(t) \/ Write(t) \/ ReadBegins(t) \/ WrongSeqno(t)
  <2>1. /\ UNCHANGED <<walletVars, hidVars>>
        /\ pc'[t] \in {"write", "readWait", "read", "retryClose"}
    BY <1>0, <1>14
       DEF Attempt, Write, ReadBegins, WrongSeqno, Goto, ThreadType, walletVars
  <2>2. m_valid /\ m_dev # NULL
    BY <1>0, <1>14
       DEF Attempt, Write, ReadBegins, WrongSeqno, HasHandle, PathOf, NeedsHandle
  <2>3. PathOf(t)'
    BY <2>1, <2>2 DEF PathOf, NeedsNone, NeedsHandle, Initing, walletVars
  <2> QED
    BY <1>k, <2>1, <2>2, <2>3
<1>15. CASE ReadEnds(t)
  <2>1. UNCHANGED <<walletVars, hidVars>> /\ pc'[t] \in {"idle", "poll"}
    BY <1>0, <1>15 DEF ReadEnds, Exchanged, Goto, Return, ThreadType
  <2>2. m_valid /\ m_dev # NULL
    BY <1>0, <1>15 DEF ReadEnds, PathOf, NeedsHandle
  <2>3. PathOf(t)'
    BY <2>1 DEF PathOf, NeedsNone, NeedsHandle, Initing
  <2> QED
    BY <1>k, <2>1, <2>2, <2>3
<1>16. CASE RetryClose(t)
  <2>1. m_valid /\ m_dev # NULL /\ m_valid' = m_valid /\ pc'[t] = "retryOpen"
    BY <1>0, <1>16 DEF RetryClose, PathOf, NeedsHandle, Goto, ThreadType
  <2>2. HandleOwned' /\ m_dev' = NULL
    BY <1>c, <1>16, <2>1 DEF RetryClose
  <2> QED
    BY <1>v, <2>1, <2>2 DEF PathOf, NeedsNone, NeedsHandle, Initing, Locked
<1>17. CASE RetryOpen(t)
  <2>1. m_valid /\ m_dev = NULL /\ m_valid' = m_valid /\ pc'[t] = "attempt"
    BY <1>0, <1>17 DEF RetryOpen, PathOf, Goto, ThreadType
  <2>2. HandleOwned'
    BY <1>o, <1>17, <2>1, RetryOpens DEF SessionInv
  <2> QED
    BY <1>v, <2>1, <2>2 DEF PathOf, NeedsNone, NeedsHandle, Initing, Locked
<1> QED
  BY <1>3, <1>4, <1>5, <1>6, <1>7, <1>8, <1>9, <1>10, <1>11, <1>12, <1>13, <1>14,
     <1>15, <1>16, <1>17, Zenon DEF Step

\* A step keeps its thread on a path of its operation.
LEMMA StepOps ==
    ASSUME SessionInv, NEW t \in Threads, Step(t)
    PROVE  AloneInv' /\ OpInv'
<1>0. ThreadType /\ TypeInv /\ AloneInv /\ OpInv
  BY DEF SessionInv, TypeInv, TypeOK
<1>1. /\ \A s \in Threads : s # t => pc'[s] = pc[s] /\ call'[s] = call[s]
      /\ call'[t].op = call[t].op
  BY <1>0, StepMoves DEF Moves
<1>2. pc[t] # "idle"
  BY DEF Step, CloseHandle, ClearValid, ExtLook, ExtRoot, ExtOpen, RootKnown, RootLook,
         RootClose, RootOpen, InitLook, InitRefused, InitApp, InitRootLook, InitOpen,
         ExchangeBegin, NoHandle, Attempt, Write, ReadBegins, ReadEnds, WrongSeqno,
         RetryClose, RetryOpen, Poll, GetOpenedAppPid
<1>3. AloneInv'
  BY <1>0, <1>1, <1>2 DEF AloneInv
<1> DEFINE Stays(S) == pc[t] \in S /\ pc'[t] \in {"idle"} \cup S
<1>4. \/ Stays(Closing) \/ Stays(Extending) \/ Stays(Initing)
      \/ pc[t] = "clearValid" /\ call[t].op # "close" /\ pc'[t] = "ext"
      \/ /\ pc[t] \notin Closing \cup Extending \cup Initing
         /\ pc'[t] \notin Closing \cup Extending \cup Initing
  <2>1. CASE CloseHandle(t) \/ ClearValid(t)
    BY <1>0, <2>1 DEF CloseHandle, ClearValid, Goto, Return, ThreadType, Closing
  <2>2. CASE ExtLook(t) \/ ExtRoot(t) \/ ExtOpen(t)
    BY <1>0, <2>2 DEF ExtLook, ExtRoot, ExtOpen, OpenAs, Goto, Return, ThreadType, Extending
  <2>3. CASE \/ InitLook(t) \/ InitRefused(t) \/ InitApp(t) \/ InitRootLook(t) \/ InitOpen(t)
    BY <1>0, <2>3 DEF InitLook, InitRefused, InitApp, InitRootLook, InitOpen, OpenAs, Goto,
                      Return, ThreadType, Initing
  <2>4. CASE RootKnown(t) \/ RootLook(t) \/ RootClose(t) \/ RootOpen(t)
    BY <1>0, <2>4 DEF RootKnown, RootLook, RootClose, RootOpen, OpenAs, Goto, Return,
                      ThreadType, Closing, Extending, Initing
  <2>5. CASE \/ ExchangeBegin(t) \/ NoHandle(t) \/ Attempt(t) \/ Write(t) \/ ReadBegins(t)
    BY <1>0, <2>5 DEF ExchangeBegin, NoHandle, Attempt, Write, ReadBegins, Exchanged, Goto,
                      Return, ThreadType, Closing, Extending, Initing
  <2>6. CASE \/ ReadEnds(t) \/ WrongSeqno(t) \/ RetryClose(t) \/ RetryOpen(t)
    BY <1>0, <2>6 DEF ReadEnds, WrongSeqno, RetryClose, RetryOpen, Exchanged, Goto,
                      Return, ThreadType, Closing, Extending, Initing
  <2>7. CASE Poll(t) \/ GetOpenedAppPid(t)
    BY <1>0, <2>7 DEF Poll, GetOpenedAppPid, Goto, Return, ThreadType, Closing, Extending,
                      Initing
  <2> QED
    BY <2>1, <2>2, <2>3, <2>4, <2>5, <2>6, <2>7, Zenon DEF Step
<1>5. OpInv'
  BY <1>0, <1>1, <1>2, <1>4 DEF OpInv, Closing, Extending, Initing
<1> QED
  BY <1>3, <1>5

\* A call of a disciplined caller finds flag and handle as it needs them.
LEMMA BeginSession ==
    ASSUME Disciplined, SessionInv, NEW t \in Threads, NEW o \in Operations,
           NEW p \in Apps \cup {Root}, Begin(t, o, p)
    PROVE  SessionInv'
<1>1. /\ TypeInv' /\ pc[t] = "idle" /\ pc'[t] = Start(o) /\ call'[t].op = o
      /\ \A s \in Threads : s # t => pc'[s] = pc[s] /\ call'[s] = call[s]
  BY BeginType DEF SessionInv
<1>2. /\ o \in Alone => \A s \in Threads : pc[s] = "idle"
      /\ \A s \in Threads : pc[s] # "idle" => call[s].op \notin Alone
      /\ o \in {"init", "init_root"} => m_dev = NULL
  BY DEF Begin, Allowed
<1>3. AloneInv'
  BY <1>1, <1>2 DEF SessionInv, AloneInv
<1>4. OpInv'
  BY <1>1 DEF SessionInv, OpInv, Start, Operations, Closing, Extending, Initing
<1>5. m_valid' = m_valid /\ m_dev' = m_dev /\ open' = open /\ m_devLock' = m_devLock
  BY DEF Begin, walletVars, hidVars, lockVars
<1>6. HandleOwned'
  BY <1>5 DEF SessionInv, HandleOwned
<1>7. ValidMeansHandle'
  BY <1>1, <1>5 DEF SessionInv, ValidMeansHandle
<1>8. PathInv'
  <2>1. ASSUME NEW s \in Threads, s # t PROVE PathOf(s)'
    BY <1>1, <1>5, <2>1 DEF SessionInv, PathInv, PathOf, NeedsNone, NeedsHandle
  <2>2. PathOf(t)'
    <3>1. CASE o \in {"init", "init_root"}
      <4>1. /\ \A s \in Threads : pc[s] = "idle"
            /\ m_dev = NULL
        BY <1>2, <3>1 DEF Alone
      <4>2. m_devLock = NoThread
        BY <4>1 DEF SessionInv, TypeInv, TypeOK, LockType, Locked
      <4>3. ~m_valid
        BY <4>1, <4>2 DEF SessionInv, ValidMeansHandle
      <4> QED
        BY <1>1, <1>5, <3>1, <4>1, <4>3
           DEF PathOf, NeedsNone, NeedsHandle, Initing, Start
    <3>2. CASE o \notin {"init", "init_root"}
      BY <1>1, <3>2 DEF PathOf, NeedsNone, NeedsHandle, Initing, Start, Operations
    <3> QED
      BY <3>1, <3>2
  <2> QED
    BY <2>1, <2>2 DEF PathInv
<1> QED
  BY <1>1, <1>3, <1>4, <1>6, <1>7, <1>8 DEF SessionInv

\* What the Ledger does alone changes nothing of a session.
LEMMA SessionKept ==
    ASSUME SessionInv, TypeInv', UNCHANGED <<walletVars, lockVars, threadVars, hidVars>>
    PROVE  SessionInv'
BY Zenon DEF SessionInv, AloneInv, OpInv, HandleOwned, ValidMeansHandle, PathInv, PathOf,
             NeedsNone, NeedsHandle, walletVars, lockVars, threadVars, hidVars

\* With disciplined callers SessionInv is inductive: at each point of each
\* operation it says who owns the handle and whether the flag agrees.
THEOREM SessionNext ==
    ASSUME Disciplined
    PROVE  SessionInv /\ [Next]_vars => SessionInv'
<1> SUFFICES ASSUME SessionInv, [Next]_vars PROVE SessionInv'
  OBVIOUS
<1>0. TypeInv /\ TypeInv'
  BY TypeNext DEF SessionInv
<1>1. ASSUME NEW t \in Threads, Step(t) PROVE SessionInv'
  <2>1. AloneInv' /\ OpInv' /\ HandleOwned' /\ ValidMeansHandle' /\ PathOf(t)'
    BY <1>1, StepOps, StepHandle
  <2>2. PathInv'
    BY <1>1, <2>1, OthersStand DEF PathInv
  <2> QED
    BY <1>0, <2>1, <2>2 DEF SessionInv
<1>2. ASSUME NEW t \in Threads, NEW o \in Operations, NEW p \in Apps \cup {Root},
             Begin(t, o, p)
      PROVE  SessionInv'
  BY <1>2, BeginSession
<1>3. ASSUME NEW m \in Modes, Switch(m) PROVE SessionInv'
  BY <1>0, <1>3, SwitchType, SessionKept
<1>4. ASSUME UNCHANGED vars PROVE SessionInv'
  BY <1>0, <1>4, SessionKept DEF vars
<1> QED
  BY <1>1, <1>2, <1>3, <1>4 DEF Next

\* With disciplined callers every session keeps SessionInv.
THEOREM SessionInvariant ==
    ASSUME Disciplined
    PROVE  Spec => []SessionInv
BY SessionInit, SessionNext, PTL DEF Spec

\* No handle leaks and none stays behind closed: hidapi's open handles are what
\* m_dev points to, whatever retries, failures to open and mode changes do.
THEOREM WalletHandleOwned ==
    ASSUME Disciplined
    PROVE  Spec => []HandleOwned
<1>1. SessionInv => HandleOwned
  BY DEF SessionInv
<1> QED
  BY <1>1, SessionInvariant, PTL

\* Whenever no operation that could change them runs, m_valid tells whether
\* there is a handle, on which init_ext and init_ext_root rely to close it.
THEOREM WalletValidMeansHandle ==
    ASSUME Disciplined
    PROVE  Spec => []ValidMeansHandle
<1>1. SessionInv => ValidMeansHandle
  BY DEF SessionInv
<1> QED
  BY <1>1, SessionInvariant, PTL

\* hid_write and hid_read are never given a handle that is closed or absent.
THEOREM WalletIoOnOpenHandle ==
    ASSUME Disciplined
    PROVE  Spec => []IoOnOpenHandle
<1>1. SessionInv => IoOnOpenHandle
  BY DEF SessionInv, HandleOwned, PathInv, PathOf, NeedsHandle, IoOnOpenHandle
<1> QED
  BY <1>1, SessionInvariant, PTL

\* reopen_with_app that returns APP_OPENED leaves a handle on that application.
THEOREM WalletAppReopened ==
    ASSUME Disciplined
    PROVE  Spec => AppReopened
<1> DEFINE Reopened ==
      \A t \in Threads : Returns(t, "reopen_with_app", "APP_OPENED") =>
          m_dev' # NULL /\ pid'[m_dev'] = call[t].arg
<1>1. SessionInv /\ [Next]_vars => [Reopened]_vars
  <2> SUFFICES ASSUME SessionInv, Next, NEW t \in Threads,
                      Returns(t, "reopen_with_app", "APP_OPENED")
               PROVE  m_dev' # NULL /\ pid'[m_dev'] = call[t].arg
    BY DEF Reopened
  <2>0. /\ ThreadType /\ TypeInv /\ HidType /\ OpInv /\ PathOf(t)
        /\ call[t].arg \in Apps \cup {Root}
        /\ pc[t] # "idle" /\ pc'[t] = "idle" /\ call[t].op = "reopen_with_app"
        /\ ret'[t] = "APP_OPENED"
    BY DEF SessionInv, TypeInv, TypeOK, PathInv, Returns, ThreadType, CallType
  <2>1. Step(t)
    <3>1. ASSUME NEW s \in Threads, Step(s) PROVE s = t
      BY <2>0, <3>1, StepMoves DEF Moves
    <3>2. ASSUME NEW s \in Threads, NEW o \in Operations, NEW p \in Apps \cup {Root},
                 Begin(s, o, p)
          PROVE  FALSE
      BY <2>0, <3>2, BeginType DEF Start, Operations
    <3>3. ASSUME NEW m \in Modes, Switch(m) PROVE FALSE
      BY <2>0, <3>3, SwitchType DEF threadVars
    <3> QED
      BY <3>1, <3>2, <3>3 DEF Next
  <2>2. pc[t] \in Closing \cup Extending
    BY <2>0 DEF OpInv
  <2>3. CASE ExtOpen(t)
    <3>1. /\ OpenDevice(call[t].arg)
          /\ ret'[t] = IF m_dev' # NULL THEN "APP_OPENED" ELSE "PERMISSION_ERROR"
      BY <2>0, <2>3 DEF ExtOpen, OpenAs, Return, ThreadType
    <3>2. m_dev' # NULL
      BY <2>0, <3>1
    <3>3. m_dev = NULL
      BY <2>0, <2>3 DEF ExtOpen, PathOf, NeedsNone
    <3>4. pid'[m_dev'] = call[t].arg
      BY <2>0, <3>1, <3>2, <3>3, OpenDeviceType
    <3> QED
      BY <3>2, <3>4
  <2>4. CASE CloseHandle(t) \/ ClearValid(t)
    BY <2>0, <2>4 DEF CloseHandle, ClearValid, Goto, ThreadType
  <2>5. CASE ExtLook(t) \/ ExtRoot(t)
    BY <2>0, <2>5 DEF ExtLook, ExtRoot, Goto, Return, ThreadType, PathOf, NeedsNone
  <2> QED
    BY <2>1, <2>2, <2>3, <2>4, <2>5
       DEF Step, RootKnown, RootLook, RootClose, RootOpen, InitLook, InitRefused, InitApp,
           InitRootLook, InitOpen, ExchangeBegin, NoHandle, Attempt, Write, ReadBegins,
           ReadEnds, WrongSeqno, RetryClose, RetryOpen, Poll, GetOpenedAppPid, Closing,
           Extending, Initing
<1> QED
  BY <1>1, SessionInvariant, PTL DEF Spec, AppReopened
=============================================================================
