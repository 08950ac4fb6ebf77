----------------------------- MODULE PartsProofs -----------------------------
(***************************************************************************)
(* Proofs about the parts that share no state with the rest: the pool of   *)
(* threads that sends metadata, WorkerPool, the thread that reads the      *)
(* devices' events, AirplayEvents, the two threads of the command line     *)
(* player, CliPlayer, discovery, Discovery with AvahiPoll or DnsSd, and    *)
(* the volumes, OutputsVolume; for any number of threads, tasks,           *)
(* connections, events, commands, services, clients, browsers, watches,    *)
(* timeouts, resolvers and devices.                                        *)
(***************************************************************************)
EXTENDS WorkerPool, AirplayEvents, CliPlayer, Discovery, AvahiPoll, DnsSd, OutputsVolume,
        SequenceTheorems, WellFoundedInduction, TLAPS

-----------------------------------------------------------------------------
(* WorkerPool *)

\* Threads are joined in the order they were created in, and none is created once the pool
\* is being stopped.
JoinedInOrder ==
  /\ created \in 0..NThreads /\ joined \in 0..NThreads
  /\ thread \in [Workers -> ThreadStates \cup Tasks]
  /\ shared \in Seq(Tasks) /\ timers \in [Workers -> SUBSET Tasks]
  /\ pool = "init" => created < NThreads
  /\ pool \in {"none", "init", "up"} => joined = 0
  /\ pool = "none" => created = 0
  /\ \A i \in Workers : i > created => thread[i] = "none"
  /\ \A i \in Workers : i <= created /\ i <= joined => thread[i] = "exited"
  /\ pool = "freed" => joined = NThreads

(* What one thread does leaves the others, and those that were joined, alone.              *)
LEMMA ThreadMoves ==
  ASSUME JoinedInOrder, NEW i \in Workers, NEW t \in ThreadStates \cup Tasks,
         thread[i] \notin {"none", "exited"},
         thread' = [thread EXCEPT ![i] = t], shared' \in Seq(Tasks),
         timers' \in [Workers -> SUBSET Tasks], UNCHANGED <<pool, created, joined>>
  PROVE JoinedInOrder'
BY DEF JoinedInOrder, Workers

LEMMA TimersMove ==
  ASSUME JoinedInOrder, shared' \in Seq(Tasks), timers' \in [Workers -> SUBSET Tasks],
         UNCHANGED <<pool, created, joined, thread>>
  PROVE JoinedInOrder'
BY DEF JoinedInOrder

LEMMA PoolInitial == PoolInit => JoinedInOrder
BY WorkerPoolAssumption DEF PoolInit, JoinedInOrder, Workers, ThreadStates

LEMMA StepJoined == ASSUME JoinedInOrder, NEW i \in Workers, PoolStep(i) PROVE JoinedInOrder'
<1>0. /\ thread[i] \in ThreadStates \cup Tasks /\ shared \in Seq(Tasks) /\ timers \in [Workers -> SUBSET Tasks]
      /\ "none" \notin Tasks /\ "exited" \notin Tasks
      /\ {"loop", "leaving", "exited"} \subseteq ThreadStates
  BY WorkerPoolAssumption DEF JoinedInOrder, ThreadStates
<1>1. CASE InitCb(i)
  BY <1>0, <1>1, ThreadMoves DEF InitCb
<1>2. CASE ExitCb(i)
  BY <1>0, <1>2, ThreadMoves DEF ExitCb
<1>3. CASE Receive(i)
  <2>1. /\ Head(shared) \in Tasks /\ Tail(shared) \in Seq(Tasks) /\ shared' = Tail(shared)
        /\ thread[i] = "loop" /\ UNCHANGED <<pool, created, joined>>
    BY <1>0, <1>3 DEF Receive, Live
  <2>2. CASE thread' = [thread EXCEPT ![i] = Head(shared)] /\ UNCHANGED timers
    BY <1>0, <2>1, <2>2, ThreadMoves
  <2>3. CASE timers' = [timers EXCEPT ![i] = @ \cup {Head(shared)}] /\ UNCHANGED thread
    <3>1. timers' \in [Workers -> SUBSET Tasks]
      BY <1>0, <2>1, <2>3
    <3> QED BY <2>1, <2>3, <3>1, TimersMove
  <2> QED BY <1>3, <2>2, <2>3 DEF Receive, Run
<1>4. CASE Fire(i)
  <2>1. PICK t \in timers[i] : timers' = [timers EXCEPT ![i] = @ \ {t}] /\ thread' = [thread EXCEPT ![i] = t]
    BY <1>4 DEF Fire
  <2>2. t \in Tasks /\ timers' \in [Workers -> SUBSET Tasks]
    BY <1>0, <2>1
  <2> QED BY <1>0, <1>4, <2>1, <2>2, ThreadMoves DEF Fire, Live
<1>5. CASE Finish(i)
  BY <1>0, <1>5, ThreadMoves DEF Finish
<1>6. CASE ReadStop(i)
  BY <1>0, <1>6, ThreadMoves DEF ReadStop, Live
<1> QED BY <1>1, <1>2, <1>3, <1>4, <1>5, <1>6 DEF PoolStep

LEMMA PoolInductive == JoinedInOrder /\ [PoolNext]_poolVars => JoinedInOrder'
<1> SUFFICES ASSUME JoinedInOrder, [PoolNext]_poolVars PROVE JoinedInOrder'
  OBVIOUS
<1>1. CASE UNCHANGED poolVars
  BY <1>1 DEF poolVars, JoinedInOrder
<1>2. CASE WorkerInit
  BY <1>2, WorkerPoolAssumption DEF WorkerInit, PoolMade, PoolNotMade, JoinedInOrder
<1>3. CASE PoolStart
  <2>1. CASE StartThread
    <3>1. /\ thread' = [thread EXCEPT ![created + 1] = "starting"] /\ created' = created + 1
          /\ pool' \in {"up", "init"} /\ (pool' = "init" => created' # NThreads)
          /\ UNCHANGED <<joined, shared, timers>> /\ joined = 0 /\ created < NThreads
          /\ created + 1 \in Workers
      BY <1>3, <2>1, WorkerPoolAssumption DEF PoolStart, StartThread, JoinedInOrder, Workers
    <3>2. thread' \in [Workers -> ThreadStates \cup Tasks]
      BY <3>1 DEF JoinedInOrder, ThreadStates
    <3> QED BY <3>1, <3>2, WorkerPoolAssumption DEF JoinedInOrder, Workers
  <2>2. CASE pool' = "stopping" /\ UNCHANGED <<thread, created>>
    BY <1>3, <2>2 DEF PoolStart, JoinedInOrder
  <2> QED BY <1>3, <2>1, <2>2 DEF PoolStart
<1>4. CASE Deinit
  BY <1>4 DEF Deinit, JoinedInOrder
<1>5. CASE StopThread
  <2>1. CASE joined < created /\ thread[joined + 1] # "exited"
    BY <1>5, <2>1 DEF StopThread, JoinedInOrder
  <2>2. CASE ~(joined < created /\ thread[joined + 1] # "exited")
    BY <1>5, <2>2, WorkerPoolAssumption DEF StopThread, JoinedInOrder, Workers
  <2> QED BY <2>1, <2>2
<1>6. CASE FreePool
  BY <1>6 DEF FreePool, JoinedInOrder
<1>7. ASSUME NEW t \in Tasks, MetadataSend(t) PROVE JoinedInOrder'
  <2>1. shared' \in Seq(Tasks)
    <3>1. shared \in Seq(Tasks) /\ Append(shared, t) \in Seq(Tasks)
      BY DEF JoinedInOrder
    <3> QED BY <1>7, <3>1 DEF MetadataSend, Execute, PoolDefer
  <2>2. timers' \in [Workers -> SUBSET Tasks] /\ UNCHANGED <<pool, created, joined, thread>>
    BY <1>7 DEF MetadataSend, Execute, JoinedInOrder
  <2> QED BY <2>1, <2>2, TimersMove
<1>8. ASSUME NEW t \in Tasks, MetadataSent(t) PROVE JoinedInOrder'
  BY <1>8 DEF MetadataSent, JoinedInOrder
<1>9. ASSUME NEW i \in Workers, PoolStep(i) PROVE JoinedInOrder'
  BY <1>9, StepJoined
<1> QED BY <1>1, <1>2, <1>3, <1>4, <1>5, <1>6, <1>7, <1>8, <1>9 DEF PoolNext

(* evthr.c:225: for any number of threads, also when some could not be created, the pool is *)
(* freed after its threads have ended.                                                     *)
THEOREM FreedCorrect == PoolSpec => []FreedAfterExit
<1>1. JoinedInOrder => FreedAfterExit
  BY WorkerPoolAssumption DEF JoinedInOrder, FreedAfterExit, Workers
<1> QED BY <1>1, PoolInitial, PoolInductive, PTL DEF PoolSpec

-----------------------------------------------------------------------------
(* CliPlayer *)

\* Main begins a read only when the status is PLAYING, so that none was late before it.
OneReadLate ==
  /\ late \in Nat
  /\ player = "reading" => late = 0
  /\ player \in {"loop", "left"} => late <= 1
  /\ player \in {"loop", "left"} /\ status = "PLAYING" => late = 0

LEMMA OneReadLateInductive == OneReadLate /\ [CliNext]_cliVars => OneReadLate'
<1> SUFFICES ASSUME OneReadLate, [CliNext]_cliVars PROVE OneReadLate'
  OBVIOUS
<1>1. CASE UNCHANGED cliVars
  BY <1>1 DEF cliVars, OneReadLate
<1>2. CASE Setup
  BY <1>2 DEF Setup, OneReadLate
<1>3. CASE SetPlaying
  BY <1>3 DEF SetPlaying, OneReadLate
<1>4. CASE LookAtStatus
  BY <1>4 DEF LookAtStatus, Leave, OneReadLate
<1>5. CASE ReadInput
  <2>1. CASE input = 0
    BY <1>5, <2>1 DEF ReadInput, Leave, OneReadLate
  <2>2. CASE input # 0
    BY <1>5, <2>2 DEF ReadInput, OneReadLate
  <2> QED BY <2>1, <2>2
<1>6. CASE Destroy \/ Join \/ Exit
  BY <1>6 DEF Destroy, Join, Exit, OneReadLate
<1>7. CASE ReadLine
  <2>1. CASE batch = <<>> \/ ~running
    BY <1>7, <2>1 DEF ReadLine, OneReadLate
  <2>2. CASE ~(batch = <<>> \/ ~running)
    BY <1>7, <2>2 DEF ReadLine, OneReadLate
  <2> QED BY <2>1, <2>2
<1>8. CASE CheckRunning \/ ReadPipe \/ WriterOpens \/ WriterWrites \/ WriterCloses
  BY <1>8 DEF CheckRunning, ReadPipe, WriterOpens, WriterWrites, WriterCloses, OneReadLate
<1> QED BY <1>1, <1>2, <1>3, <1>4, <1>5, <1>6, <1>7, <1>8 DEF CliNext

(* cliairplay2.c:701: wherever the reader's line falls between what main does, at most the  *)
(* chunk of a read that had begun is still played, for input and commands of any length.   *)
THEOREM HeededCorrect == CliSpec => []HeededSoon
<1>1. CliInit => OneReadLate
  BY DEF CliInit, OneReadLate
<1>2. OneReadLate => HeededSoon
  BY DEF OneReadLate, HeededSoon
<1> QED BY <1>1, <1>2, OneReadLateInductive, PTL DEF CliSpec

-----------------------------------------------------------------------------
(* AirplayEvents *)

Parts == {"headers", "bplist", "trailer"}
Blocks == Nat \X Parts

\* The events whose plists are still to be read come in the order they were sent in, after
\* those that were handled.
Sent(s, h, m) == (\A i \in DOMAIN s : s[i][1] <= m) /\ (\A k \in DOMAIN h : h[k] <= m)
Plist(s, i) == s[i][2] = "bplist"
InOrder(s) == \A i, j \in DOMAIN s : i < j /\ Plist(s, i) /\ Plist(s, j) => s[i][1] < s[j][1]
After(h, s) == \A k \in DOMAIN h, i \in DOMAIN s : Plist(s, i) => h[k] < s[i][1]
Rising(h) == \A k, l \in DOMAIN h : k < l => h[k] < h[l]
ToCome(s, h, m) == Sent(s, h, m) /\ InOrder(s) /\ After(h, s) /\ Rising(h)

\* A connection that is not made yet has no event to answer either.
Unanswered(conn_c, handled_c, responses_c) ==
  Len(handled_c) - Len(responses_c) \in (IF conn_c = "removed" THEN {0, 1} ELSE {0})

EventsTyped ==
  /\ conn \in [Conns -> {"free", "listening", "removed"}]
  /\ sent \in [Conns -> Nat] /\ stream \in [Conns -> Seq(Blocks)]
  /\ pending = [c \in Conns |-> <<>>] /\ handled \in [Conns -> Seq(Nat)]
  /\ responses \in [Conns -> Seq(Nat \X {Response})]

EventsInOrder ==
  /\ EventsTyped
  /\ \A c \in Conns : ToCome(stream[c], handled[c], sent[c])
  /\ \A c \in Conns : Unanswered(conn[c], handled[c], responses[c])

(* The least of the places a search is for, so that CHOOSE finds it.                       *)
LEMMA LeastPlace == ASSUME NEW T, T \subseteq Nat, T # {} PROVE \E x \in T : \A y \in T : x <= y
<1>1. PICK x \in T : \A y \in T : ~(<<y, x>> \in OpToRel(<, Nat))
  <2> DEFINE R == OpToRel(<, Nat)
  <2>1. IsWellFoundedOn(R, Nat)
    BY NatLessThanWellFounded
  <2> HIDE DEF R
  <2>2. \E x \in T : \A y \in T : ~(<<y, x>> \in R)
    BY <2>1, WFMin
  <2> QED BY <2>2 DEF R
<1>2. ASSUME NEW y \in T, y < x PROVE <<y, x>> \in OpToRel(<, Nat)
  BY <1>2 DEF OpToRel
<1>3. \A y \in T : ~(y < x)
  BY <1>1, <1>2, Zenon
<1> QED BY <1>3

(* rtsp_parse: what it takes for an event is that of a plist among the blocks.             *)
LEMMA ParsedFromPlist ==
  ASSUME NEW blocks \in Seq(Blocks), NEW e \in RtspParse(blocks), e # 0
  PROVE \E i \in DOMAIN blocks : blocks[i][2] = "bplist" /\ e = blocks[i][1]
<1> DEFINE starts == {i \in DOMAIN blocks : blocks[i][2] = "bplist"}
           first == CHOOSE i \in starts : \A j \in starts : i <= j
<1>1. BodyFind(blocks) # <<>> /\ e = BodyFind(blocks)[1][1]
  BY DEF RtspParse
<1>2. starts # {} /\ BodyFind(blocks) = SubSeq(blocks, first, Len(blocks))
  BY <1>1 DEF BodyFind
<1>3. first \in starts
  <2>1. starts \subseteq Nat
    OBVIOUS
  <2>2. \E x \in starts : \A y \in starts : x <= y
    <3> HIDE DEF starts
    <3> QED BY <1>2, <2>1, LeastPlace
  <2> QED BY <2>2
<1>4. BodyFind(blocks)[1] = blocks[first]
  <2>1. first \in 1..Len(blocks)
    BY <1>3
  <2> HIDE DEF first
  <2> QED BY <1>2, <2>1, SubSeqProperties
<1> HIDE DEF first
<1> QED BY <1>1, <1>3, <1>4

(* An event is handled that was among the blocks that were taken; what comes after them is *)
(* later still.                                                                            *)
LEMMA HandledToCome ==
  ASSUME NEW s \in Seq(Blocks), NEW h \in Seq(Nat), NEW m \in Nat, ToCome(s, h, m), NEW n \in 1..Len(s)
  PROVE LET rest == SubSeq(s, n + 1, Len(s)) IN
        /\ rest \in Seq(Blocks) /\ ToCome(rest, h, m)
        /\ \A i \in 1..n : Plist(s, i) => ToCome(rest, Append(h, s[i][1]), m)
<1> DEFINE rest == SubSeq(s, n + 1, Len(s))
<1>1. rest \in Seq(Blocks) /\ Len(rest) = Len(s) - n /\ \A i \in 1..Len(rest) : rest[i] = s[n + i]
  BY SubSeqProperties
<1> HIDE DEF rest
<1>2. ASSUME NEW i \in DOMAIN rest PROVE rest[i] = s[n + i] /\ n + i \in DOMAIN s /\ n + i > n
  <2>1. i \in 1..(Len(s) - n) /\ DOMAIN s = 1..Len(s) /\ Len(s) \in Nat
    BY <1>1
  <2>2. n + i \in 1..Len(s) /\ n + i > n
    BY <2>1
  <2> QED BY <1>1, <2>1, <2>2
<1>3. Sent(rest, h, m)
  BY <1>2 DEF ToCome, Sent
<1>4. InOrder(rest)
  <2> SUFFICES ASSUME NEW i \in DOMAIN rest, NEW j \in DOMAIN rest, i < j, Plist(rest, i), Plist(rest, j)
               PROVE rest[i][1] < rest[j][1]
    BY DEF InOrder
  <2>1. i \in Int /\ j \in Int
    BY <1>1
  <2>2. n + i < n + j /\ Plist(s, n + i) /\ Plist(s, n + j)
    BY <1>2, <2>1 DEF Plist
  <2>3. s[n + i][1] < s[n + j][1]
    BY <1>2, <2>2 DEF ToCome, InOrder
  <2> QED BY <1>2, <2>3
<1>5. After(h, rest)
  <2> SUFFICES ASSUME NEW k \in DOMAIN h, NEW i \in DOMAIN rest, Plist(rest, i) PROVE h[k] < rest[i][1]
    BY DEF After
  <2>1. n + i \in DOMAIN s /\ Plist(s, n + i) /\ rest[i] = s[n + i]
    BY <1>2 DEF Plist
  <2>2. h[k] < s[n + i][1]
    BY <2>1 DEF ToCome, After
  <2> QED BY <2>1, <2>2
<1>6. ASSUME NEW i \in 1..n, Plist(s, i) PROVE ToCome(rest, Append(h, s[i][1]), m)
  <2> DEFINE g == Append(h, s[i][1])
  <2>1. s[i] \in Blocks /\ i \in DOMAIN s
    OBVIOUS
  <2>2. s[i][1] \in Nat /\ s[i][1] <= m
    BY <2>1 DEF Blocks, ToCome, Sent
  <2>3. DOMAIN g = 1..(Len(h) + 1) /\ g[Len(h) + 1] = s[i][1] /\ \A k \in 1..Len(h) : g[k] = h[k]
    BY <2>2
  <2> HIDE DEF g
  <2>4. ASSUME NEW k \in DOMAIN g
        PROVE \/ k = Len(h) + 1 /\ g[k] = s[i][1]
              \/ k \in DOMAIN h /\ g[k] = h[k] /\ h[k] \in Nat /\ h[k] < s[i][1]
    <3>1. k = Len(h) + 1 \/ k \in DOMAIN h
      BY <2>3
    <3>2. CASE k \in DOMAIN h
      <4>1. h[k] < s[i][1]
        BY <1>6, <2>1, <3>2 DEF ToCome, After
      <4>2. k \in 1..Len(h) /\ h[k] \in Nat
        BY <3>2
      <4>3. g[k] = h[k]
        BY <2>3, <4>2
      <4> QED BY <3>2, <4>1, <4>2, <4>3
    <3>3. CASE k = Len(h) + 1
      <4>1. g[k] = s[i][1]
        BY <2>3, <3>3
      <4> QED BY <3>3, <4>1
    <3> QED BY <3>1, <3>2, <3>3
  <2>5. Sent(rest, g, m)
    <3>1. ASSUME NEW k \in DOMAIN g PROVE g[k] <= m
      BY <2>2, <2>4
    <3> QED BY <1>3, <3>1 DEF Sent
  <2>6. After(g, rest)
    <3>1. ASSUME NEW j \in DOMAIN rest, Plist(rest, j) PROVE s[i][1] < rest[j][1] /\ rest[j][1] \in Nat
      <4>1. Plist(s, n + j) /\ i < n + j /\ n + j \in DOMAIN s /\ rest[j] = s[n + j]
        BY <1>1, <1>2, <3>1 DEF Plist
      <4>2. s[i][1] < s[n + j][1] /\ s[n + j] \in Blocks
        BY <1>6, <2>1, <4>1 DEF ToCome, InOrder
      <4>3. s[n + j][1] \in Nat
        BY <4>2 DEF Blocks
      <4> QED BY <4>1, <4>2, <4>3
    <3>2. ASSUME NEW k \in DOMAIN g, NEW j \in DOMAIN rest, Plist(rest, j) PROVE g[k] < rest[j][1]
      BY <2>2, <2>4, <3>1, <3>2
    <3> QED BY <3>2 DEF After
  <2>7. Rising(g)
    <3>1. ASSUME NEW k \in DOMAIN g, NEW l \in DOMAIN g, k < l PROVE g[k] < g[l]
      <4>1. k \in DOMAIN h /\ k # Len(h) + 1
        BY <2>3, <3>1
      <4>2. CASE l = Len(h) + 1
        BY <2>3, <2>4, <4>1, <4>2
      <4>3. CASE l \in DOMAIN h
        <5>1. h[k] < h[l]
          BY <3>1, <4>1, <4>3 DEF ToCome, Rising
        <5> QED BY <2>3, <4>1, <4>3, <5>1
      <4> QED BY <2>4, <4>2, <4>3
    <3> QED BY <3>1 DEF Rising
  <2> QED BY <1>4, <2>5, <2>6, <2>7 DEF ToCome, g
<1> QED BY <1>1, <1>3, <1>4, <1>5, <1>6 DEF ToCome, rest

(* A device numbers the events it sends.                                                   *)
LEMMA SentToCome ==
  ASSUME NEW s \in Seq(Blocks), NEW h \in Seq(Nat), NEW m \in Nat, ToCome(s, h, m)
  PROVE s \o Message(m + 1) \in Seq(Blocks) /\ ToCome(s \o Message(m + 1), h, m + 1)
<1> DEFINE msg == Message(m + 1)
           all == s \o msg
<1>1. /\ msg \in Seq(Blocks) /\ Len(msg) = 3
      /\ \A i \in 1..3 : msg[i][1] = m + 1 /\ (Plist(msg, i) => i = 2)
  BY DEF Message, Blocks, Parts, Plist
<1> HIDE DEF msg
<1>2. /\ all \in Seq(Blocks) /\ Len(all) = Len(s) + 3 /\ DOMAIN all = 1..(Len(s) + 3)
      /\ \A i \in 1..Len(s) : all[i] = s[i]
      /\ \A i \in 1..(Len(s) + 3) : i > Len(s) => all[i] = msg[i - Len(s)]
  <2>1. /\ all \in Seq(Blocks) /\ Len(all) = Len(s) + 3
        /\ \A i \in 1..(Len(s) + 3) : all[i] = IF i <= Len(s) THEN s[i] ELSE msg[i - Len(s)]
    <3>1. /\ all \in Seq(Blocks) /\ Len(all) = Len(s) + Len(msg)
          /\ \A i \in 1..(Len(s) + Len(msg)) : all[i] = IF i <= Len(s) THEN s[i] ELSE msg[i - Len(s)]
      BY <1>1, ConcatProperties
    <3> QED BY <1>1, <3>1
  <2> HIDE DEF all
  <2>2. Len(s) \in Nat
    OBVIOUS
  <2>3. DOMAIN all = 1..(Len(s) + 3)
    BY <2>1
  <2>4. ASSUME NEW i \in 1..Len(s) PROVE all[i] = s[i]
    <3>1. i \in 1..(Len(s) + 3) /\ i <= Len(s)
      BY <2>2
    <3> QED BY <2>1, <3>1
  <2>5. ASSUME NEW i \in 1..(Len(s) + 3), i > Len(s) PROVE all[i] = msg[i - Len(s)]
    BY <2>1, <2>2, <2>5
  <2> QED BY <2>1, <2>3, <2>4, <2>5
<1> HIDE DEF all
<1>3. ASSUME NEW i \in DOMAIN all
      PROVE \/ i \in DOMAIN s /\ all[i] = s[i] /\ s[i][1] \in Nat /\ s[i][1] <= m
            \/ i > Len(s) /\ all[i][1] = m + 1 /\ (Plist(all, i) => i = Len(s) + 2)
  <2>1. CASE i \in DOMAIN s
    <3>1. s[i] \in Blocks /\ s[i][1] <= m
      BY <2>1 DEF ToCome, Sent
    <3>2. s[i][1] \in Nat
      BY <3>1 DEF Blocks
    <3>3. i \in 1..Len(s)
      BY <2>1
    <3>4. all[i] = s[i]
      BY <1>2, <3>3
    <3> QED BY <3>4, <2>1, <3>1, <3>2
  <2>2. CASE i > Len(s)
    <3>1. i - Len(s) \in 1..3
      <4>1. i \in 1..(Len(s) + 3) /\ Len(s) \in Nat
        BY <1>2
      <4> QED BY <2>2, <4>1
    <3>2. all[i] = msg[i - Len(s)]
      BY <1>2, <2>2
    <3>3. Plist(all, i) => Plist(msg, i - Len(s))
      BY <3>2 DEF Plist
    <3>4. msg[i - Len(s)][1] = m + 1 /\ (Plist(msg, i - Len(s)) => i - Len(s) = 2)
      BY <1>1, <3>1
    <3>5. ASSUME Plist(all, i) PROVE i = Len(s) + 2
      <4>1. i - Len(s) = 2
        BY <3>3, <3>4, <3>5, Zenon
      <4>2. i \in Int /\ Len(s) \in Int
        BY <1>2
      <4> QED BY <4>1, <4>2
    <3>6. Plist(all, i) => i = Len(s) + 2
      BY <3>5
    <3> QED BY <2>2, <3>2, <3>4, <3>6
  <2>3. i \in 1..(Len(s) + 3) /\ DOMAIN s = 1..Len(s) /\ Len(s) \in Nat
    BY <1>2
  <2>4. i \in DOMAIN s \/ i > Len(s)
    BY <2>3
  <2> QED BY <2>1, <2>2, <2>4
<1>4. \A k \in DOMAIN h : h[k] \in Nat /\ h[k] <= m
  BY DEF ToCome, Sent
<1>5. Sent(all, h, m + 1)
  BY <1>3, <1>4 DEF Sent
<1>6. InOrder(all)
  <2> SUFFICES ASSUME NEW i \in DOMAIN all, NEW j \in DOMAIN all, i < j, Plist(all, i), Plist(all, j)
               PROVE all[i][1] < all[j][1]
    BY DEF InOrder
  <2>1. CASE j \in DOMAIN s
    <3>1. i \in DOMAIN s
      BY <1>2, <2>1
    <3>2. all[i] = s[i] /\ all[j] = s[j]
      <4>1. i \in 1..Len(s) /\ j \in 1..Len(s)
        BY <2>1, <3>1
      <4> QED BY <1>2, <4>1
    <3>3. Plist(s, i) /\ Plist(s, j)
      BY <3>2 DEF Plist
    <3>4. s[i][1] < s[j][1]
      BY <2>1, <3>1, <3>3 DEF ToCome, InOrder
    <3> QED BY <3>2, <3>4
  <2>2. CASE j > Len(s)
    <3>1. all[j][1] = m + 1 /\ j = Len(s) + 2
      BY <1>2, <1>3, <2>2
    <3>2. i # Len(s) + 2
      BY <1>2, <3>1
    <3>3. i \in DOMAIN s /\ all[i][1] \in Nat /\ all[i][1] <= m
      BY <1>3, <3>2
    <3> QED BY <3>1, <3>3
  <2> QED BY <1>3, <2>1, <2>2
<1>7. After(h, all)
  <2> SUFFICES ASSUME NEW k \in DOMAIN h, NEW i \in DOMAIN all, Plist(all, i) PROVE h[k] < all[i][1]
    BY DEF After
  <2>1. CASE i \in DOMAIN s /\ all[i] = s[i]
    <3>1. Plist(s, i)
      BY <2>1 DEF Plist
    <3>2. h[k] < s[i][1]
      BY <2>1, <3>1 DEF ToCome, After
    <3> QED BY <2>1, <3>2
  <2>2. CASE all[i][1] = m + 1
    BY <1>4, <2>2
  <2> QED BY <1>3, <2>1, <2>2
<1> QED BY <1>2, <1>5, <1>6, <1>7 DEF ToCome, all, msg

LEMMA EventsInitial == EventsInit => EventsInOrder
BY DEF EventsInit, EventsInOrder, EventsTyped, ToCome, Sent, InOrder, After, Rising, Unanswered

(* What a step of another connection, or of the list, leaves as it is.                     *)
LEMMA ConnectionsMove ==
  ASSUME EventsInOrder, conn' \in [Conns -> {"free", "listening", "removed"}], ChannelsUnchanged,
         \A c \in Conns : conn'[c] # conn[c] => conn[c] = "free" \/ conn'[c] = "removed"
  PROVE EventsInOrder'
<1>1. EventsTyped'
  BY DEF ChannelsUnchanged, EventsInOrder, EventsTyped
<1>2. ASSUME NEW c \in Conns PROVE ToCome(stream[c], handled[c], sent[c])'
  BY DEF ChannelsUnchanged, EventsInOrder
<1>3. ASSUME NEW c \in Conns PROVE Unanswered(conn[c], handled[c], responses[c])'
  <2>1. Unanswered(conn[c], handled[c], responses[c])
    BY DEF EventsInOrder
  <2>2. UNCHANGED <<handled, responses>>
    BY DEF ChannelsUnchanged
  <2> QED BY <2>1, <2>2 DEF Unanswered
<1> QED BY <1>1, <1>2, <1>3 DEF EventsInOrder

LEMMA IncomingInOrder == ASSUME EventsInOrder, NEW c \in Conns, Incoming(c) PROVE EventsInOrder'
<1> DEFINE s == stream[c]
           h == handled[c]
<1>0. PICK n \in 1..Len(s) :
        /\ stream' = [stream EXCEPT ![c] = SubSeq(@, n + 1, Len(@))]
        /\ \E e \in RtspParse(BufferDecrypt(c, n)) :
             /\ pending' = [pending EXCEPT ![c] = Drained(BufferDecrypt(c, n), e)]
             /\ IF e = 0 THEN UNCHANGED <<handled, clients, conn, responses>>
                ELSE /\ HandleEvent(c, e)
                     /\ \/ Respond(c) /\ UNCHANGED <<clients, conn>>
                        \/ RespondFails /\ ClientRemove(c)
  BY DEF Incoming
<1>1. PICK e \in RtspParse(BufferDecrypt(c, n)) :
        /\ pending' = [pending EXCEPT ![c] = Drained(BufferDecrypt(c, n), e)]
        /\ IF e = 0 THEN UNCHANGED <<handled, clients, conn, responses>>
           ELSE /\ HandleEvent(c, e)
                /\ \/ Respond(c) /\ UNCHANGED <<clients, conn>>
                   \/ RespondFails /\ ClientRemove(c)
  BY <1>0
<1>2. /\ conn[c] = "listening" /\ sent' = sent
      /\ s \in Seq(Blocks) /\ h \in Seq(Nat) /\ sent[c] \in Nat /\ responses[c] \in Seq(Nat \X {Response})
      /\ pending[c] = <<>> /\ ToCome(s, h, sent[c]) /\ Len(h) = Len(responses[c])
  <2>1. conn[c] = "listening" /\ sent' = sent /\ Unanswered(conn[c], h, responses[c])
    BY DEF Incoming, EventsInOrder
  <2>2. /\ s \in Seq(Blocks) /\ h \in Seq(Nat) /\ sent[c] \in Nat
        /\ responses[c] \in Seq(Nat \X {Response}) /\ pending[c] = <<>> /\ ToCome(s, h, sent[c])
    BY DEF EventsInOrder, EventsTyped
  <2>3. Len(h) = Len(responses[c])
    <3>1. Len(h) \in Nat /\ Len(responses[c]) \in Nat /\ Len(h) - Len(responses[c]) = 0
      BY <2>1, <2>2 DEF Unanswered
    <3> QED BY <3>1
  <2> QED BY <2>1, <2>2, <2>3
<1> DEFINE rest == SubSeq(s, n + 1, Len(s))
           taken == BufferDecrypt(c, n)
<1>3. taken \in Seq(Blocks) /\ DOMAIN taken = 1..n /\ \A i \in 1..n : taken[i] = s[i]
  <2> DEFINE front == SubSeq(s, 1, n)
  <2>1. front \in Seq(Blocks) /\ Len(front) = n /\ \A i \in 1..n : front[i] = s[i]
    BY <1>2, SubSeqProperties
  <2>2. taken = <<>> \o front
    BY <1>2 DEF BufferDecrypt
  <2> HIDE DEF front, taken
  <2>3. <<>> \o front = front
    BY <2>1
  <2> QED BY <2>1, <2>2, <2>3
<1>4. pending' = pending
  BY <1>1, <1>2 DEF Drained, EventsInOrder, EventsTyped
<1>5. /\ rest \in Seq(Blocks) /\ ToCome(rest, h, sent[c])
      /\ \A i \in 1..n : Plist(s, i) => ToCome(rest, Append(h, s[i][1]), sent[c])
  BY <1>2, HandledToCome
<1>6. stream' = [stream EXCEPT ![c] = rest] /\ stream' \in [Conns -> Seq(Blocks)]
  BY <1>0, <1>5 DEF EventsInOrder, EventsTyped
<1>7. ASSUME NEW g \in Seq(Nat), NEW r \in Seq(Nat \X {Response}), NEW k \in {"listening", "removed"},
             handled' = [handled EXCEPT ![c] = g], responses' = [responses EXCEPT ![c] = r],
             conn' = [conn EXCEPT ![c] = k], ToCome(rest, g, sent[c]), Unanswered(k, g, r)
      PROVE EventsInOrder'
  <2> HIDE DEF rest, s, h
  <2>1. EventsTyped'
    BY <1>2, <1>4, <1>6, <1>7 DEF EventsInOrder, EventsTyped
  <2>2. ASSUME NEW d \in Conns
        PROVE ToCome(stream[d], handled[d], sent[d])' /\ Unanswered(conn[d], handled[d], responses[d])'
    <3>1. CASE d = c
      <4>1. stream'[c] = rest /\ handled'[c] = g /\ responses'[c] = r /\ conn'[c] = k
        BY <1>6, <1>7 DEF EventsInOrder, EventsTyped
      <4> QED BY <1>2, <1>7, <3>1, <4>1
    <3>2. CASE d # c
      <4>1. /\ stream'[d] = stream[d] /\ handled'[d] = handled[d]
            /\ responses'[d] = responses[d] /\ conn'[d] = conn[d]
        BY <1>6, <1>7, <3>2 DEF EventsInOrder, EventsTyped
      <4> QED BY <1>2, <4>1 DEF EventsInOrder
    <3> QED BY <3>1, <3>2
  <2> QED BY <2>1, <2>2 DEF EventsInOrder
<1>8. CASE e = 0
  <2>1. /\ handled' = [handled EXCEPT ![c] = h] /\ responses' = [responses EXCEPT ![c] = responses[c]]
        /\ conn' = [conn EXCEPT ![c] = "listening"]
    BY <1>1, <1>2, <1>8 DEF EventsInOrder, EventsTyped
  <2>2. Unanswered("listening", h, responses[c])
    BY <1>2 DEF Unanswered
  <2> QED BY <1>2, <1>5, <1>7, <2>1, <2>2
<1>9. CASE e # 0
  <2>1. PICK i \in DOMAIN taken : taken[i][2] = "bplist" /\ e = taken[i][1]
    BY <1>3, <1>9, ParsedFromPlist
  <2>2. i \in 1..n /\ Plist(s, i) /\ e = s[i][1] /\ s[i] \in Blocks
    BY <1>2, <1>3, <2>1 DEF Plist
  <2> DEFINE g == Append(h, e)
  <2>3. e \in Nat
    BY <2>2 DEF Blocks
  <2>4. /\ g \in Seq(Nat) /\ Len(g) = Len(h) + 1 /\ ToCome(rest, g, sent[c])
        /\ handled' = [handled EXCEPT ![c] = g]
    <3>1. ToCome(rest, g, sent[c])
      <4>1. ToCome(rest, Append(h, s[i][1]), sent[c])
        BY <1>5, <2>2
      <4> QED BY <2>2, <4>1
    <3>2. handled' = [handled EXCEPT ![c] = g]
      BY <1>1, <1>9 DEF HandleEvent
    <3>3. h \in Seq(Nat)
      BY <1>2
    <3> HIDE DEF h, rest, s, taken
    <3>4. g \in Seq(Nat) /\ Len(g) = Len(h) + 1
      BY <2>3, <3>3
    <3> QED BY <3>1, <3>2, <3>4
  <2> HIDE DEF g, rest, h, s, taken
  <2>5. Len(h) \in Nat
    BY <1>2
  <2>6. CASE Respond(c) /\ UNCHANGED <<clients, conn>>
    <3> DEFINE r == Append(responses[c], <<Len(responses[c]), Response>>)
    <3>1. /\ r \in Seq(Nat \X {Response}) /\ Len(r) = Len(responses[c]) + 1
      BY <1>2
    <3>2. responses' = [responses EXCEPT ![c] = r] /\ conn' = [conn EXCEPT ![c] = "listening"]
      BY <1>2, <2>6 DEF Respond, BufferEncrypt, EventsInOrder, EventsTyped
    <3> HIDE DEF r
    <3>3. Unanswered("listening", g, r)
      BY <1>2, <2>4, <2>5, <3>1 DEF Unanswered
    <3> QED BY <1>7, <2>4, <3>1, <3>2, <3>3
  <2>7. CASE RespondFails /\ ClientRemove(c)
    <3>1. responses' = [responses EXCEPT ![c] = responses[c]] /\ conn' = [conn EXCEPT ![c] = "removed"]
      BY <2>7 DEF RespondFails, ClientRemove, ClientFree, EventsInOrder, EventsTyped
    <3>2. Unanswered("removed", g, responses[c])
      BY <1>2, <2>4, <2>5 DEF Unanswered
    <3> QED BY <1>2, <1>7, <2>4, <3>1, <3>2
  <2> QED BY <1>1, <1>9, <2>6, <2>7
<1> QED BY <1>8, <1>9

LEMMA DeviceSendsInOrder == ASSUME EventsInOrder, NEW c \in Conns, DeviceSends(c) PROVE EventsInOrder'
<1> DEFINE s == stream[c] \o Message(sent[c] + 1)
<1>1. /\ stream[c] \in Seq(Blocks) /\ handled[c] \in Seq(Nat) /\ sent[c] \in Nat
      /\ ToCome(stream[c], handled[c], sent[c])
  BY DEF EventsInOrder, EventsTyped
<1>2. s \in Seq(Blocks) /\ ToCome(s, handled[c], sent[c] + 1)
  BY <1>1, SentToCome
<1>3. /\ stream' = [stream EXCEPT ![c] = s] /\ sent' = [sent EXCEPT ![c] = sent[c] + 1]
      /\ UNCHANGED <<conn, pending, handled, responses>>
  BY DEF DeviceSends
<1> HIDE DEF s
<1>4. EventsTyped'
  BY <1>1, <1>2, <1>3 DEF EventsInOrder, EventsTyped
<1>5. ASSUME NEW d \in Conns
      PROVE ToCome(stream[d], handled[d], sent[d])' /\ Unanswered(conn[d], handled[d], responses[d])'
  <2>1. Unanswered(conn[d], handled[d], responses[d])'
    BY <1>3 DEF EventsInOrder
  <2>2. CASE d = c
    <3>1. stream'[c] = s /\ sent'[c] = sent[c] + 1
      BY <1>3 DEF EventsInOrder, EventsTyped
    <3> QED BY <1>2, <1>3, <2>1, <2>2, <3>1
  <2>3. CASE d # c
    <3>1. stream'[d] = stream[d] /\ sent'[d] = sent[d]
      BY <1>3, <2>3 DEF EventsInOrder, EventsTyped
    <3> QED BY <1>3, <2>1, <3>1 DEF EventsInOrder
  <2> QED BY <2>2, <2>3
<1> QED BY <1>4, <1>5 DEF EventsInOrder

LEMMA EventsInductive == EventsInOrder /\ [EventsNext]_eventVars => EventsInOrder'
<1> SUFFICES ASSUME EventsInOrder, [EventsNext]_eventVars PROVE EventsInOrder'
  OBVIOUS
<1>0. conn \in [Conns -> {"free", "listening", "removed"}]
  BY DEF EventsInOrder, EventsTyped
<1>1. CASE UNCHANGED eventVars
  BY <1>0, <1>1, ConnectionsMove DEF eventVars, ChannelsUnchanged
<1>2. CASE EventsCreate \/ ListenAdded \/ Dispatch
  BY <1>0, <1>2, ConnectionsMove DEF EventsCreate, ListenAdded, Dispatch
<1>3. CASE EventsDeinit
  BY <1>0, <1>3, ConnectionsMove DEF EventsDeinit
<1>4. ASSUME NEW c \in Conns, Listen(c) PROVE EventsInOrder'
  BY <1>0, <1>4, ConnectionsMove DEF Listen, ClientAdd
<1>5. ASSUME NEW c \in Conns, Disconnected(c) PROVE EventsInOrder'
  BY <1>0, <1>5, ConnectionsMove DEF Disconnected, ClientRemove, ClientFree
<1> QED BY <1>1, <1>2, <1>3, <1>4, <1>5, IncomingInOrder, DeviceSendsInOrder DEF EventsNext

(* airplay_events.c:440: in whatever pieces the streams come, for any number of events and  *)
(* connections, an event is handled at most once, those of a connection in the order they  *)
(* were sent in, and each that was handled is answered unless that fails.                  *)
THEOREM HandledCorrect == EventsSpec => []HandledInOrder
<1>1. EventsInOrder => HandledInOrder
  BY DEF EventsInOrder, EventsTyped, ToCome, Rising, Unanswered, HandledInOrder
<1> QED BY <1>1, EventsInitial, EventsInductive, PTL DEF EventsSpec

-----------------------------------------------------------------------------
(* Discovery, AvahiPoll, DnsSd *)

\* What the player knows is a function of the services; the rest is what the runs check.
DiscoveryInv ==
  /\ known \in [Names -> SUBSET Addresses]
  /\ ResolversLive /\ KnownUsable

(* An address that passed the check is one the player may know.                            *)
LEMMA DeviceAddUsable ==
  ASSUME DiscoveryInv, NEW n, NEW a \in Addresses, AddressCheck(n, a), DeviceAdd(n, a),
         address' = address, ipv6' = ipv6
  PROVE known' \in [Names -> SUBSET Addresses] /\ KnownUsable'
<1>1. a.family \in address[n] /\ ~a.linkLocal /\ (a.family = "INET6" => ipv6)
  BY DEF AddressCheck, ConnectionTest
<1> DEFINE new == {k \in known[n] : k.family # a.family} \cup {a}
<1>2. known' = [known EXCEPT ![n] = new] /\ known \in [Names -> SUBSET Addresses]
  BY DEF DeviceAdd, DiscoveryInv
<1>3. \A m \in Names : known'[m] = IF m = n THEN new ELSE known[m]
  BY <1>2
<1>4. n \in Names => new \in SUBSET Addresses /\ \A k \in new : k = a \/ k \in known[n]
  BY <1>2
<1> HIDE DEF new
<1>5. KnownUsable'
  <2> SUFFICES ASSUME NEW m \in Names, NEW k \in known'[m]
               PROVE k.family \in address[m] /\ ~k.linkLocal /\ (k.family = "INET6" => ipv6)
    BY DEF KnownUsable
  <2>1. \A y \in known[m] : y.family \in address[m] /\ ~y.linkLocal /\ (y.family = "INET6" => ipv6)
    BY DEF DiscoveryInv, KnownUsable
  <2> QED BY <1>1, <1>3, <1>4, <2>1
<1> QED BY <1>2, <1>3, <1>4, <1>5

(* What the player is told to forget leaves less.                                          *)
LEMMA DeviceRemoveUsable ==
  ASSUME DiscoveryInv, NEW n, NEW family, DeviceRemove(n, family), address' = address, ipv6' = ipv6
  PROVE known' \in [Names -> SUBSET Addresses] /\ KnownUsable'
<1>1. known \in [Names -> SUBSET Addresses]
  BY DEF DiscoveryInv
<1>2. known' \in [Names -> SUBSET Addresses] /\ \A m \in Names : known'[m] \subseteq known[m]
  BY <1>1 DEF DeviceRemove
<1> QED BY <1>2 DEF DiscoveryInv, KnownUsable

LEMMA DiscoveryInitial == DiscoveryInit => DiscoveryInv
BY DEF DiscoveryInit, DiscoveryInv, ResolversLive, KnownUsable

LEMMA DiscoveryInductive == DiscoveryInv /\ [DiscoveryNext]_discoveryVars => DiscoveryInv'
<1> SUFFICES ASSUME DiscoveryInv, [DiscoveryNext]_discoveryVars PROVE DiscoveryInv'
  OBVIOUS
<1> USE DEF world
<1>1. CASE UNCHANGED discoveryVars
  BY <1>1 DEF discoveryVars, DiscoveryInv, ResolversLive, KnownUsable
<1>2. CASE ClientRunning \/ ClientRegistering \/ ClientFailed \/ Browse \/ Register \/ BrowserFailure
  <2>1. UNCHANGED <<ipv6, address, generation, resolver, known>>
    BY <1>2 DEF ClientRunning, ClientRegistering, ClientFailed, Browse, Register, BrowserFailure
  <2> QED BY <2>1 DEF DiscoveryInv, ResolversLive, KnownUsable
<1>3. CASE ClientLost \/ MdnsDeinit
  BY <1>3 DEF ClientLost, MdnsDeinit, ResolversFreed, DiscoveryInv, ResolversLive, KnownUsable
<1>4. ASSUME NEW n \in Names, NEW proto \in Families, Announce(n, proto) PROVE DiscoveryInv'
  BY <1>4 DEF Announce, DiscoveryInv, ResolversLive, KnownUsable
<1>5. ASSUME NEW n \in Names, NEW proto \in Families, BrowserNew(n, proto) PROVE DiscoveryInv'
  BY <1>5 DEF BrowserNew, ResolverAdd, DiscoveryInv, ResolversLive, KnownUsable
<1>6. ASSUME NEW n \in Names, NEW proto \in Families, BrowserRemove(n, proto) PROVE DiscoveryInv'
  <2>1. known' \in [Names -> SUBSET Addresses] /\ KnownUsable'
    BY <1>6, DeviceRemoveUsable DEF BrowserRemove
  <2>2. ResolversLive'
    BY <1>6 DEF BrowserRemove, ResolverRemove, DiscoveryInv, ResolversLive
  <2> QED BY <2>1, <2>2 DEF DiscoveryInv
<1>7. ASSUME NEW n \in Names, NEW proto \in Families, ResolverFailure(n, proto) PROVE DiscoveryInv'
  <2>1. known' \in [Names -> SUBSET Addresses] /\ KnownUsable'
    BY <1>7, DeviceRemoveUsable DEF ResolverFailure
  <2> QED BY <1>7, <2>1 DEF ResolverFailure, DiscoveryInv, ResolversLive
<1>8. ASSUME NEW n \in Names, NEW proto \in Families, ResolverFound(n, proto) PROVE DiscoveryInv'
  <2>1. UNCHANGED <<ipv6, address, resolver, generation>>
    BY <1>8 DEF ResolverFound
  <2>2. PICK a \in Addresses :
          \/ AddressCheck(n, a) /\ DeviceAdd(n, a)
          \/ known' = known
    BY <1>8 DEF ResolverFound
  <2>3. known' \in [Names -> SUBSET Addresses] /\ KnownUsable'
    <3>1. CASE AddressCheck(n, a) /\ DeviceAdd(n, a)
      BY <2>1, <3>1, DeviceAddUsable
    <3>2. CASE known' = known
      BY <2>1, <3>2 DEF DiscoveryInv, KnownUsable
    <3> QED BY <2>2, <3>1, <3>2
  <2> QED BY <2>1, <2>3 DEF DiscoveryInv, ResolversLive
<1>9. ASSUME NEW l \in lookup, RecordFound(l) PROVE DiscoveryInv'
  <2>1. UNCHANGED <<ipv6, address, resolver, generation>>
    BY <1>9 DEF RecordFound
  <2>2. PICK a \in Addresses : AddressCheck(l[1], a) /\ DeviceAdd(l[1], a)
    BY <1>9 DEF RecordFound
  <2>3. known' \in [Names -> SUBSET Addresses] /\ KnownUsable'
    BY <2>1, <2>2, DeviceAddUsable
  <2> QED BY <2>1, <2>3 DEF DiscoveryInv, ResolversLive
<1>10. ASSUME NEW l \in lookup, RecordEnds(l) PROVE DiscoveryInv'
  BY <1>10 DEF RecordEnds, DiscoveryInv, ResolversLive, KnownUsable
<1> QED BY <1>1, <1>2, <1>3, <1>4, <1>5, <1>6, <1>7, <1>8, <1>9, <1>10 DEF DiscoveryNext

(* mdns_avahi.c:1124: however often the daemon goes, no resolver of an earlier client is in *)
(* the list.                                                                               *)
THEOREM ResolversCorrect == DiscoverySpec => []ResolversLive
<1>1. DiscoveryInv => ResolversLive
  BY DEF DiscoveryInv
<1> QED BY <1>1, DiscoveryInitial, DiscoveryInductive, PTL DEF DiscoverySpec

(* mdns_avahi.c:690: the player knows only addresses that passed the check.                *)
THEOREM KnownCorrect == DiscoverySpec => []KnownUsable
<1>1. DiscoveryInv => KnownUsable
  BY DEF DiscoveryInv
<1> QED BY <1>1, DiscoveryInitial, DiscoveryInductive, PTL DEF DiscoverySpec

-----------------------------------------------------------------------------
(* The poll interface *)

WatchType == [used : BOOLEAN, asked : SUBSET Events, pending : SUBSET Events, fired : SUBSET Events]

TimeoutType == [used : BOOLEAN, asked : BOOLEAN, pending : BOOLEAN, fired : BOOLEAN]

\* What holds of a watch and of a timeout.
WatchSound(x) ==
  /\ x.pending = x.asked /\ x.fired \subseteq x.asked
  /\ ~x.used => x.pending = {}

TimeoutSound(x) ==
  /\ x.asked <=> x.pending \/ x.fired
  /\ ~(x.pending /\ x.fired)
  /\ ~x.used => ~x.asked

PollInv ==
  /\ watch \in [Watches -> WatchType] /\ timeout \in [Timeouts -> TimeoutType]
  /\ \A w \in Watches : WatchSound(watch[w])
  /\ \A t \in Timeouts : TimeoutSound(timeout[t])

(* Only one watch, or only one timeout, changes.                                           *)
LEMMA WatchChanged ==
  ASSUME PollInv, NEW w \in Watches, NEW new \in WatchType, WatchSound(new),
         watch' = [watch EXCEPT ![w] = new], UNCHANGED timeout
  PROVE  PollInv'
<1>1. watch' \in [Watches -> WatchType] /\ \A v \in Watches : watch'[v] \in {watch[v], new}
  BY DEF PollInv
<1>2. \A v \in Watches : WatchSound(watch'[v])
  BY <1>1 DEF PollInv
<1> QED BY <1>1, <1>2 DEF PollInv

LEMMA TimeoutChanged ==
  ASSUME PollInv, NEW t \in Timeouts, NEW new \in TimeoutType, TimeoutSound(new),
         timeout' = [timeout EXCEPT ![t] = new], UNCHANGED watch
  PROVE  PollInv'
<1>1. timeout' \in [Timeouts -> TimeoutType] /\ \A v \in Timeouts : timeout'[v] \in {timeout[v], new}
  BY DEF PollInv
<1>2. \A v \in Timeouts : TimeoutSound(timeout'[v])
  BY <1>1 DEF PollInv
<1> QED BY <1>1, <1>2 DEF PollInv

LEMMA PollRound ==
  ASSUME PollInv, NEW found \in [Watches -> SUBSET Events], NEW expired \in SUBSET Timeouts,
         Poll(found, expired)
  PROVE  PollInv'
<1>1. ASSUME NEW w \in Watches
      PROVE  watch'[w] \in WatchType /\ WatchSound(watch'[w])
  <2> DEFINE old == watch[w]
             new == [old EXCEPT !.fired = found[w]]
  <2>1. old \in WatchType /\ WatchSound(old) /\ found[w] \subseteq old.pending /\ watch'[w] = new
    BY DEF PollInv, Poll
  <2> HIDE DEF old
  <2>2. new \in WatchType /\ new.used = old.used /\ new.asked = old.asked
        /\ new.pending = old.pending /\ new.fired = found[w]
    BY <2>1 DEF WatchType
  <2> HIDE DEF new
  <2> QED BY <2>1, <2>2 DEF WatchSound
<1>2. ASSUME NEW t \in Timeouts
      PROVE  timeout'[t] \in TimeoutType /\ TimeoutSound(timeout'[t])
  <2> DEFINE old == timeout[t]
             new == [old EXCEPT !.pending = FALSE, !.fired = TRUE]
  <2>1. /\ old \in TimeoutType /\ TimeoutSound(old)
        /\ timeout'[t] = IF t \in expired THEN new ELSE old
        /\ t \in expired => old.pending
    BY DEF PollInv, Poll
  <2> HIDE DEF old
  <2>2. CASE t \in expired
    <3>1. new \in TimeoutType /\ new.used = old.used /\ new.asked = old.asked
          /\ new.pending = FALSE /\ new.fired = TRUE
      BY <2>1 DEF TimeoutType
    <3> HIDE DEF new
    <3>2. old.asked /\ old.used
      BY <2>1, <2>2 DEF TimeoutSound, TimeoutType
    <3> QED BY <2>1, <2>2, <3>1, <3>2 DEF TimeoutSound
  <2>3. CASE t \notin expired
    BY <2>1, <2>3
  <2> QED BY <2>2, <2>3
<1>3. watch' \in [Watches -> WatchType] /\ timeout' \in [Timeouts -> TimeoutType]
  BY <1>1, <1>2 DEF Poll
<1> QED BY <1>1, <1>2, <1>3 DEF PollInv

LEMMA PollInductive == PollInv /\ [PollNext]_pollVars => PollInv'
<1> SUFFICES ASSUME PollInv, [PollNext]_pollVars PROVE PollInv'
  OBVIOUS
<1>1. CASE UNCHANGED <<watch, timeout>>
  BY <1>1 DEF PollInv
<1>2. ASSUME NEW w \in Watches, NEW asked \in SUBSET Events, WatchNew(w, asked) \/ WatchUpdate(w, asked)
      PROVE  PollInv'
  <2> DEFINE new == [used |-> TRUE, asked |-> asked, pending |-> asked, fired |-> {}]
  <2>1. new \in WatchType /\ WatchSound(new)
    BY DEF WatchType, WatchSound
  <2>2. watch' = [watch EXCEPT ![w] = new] /\ UNCHANGED timeout
    BY <1>2 DEF WatchNew, WatchUpdate, WatchAdd
  <2> HIDE DEF new
  <2> QED BY <2>1, <2>2, WatchChanged
<1>3. ASSUME NEW w \in Watches, WatchFree(w) PROVE PollInv'
  <2>1. NoWatch \in WatchType /\ WatchSound(NoWatch)
    BY DEF NoWatch, WatchType, WatchSound
  <2> QED BY <1>3, <2>1, WatchChanged DEF WatchFree
<1>4. ASSUME NEW w \in Watches, EvcbWatch(w) PROVE PollInv'
  <2> DEFINE old == watch[w]
             new == [old EXCEPT !.pending = old.asked, !.fired = {}]
  <2>1. old \in WatchType /\ WatchSound(old)
    BY DEF PollInv
  <2>2. watch' = [watch EXCEPT ![w] = new] /\ UNCHANGED timeout
    BY <1>4 DEF EvcbWatch, PollInv
  <2> HIDE DEF old
  <2>3. new \in WatchType /\ new.used = old.used /\ new.asked = old.asked
        /\ new.pending = old.asked /\ new.fired = {}
    BY <2>1 DEF WatchType
  <2> HIDE DEF new
  <2>4. WatchSound(new)
    BY <2>1, <2>3 DEF WatchSound
  <2> QED BY <2>2, <2>3, <2>4, WatchChanged
<1>5. ASSUME NEW t \in Timeouts, NEW timed \in BOOLEAN, TimeoutNew(t, timed) \/ TimeoutUpdate(t, timed)
      PROVE  PollInv'
  <2> DEFINE new == [used |-> TRUE, asked |-> timed, pending |-> timed, fired |-> FALSE]
  <2>1. new \in TimeoutType /\ TimeoutSound(new)
    BY DEF TimeoutType, TimeoutSound
  <2>2. timeout' = [timeout EXCEPT ![t] = new] /\ UNCHANGED watch
    BY <1>5 DEF TimeoutNew, TimeoutUpdate, TimeoutAdd
  <2> HIDE DEF new
  <2> QED BY <2>1, <2>2, TimeoutChanged
<1>6. ASSUME NEW t \in Timeouts, TimeoutFree(t) PROVE PollInv'
  <2>1. NoTimeout \in TimeoutType /\ TimeoutSound(NoTimeout)
    BY DEF NoTimeout, TimeoutType, TimeoutSound
  <2> QED BY <1>6, <2>1, TimeoutChanged DEF TimeoutFree
<1>7. ASSUME NEW t \in Timeouts, EvcbTimeout(t) PROVE PollInv'
  <2> DEFINE old == timeout[t]
             new == [old EXCEPT !.asked = FALSE, !.fired = FALSE]
  <2>1. old \in TimeoutType /\ TimeoutSound(old) /\ old.fired
    BY <1>7 DEF PollInv, EvcbTimeout
  <2>2. timeout' = [timeout EXCEPT ![t] = new] /\ UNCHANGED watch
    BY <1>7 DEF EvcbTimeout, PollInv
  <2> HIDE DEF old
  <2>3. new \in TimeoutType /\ new.used = old.used /\ new.asked = FALSE
        /\ new.pending = old.pending /\ new.fired = FALSE
    BY <2>1 DEF TimeoutType
  <2> HIDE DEF new
  <2>4. TimeoutSound(new)
    BY <2>1, <2>3 DEF TimeoutSound
  <2> QED BY <2>2, <2>3, <2>4, TimeoutChanged
<1> QED BY <1>1, <1>2, <1>3, <1>4, <1>5, <1>6, <1>7, PollRound
        DEF PollNext, pollVars, CallbackReturns

(* mdns_avahi.c: libevent waits for what Avahi asks now, and a callback is due only of     *)
(* what is in use, for any number of watches and timeouts and whatever Avahi does to them  *)
(* in the callbacks.                                                                       *)
THEOREM WatchesCorrect == PollSpec => []WatchesFollowed
<1>1. PollInit => PollInv
  <2>1. /\ NoWatch \in WatchType /\ WatchSound(NoWatch)
        /\ NoTimeout \in TimeoutType /\ TimeoutSound(NoTimeout)
    BY DEF NoWatch, NoTimeout, WatchType, TimeoutType, WatchSound, TimeoutSound
  <2> QED BY <2>1 DEF PollInit, PollInv
<1>2. PollInv => WatchesFollowed
  BY DEF PollInv, WatchesFollowed, WatchSound, TimeoutSound
<1> QED BY <1>1, <1>2, PollInductive, PTL DEF PollSpec

-----------------------------------------------------------------------------
(* The resolvers of dns_sd *)

ResolverType == [service : Services, uuid : Nat, timed : BOOLEAN, lookups : Nat]

\* What holds of a resolver in the list, when count numbers were given out.
ResolverSound(r, count, services) == r.timed /\ r.service \in services /\ r.uuid <= count

\* No two resolvers have a number or a service in common.
Apart(list) ==
  \A i, j \in 1..Len(list) : i # j => list[i].uuid # list[j].uuid /\ list[i].service # list[j].service

SdInv ==
  /\ res_uuid \in Nat /\ resolvers \in Seq(ResolverType) /\ Apart(resolvers)
  /\ \A i \in 1..Len(resolvers) : ResolverSound(resolvers[i], res_uuid, reported)

(* The elements of a list without the i-th.                                                *)
LEMMA WithoutOne ==
  ASSUME NEW T, NEW list \in Seq(T), NEW i \in 1..Len(list)
  PROVE /\ RemoveAt(list, i) \in Seq(T) /\ Len(RemoveAt(list, i)) = Len(list) - 1
        /\ \A k \in 1..(Len(list) - 1) :
             RemoveAt(list, i)[k] = IF k < i THEN list[k] ELSE list[k + 1]
<1> DEFINE n == Len(list)
           a == SubSeq(list, 1, i - 1)
           b == SubSeq(list, i + 1, n)
           less == RemoveAt(list, i)
<1>0. n \in Nat
  OBVIOUS
<1>1. a \in Seq(T) /\ Len(a) = i - 1 /\ \A k \in 1..(i - 1) : a[k] = list[k]
  OBVIOUS
<1>2. b \in Seq(T) /\ Len(b) = n - i /\ \A k \in 1..(n - i) : b[k] = list[k + i]
  OBVIOUS
<1>3. less = a \o b
  BY DEF RemoveAt
<1> HIDE DEF a, b, n, less
<1>4. /\ less \in Seq(T) /\ Len(less) = Len(a) + Len(b)
      /\ \A k \in 1..(Len(a) + Len(b)) : less[k] = IF k <= Len(a) THEN a[k] ELSE b[k - Len(a)]
  BY <1>1, <1>2, <1>3, ConcatProperties
<1>5. ASSUME NEW k \in 1..(n - 1) PROVE less[k] = IF k < i THEN list[k] ELSE list[k + 1]
  <2>0. i \in 1..n
    BY DEF n
  <2>3. less[k] = IF k <= i - 1 THEN a[k] ELSE b[k - (i - 1)]
    BY <1>0, <1>1, <1>2, <1>4, <2>0
  <2>1. CASE k < i
    BY <1>0, <1>1, <2>0, <2>1, <2>3
  <2>2. CASE k >= i
    <3>1. k - (i - 1) \in 1..(n - i) /\ (k - (i - 1)) + i = k + 1
      BY <1>0, <2>0, <2>2
    <3>2. b[k - (i - 1)] = list[k + 1]
      BY <1>2, <3>1
    <3> QED BY <1>0, <2>0, <2>2, <2>3, <3>2
  <2> QED BY <1>0, <2>0, <2>1, <2>2
<1> QED BY <1>0, <1>1, <1>2, <1>4, <1>5 DEF less, n

(* When all resolvers but one are sound, the others stay so without it.                    *)
LEMMA OthersSound ==
  ASSUME NEW list \in Seq(ResolverType), NEW i \in 1..Len(list), Apart(list),
         NEW count \in Nat, NEW services,
         \A k \in 1..Len(list) : k # i => ResolverSound(list[k], count, services)
  PROVE /\ RemoveAt(list, i) \in Seq(ResolverType) /\ Apart(RemoveAt(list, i))
        /\ \A k \in 1..Len(RemoveAt(list, i)) : ResolverSound(RemoveAt(list, i)[k], count, services)
<1> DEFINE less == RemoveAt(list, i)
           at(k) == IF k < i THEN k ELSE k + 1
<1>1. less \in Seq(ResolverType) /\ Len(less) = Len(list) - 1
  BY WithoutOne
<1>2. \A k \in 1..Len(less) : at(k) \in 1..Len(list) /\ at(k) # i /\ less[k] = list[at(k)]
  BY <1>1, WithoutOne
<1>3. \A j, k \in 1..Len(less) : j # k => at(j) # at(k)
  OBVIOUS
<1> HIDE DEF less, at
<1>4. Apart(less)
  <2>1. ASSUME NEW j \in 1..Len(less), NEW k \in 1..Len(less), j # k
        PROVE less[j].uuid # less[k].uuid /\ less[j].service # less[k].service
    <3>1. at(j) \in 1..Len(list) /\ at(k) \in 1..Len(list) /\ at(j) # at(k)
      BY <1>2, <1>3, <2>1
    <3>2. list[at(j)].uuid # list[at(k)].uuid /\ list[at(j)].service # list[at(k)].service
      BY <3>1 DEF Apart
    <3> QED BY <1>2, <3>2
  <2> QED BY <2>1 DEF Apart
<1>5. \A k \in 1..Len(less) : ResolverSound(less[k], count, services)
  BY <1>2
<1> QED BY <1>1, <1>4, <1>5 DEF less

LEMMA OneFound == \A i \in Nat : Min({i}) = i
BY DEF Min

LEMMA SdInductive == SdInv /\ [SdNext]_sdVars => SdInv'
<1> SUFFICES ASSUME SdInv, [SdNext]_sdVars PROVE SdInv'
  OBVIOUS
<1>0. /\ res_uuid \in Nat /\ resolvers \in Seq(ResolverType) /\ Apart(resolvers)
      /\ \A i \in 1..Len(resolvers) : ResolverSound(resolvers[i], res_uuid, reported)
  BY DEF SdInv
<1>1. CASE UNCHANGED <<res_uuid, resolvers, reported>>
  BY <1>0, <1>1 DEF SdInv, Apart, ResolverSound
<1>2. CASE SdDeinit
  BY <1>0, <1>2 DEF SdDeinit, SdInv, Apart
<1>3. ASSUME NEW s \in Services, BrowseAdd(s) PROVE SdInv'
  <2> DEFINE new == NewResolver(s, res_uuid + 1)
             more == <<new>> \o resolvers
  <2>1. /\ s \notin reported /\ reported' = reported \cup {s} /\ res_uuid' = res_uuid + 1
        /\ resolvers' = more \/ resolvers' = resolvers
    BY <1>3 DEF BrowseAdd, NextUuid
  <2>2. new \in ResolverType /\ ResolverSound(new, res_uuid', reported') /\ new.uuid = res_uuid + 1 /\ new.service = s
    BY <1>0, <2>1 DEF NewResolver, ResolverType, ResolverSound
  <2>3. \A i \in 1..Len(resolvers) : ResolverSound(resolvers[i], res_uuid', reported')
    <3> SUFFICES ASSUME NEW i \in 1..Len(resolvers) PROVE ResolverSound(resolvers[i], res_uuid', reported')
      OBVIOUS
    <3>0. resolvers[i] \in ResolverType
      BY <1>0
    <3>1. resolvers[i].uuid \in Nat
      BY <3>0 DEF ResolverType
    <3> QED BY <1>0, <2>1, <3>1 DEF ResolverSound
  <2>4. \A i \in 1..Len(resolvers) : resolvers[i].uuid # new.uuid /\ resolvers[i].service # new.service
    <3> SUFFICES ASSUME NEW i \in 1..Len(resolvers)
                 PROVE resolvers[i].uuid # new.uuid /\ resolvers[i].service # new.service
      OBVIOUS
    <3>0. resolvers[i] \in ResolverType
      BY <1>0
    <3>1. resolvers[i].uuid \in Nat
      BY <3>0 DEF ResolverType
    <3> QED BY <1>0, <2>1, <2>2, <3>1 DEF ResolverSound
  <2> HIDE DEF new
  <2>5. /\ more \in Seq(ResolverType) /\ Len(more) = Len(resolvers) + 1
        /\ \A i \in 1..Len(more) : more[i] = IF i = 1 THEN new ELSE resolvers[i - 1]
    BY <1>0, <2>2
  <2> HIDE DEF more
  <2>6. Apart(more) /\ \A i \in 1..Len(more) : ResolverSound(more[i], res_uuid', reported')
    <3>1. \A i \in 1..Len(more) : i # 1 => i - 1 \in 1..Len(resolvers)
      BY <1>0, <2>5
    <3>2. Apart(more)
      <4> SUFFICES ASSUME NEW i \in 1..Len(more), NEW j \in 1..Len(more), i # j
                   PROVE more[i].uuid # more[j].uuid /\ more[i].service # more[j].service
        BY DEF Apart
      <4>1. CASE i = 1
        BY <2>4, <2>5, <3>1, <4>1
      <4>2. CASE j = 1
        BY <2>4, <2>5, <3>1, <4>2
      <4>3. CASE i # 1 /\ j # 1
        <5>1. i - 1 # j - 1 /\ i - 1 \in 1..Len(resolvers) /\ j - 1 \in 1..Len(resolvers)
          BY <2>5, <3>1, <4>3
        <5>2. more[i] = resolvers[i - 1] /\ more[j] = resolvers[j - 1]
          BY <2>5, <4>3
        <5> QED BY <1>0, <5>1, <5>2 DEF Apart
      <4> QED BY <4>1, <4>2, <4>3
    <3>3. \A i \in 1..Len(more) : ResolverSound(more[i], res_uuid', reported')
      BY <2>2, <2>3, <2>5, <3>1
    <3> QED BY <3>2, <3>3
  <2>7. res_uuid' \in Nat
    BY <1>0, <2>1
  <2>8. CASE resolvers' = more
    BY <2>5, <2>6, <2>7, <2>8 DEF SdInv
  <2>9. CASE resolvers' = resolvers
    BY <1>0, <2>3, <2>7, <2>9 DEF SdInv
  <2> QED BY <2>1, <2>8, <2>9
<1>4. ASSUME NEW s \in Services, BrowseRemove(s) PROVE SdInv'
  <2> DEFINE of == {k \in 1..Len(resolvers) : resolvers[k].service = s}
  <2>1. /\ reported' = reported \ {s} /\ res_uuid' = res_uuid
        /\ resolvers' = IF \E k \in 1..Len(resolvers) : resolvers[k].service = s
                        THEN RemoveAt(resolvers, IF of # {} THEN Min(of) ELSE 0) ELSE resolvers
    BY <1>4 DEF BrowseRemove, RemoveFirstMatch, SelectInSeq
  <2>2. CASE of = {}
    <3>1. resolvers' = resolvers
      BY <2>1, <2>2
    <3> QED BY <1>0, <2>1, <2>2, <3>1 DEF SdInv, ResolverSound
  <2>3. CASE of # {}
    <3>1. PICK i \in 1..Len(resolvers) : resolvers[i].service = s
      BY <2>3
    <3>2. of = {i}
      BY <1>0, <3>1 DEF Apart
    <3>3. resolvers' = RemoveAt(resolvers, i)
      BY <2>1, <3>1, <3>2, OneFound
    <3>4. \A k \in 1..Len(resolvers) : k # i => ResolverSound(resolvers[k], res_uuid', reported')
      BY <1>0, <2>1, <3>1 DEF Apart, ResolverSound
    <3> QED BY <1>0, <2>1, <3>3, <3>4, OthersSound DEF SdInv
  <2> QED BY <2>2, <2>3
<1>5. ASSUME NEW i \in DOMAIN resolvers, ResolveTimeout(i) PROVE SdInv'
  <2> DEFINE list == [resolvers EXCEPT ![i].timed = FALSE]
             of == {k \in 1..Len(list) : list[k].uuid = resolvers[i].uuid}
  <2>0. i \in 1..Len(resolvers)
    BY <1>0
  <2>1. /\ UNCHANGED <<reported, res_uuid>>
        /\ resolvers' = IF \E k \in 1..Len(list) : list[k].uuid = resolvers[i].uuid
                        THEN RemoveAt(list, IF of # {} THEN Min(of) ELSE 0) ELSE list
    BY <1>5 DEF ResolveTimeout, RemoveFirstMatch, SelectInSeq
  <2>2. /\ list \in Seq(ResolverType) /\ Len(list) = Len(resolvers)
        /\ \A k \in 1..Len(list) : /\ list[k].uuid = resolvers[k].uuid
                                   /\ list[k].service = resolvers[k].service
                                   /\ k # i => list[k] = resolvers[k]
    <3>2. resolvers[i] \in ResolverType
      BY <1>0, <2>0
    <3>1. [resolvers[i] EXCEPT !.timed = FALSE] \in ResolverType
      BY <3>2 DEF ResolverType
    <3>3. list = [resolvers EXCEPT ![i] = [resolvers[i] EXCEPT !.timed = FALSE]]
      OBVIOUS
    <3>4. /\ [resolvers[i] EXCEPT !.timed = FALSE].uuid = resolvers[i].uuid
          /\ [resolvers[i] EXCEPT !.timed = FALSE].service = resolvers[i].service
      BY <3>2 DEF ResolverType
    <3> DEFINE silent == [resolvers[i] EXCEPT !.timed = FALSE]
    <3> HIDE DEF silent, list
    <3> QED BY <1>0, <2>0, <3>1, <3>3, <3>4 DEF silent
  <2> HIDE DEF list
  <2>3. Apart(list)
    BY <1>0, <2>2 DEF Apart
  <2>4. of = {i}
    BY <1>0, <2>0, <2>2 DEF Apart
  <2>5. resolvers' = RemoveAt(list, i)
    BY <2>0, <2>1, <2>2, <2>4, OneFound
  <2>6. \A k \in 1..Len(list) : k # i => ResolverSound(list[k], res_uuid', reported')
    BY <1>0, <2>1, <2>2
  <2>7. res_uuid' \in Nat /\ i \in 1..Len(list) /\ list \in Seq(ResolverType)
    BY <1>0, <2>0, <2>1, <2>2
  <2>8. /\ RemoveAt(list, i) \in Seq(ResolverType) /\ Apart(RemoveAt(list, i))
        /\ \A k \in 1..Len(RemoveAt(list, i)) :
             ResolverSound(RemoveAt(list, i)[k], res_uuid', reported')
    BY <2>3, <2>6, <2>7, OthersSound
  <2> QED BY <2>5, <2>7, <2>8 DEF SdInv
<1>6. ASSUME NEW i \in DOMAIN resolvers, Resolved(i) PROVE SdInv'
  <2>0. i \in 1..Len(resolvers) /\ resolvers[i] \in ResolverType
    BY <1>0
  <2> DEFINE new == [resolvers[i] EXCEPT !.lookups = @ + 1]
  <2>1. /\ new \in ResolverType /\ new.uuid = resolvers[i].uuid
        /\ new.service = resolvers[i].service /\ new.timed = resolvers[i].timed
    BY <2>0 DEF ResolverType
  <2>2. resolvers' = [resolvers EXCEPT ![i] = new] /\ UNCHANGED <<res_uuid, reported>>
    BY <1>6 DEF Resolved
  <2> HIDE DEF new
  <2>3. /\ resolvers' \in Seq(ResolverType) /\ Len(resolvers') = Len(resolvers)
        /\ \A k \in 1..Len(resolvers) : resolvers'[k] = IF k = i THEN new ELSE resolvers[k]
    BY <1>0, <2>0, <2>1, <2>2
  <2>4. Apart(resolvers')
    BY <1>0, <2>0, <2>1, <2>3 DEF Apart
  <2>5. \A k \in 1..Len(resolvers') : ResolverSound(resolvers'[k], res_uuid', reported')
    BY <1>0, <2>0, <2>1, <2>2, <2>3 DEF ResolverSound
  <2> QED BY <1>0, <2>2, <2>3, <2>4, <2>5 DEF SdInv
<1>7. ASSUME NEW i \in DOMAIN resolvers, LookedUp(i) PROVE SdInv'
  BY <1>1, <1>7 DEF LookedUp
<1>8. CASE SdBrowse \/ SdRegister \/ SdCname
  BY <1>1, <1>8 DEF SdBrowse, SdRegister, SdCname, Registered
<1>9. CASE UNCHANGED sdVars
  BY <1>1, <1>9 DEF sdVars
<1> QED BY <1>2, <1>3, <1>4, <1>5, <1>6, <1>7, <1>8, <1>9 DEF SdNext

(* mdns_dnssd.c:782: a timer ends its own resolver and no other, and none outlives its     *)
(* service, for any number of services and resolvers.                                      *)
THEOREM ResolversEndCorrect == SdSpec => []ResolversEnd
<1>1. SdInit => SdInv
  BY DEF SdInit, SdInv, Apart
<1>2. SdInv => ResolversEnd
  BY DEF SdInv, ResolverSound, ResolversEnd
<1> QED BY <1>1, <1>2, SdInductive, PTL DEF SdSpec

-----------------------------------------------------------------------------
(* OutputsVolume *)

SpeakerType == [listed : BOOLEAN, selected : BOOLEAN, ok : BOOLEAN, volume : Int, relvol : Int]

\* What the callers of vol_adjust give it.
SpeakersOK(s, failed) ==
  /\ s \in [Speakers -> SpeakerType]
  /\ \A d \in Speakers : /\ ~s[d].listed => ~s[d].selected
                         /\ ~s[d].ok => d \in failed
                         /\ s[d].volume \in 0..(IF failed = {} THEN 100 ELSE MaxVolume)

\* A device follows the master m.
Follows(v, relvol, m) == relvol # IntOfInfinity => v - RelToVol(relvol, m) \in 0..((m + 99) \div 100)

\* While no device has failed, none is louder than the master and one is as loud.
LoudestLeads(s, m) ==
  LET selected == {d \in Speakers : s[d].selected}
  IN  /\ m <= 100 /\ \A d \in Speakers : s[d].volume \in 0..100
      /\ \A d \in selected : s[d].relvol \in 0..100 /\ s[d].volume <= m
      /\ selected # {} => \E d \in selected : s[d].relvol = 100 /\ s[d].volume = m

VolumeInv ==
  /\ speaker \in [Speakers -> SpeakerType]
  /\ master \in (-1)..MaxVolume
  /\ \A d \in Speakers :
       /\ speaker[d].listed => master >= 0
       /\ ~speaker[d].listed => ~speaker[d].selected
       /\ ~speaker[d].ok => d \in failedOnce
       /\ speaker[d].selected => Follows(speaker[d].volume, speaker[d].relvol, master)
  /\ failedOnce = {} => LoudestLeads(speaker, master)

(* The relative volume, as a quotient with its remainder.                                  *)
LEMMA QuotientIs ==
  ASSUME NEW a \in Nat, NEW b \in Nat \ {0}
  PROVE  a \div b \in Nat /\ \E r \in 0..(b - 1) : a = b * (a \div b) + r /\ a % b = r
  BY Z3

(* vol_to_rel and rel_to_vol: what a device loses of its volume, whichever quotients fall  *)
(* short; a device that is not louder than the master gets a share of 0..100.              *)
LEMMA RelativeFollows ==
  ASSUME NEW v \in 0..MaxVolume, NEW m \in 0..MaxVolume
  PROVE  /\ VolToRel(v, m) \in Int
         /\ v <= m => VolToRel(v, m) \in 0..100
         /\ v = m => VolToRel(v, m) = 100
         /\ Follows(v, VolToRel(v, m), m)
<1>0. MaxVolume \in 100..1677 /\ v \in Nat /\ m \in Nat
  BY OutputsVolumeAssumption
<1>1. CASE v = m
  <2>1. v - m = 0 /\ 0 \in 0..((m + 99) \div 100)
    BY <1>0, <1>1
  <2> QED BY <1>0, <1>1, <2>1 DEF VolToRel, RelToVol, Follows
<1>2. CASE v # m /\ m = 0
  BY <1>0, <1>2, OutputsVolumeAssumption DEF VolToRel, Follows
<1>3. CASE v # m /\ m # 0
  <2> DEFINE q == (v * 100) \div m
             short == IF <<v, m>> \in Short THEN 1 ELSE 0
             x == q - short
  <2>1. VolToRel(v, m) = x
    BY <1>3 DEF VolToRel
  <2>2. PICK r \in 0..(m - 1) : q \in Nat /\ v * 100 = m * q + r /\ (short = 1 => v # 0 /\ r = 0)
    <3>1. PICK r \in 0..(m - 1) : q \in Nat /\ v * 100 = m * q + r /\ (v * 100) % m = r
      BY <1>0, <1>3, QuotientIs
    <3>2. short = 1 => v # 0 /\ (v * 100) % m = 0
      BY OutputsVolumeAssumption
    <3> QED BY <3>1, <3>2
  <2>3. short \in {0, 1}
    OBVIOUS
  <2> DEFINE w == m * q
             y == m * x
  <2> HIDE DEF q, short
  <2>4. w \in Int /\ y \in Int /\ x \in Int /\ y = w - (IF short = 1 THEN m ELSE 0)
    <3>1. q \in Int /\ m \in Int
      BY <1>0, <2>2
    <3>2. CASE short = 0
      BY <3>1, <3>2
    <3>3. CASE short = 1
      BY <3>1, <3>3
    <3> QED BY <2>3, <3>2, <3>3
  <2>5. w <= 100 * v /\ 100 * v <= w + m - 1 /\ (short = 1 => 100 * v = w)
    BY <1>0, <2>2
  <2>6. short = 1 => q # 0
    BY <1>0, <2>2
  <2> HIDE DEF w
  <2>7. x \in Nat
    BY <2>2, <2>3, <2>6
  <2>8. v <= m => x \in 0..99
    BY <1>0, <1>3, <2>2, <2>3, <2>4, <2>5, <2>7 DEF w
  <2>9. x * m = y /\ y \in Nat
    BY <1>0, <2>7
  <2> HIDE DEF x, y
  <2>10. y <= 100 * v /\ 100 * v <= y + m
    BY <1>0, <1>3, <2>3, <2>4, <2>5
  <2>11. v - y \div 100 \in 0..((m + 99) \div 100)
    BY <1>0, <2>9, <2>10
  <2>12. RelToVol(x, m) = y \div 100
    <3>1. x = 100 => y \div 100 = m
      BY <1>0, <2>9
    <3>2. x # 100 => RelToVol(x, m) = y \div 100
      BY <2>9 DEF RelToVol, CutToInt
    <3> QED BY <3>1, <3>2 DEF RelToVol
  <2>13. Follows(v, x, m)
    BY <2>11, <2>12 DEF Follows
  <2> QED BY <1>3, <2>1, <2>4, <2>8, <2>13
<1> QED BY <1>1, <1>2, <1>3

(* rel_to_vol: a share of 0..100 of the master's volume is no more than that.              *)
LEMMA ShareOf ==
  ASSUME NEW r \in 0..100, NEW m \in Nat
  PROVE  RelToVol(r, m) \in 0..m
<1> DEFINE x == r * m
<1>1. x \in 0..(100 * m)
  OBVIOUS
<1> HIDE DEF x
<1>2. x \div 100 \in 0..m
  BY <1>1
<1>3. RelToVol(r, m) = IF r = 100 THEN m ELSE x \div 100
  BY <1>1 DEF RelToVol, CutToInt, x
<1> QED BY <1>2, <1>3

(* rel_to_vol: every relative volume gives some volume.                                    *)
LEMMA ShareIsInt == ASSUME NEW r \in Int, NEW m \in Int PROVE RelToVol(r, m) \in Int
<1> DEFINE x == r * m
<1>1. x \in Int
  OBVIOUS
<1> HIDE DEF x
<1>2. CutToInt(x) \in Int
  BY <1>1 DEF CutToInt
<1> QED BY <1>2 DEF RelToVol, x

(* The loop of vol_adjust finds the volume of a device of the set that is as loud as any.  *)
LEMMA HighestOf ==
  ASSUME NEW s \in [Speakers -> SpeakerType], NEW set \in SUBSET Speakers, NEW limit \in Nat,
         \A d \in Speakers : s[d].volume \in 0..limit
  PROVE  /\ set = {} => Highest(s, set) = -1
         /\ set # {} => \E d \in set : Highest(s, set) = s[d].volume
         /\ \A d \in set : s[d].volume <= Highest(s, set)
<1>0. \A d \in set : s[d].volume \in 0..limit
  OBVIOUS
<1> DEFINE volumes == {s[d].volume : d \in set}
           best(v) == \A d \in set : s[d].volume <= v
<1>1. CASE set = {}
  BY <1>1 DEF Highest
<1>2. CASE set # {}
  <2>1. \E v \in volumes : best(v)
    <3> DEFINE T == {limit - v : v \in volumes}
    <3>1. T \subseteq Nat /\ T # {}
      BY <1>0, <1>2
    <3> HIDE DEF T
    <3>2. PICK t \in T : \A u \in T : t <= u
      BY <3>1, LeastPlace, Zenon
    <3>3. PICK v \in volumes : t = limit - v
      BY DEF T
    <3>4. ASSUME NEW d \in set PROVE s[d].volume <= v
      <4>1. limit - s[d].volume \in T
        BY DEF T
      <4>2. t <= limit - s[d].volume
        BY <3>2, <4>1
      <4>3. v \in 0..limit /\ s[d].volume \in 0..limit
        BY <1>0
      <4> QED BY <3>3, <4>2, <4>3
    <3> QED BY <3>4
  <2>2. \E d \in set : s[d].volume >= 0
    BY <1>0, <1>2
  <2>3. Highest(s, set) = CHOOSE v \in volumes : best(v)
    BY <2>2 DEF Highest
  <2>4. Highest(s, set) \in volumes /\ best(Highest(s, set))
    BY <2>1, <2>3, Zenon
  <2> QED BY <1>2, <2>4
<1> QED BY <1>1, <1>2

(* vol_adjust makes every selected device follow the new master.                           *)
LEMMA Adjusted ==
  ASSUME NEW s, NEW failed, SpeakersOK(s, failed), VolAdjust(s), failedOnce' = failed
  PROVE  VolumeInv'
<1> DEFINE m == NewMaster(s)
<1> DEFINE limit == IF failed = {} THEN 100 ELSE MaxVolume
<1>0. /\ s \in [Speakers -> SpeakerType] /\ Shown(s) \in SUBSET Speakers /\ Listed(s) \in SUBSET Speakers
      /\ limit \in Nat /\ limit <= MaxVolume /\ MaxVolume \in Nat /\ (failed = {} => limit = 100)
  BY OutputsVolumeAssumption DEF SpeakersOK, Shown, Listed
<1>1. \A d \in Speakers : s[d] \in SpeakerType /\ s[d].volume \in 0..limit /\ s[d].volume \in 0..MaxVolume
  BY <1>0 DEF SpeakersOK
<1> HIDE DEF limit
<1>2. /\ Shown(s) # {} => m = Highest(s, Shown(s)) /\ m \in 0..limit
      /\ Shown(s) = {} => m = Highest(s, Listed(s))
  BY <1>0, <1>1, HighestOf DEF NewMaster
<1>3. /\ m \in (-1)..limit /\ (Listed(s) # {} => m \in 0..limit)
      /\ m \in (-1)..MaxVolume /\ (Listed(s) # {} => m \in 0..MaxVolume)
  <2>1. m \in (-1)..limit /\ (Listed(s) # {} => m \in 0..limit)
    BY <1>0, <1>1, <1>2, HighestOf
  <2> HIDE DEF m
  <2> QED BY <1>0, <2>1
<1> HIDE DEF m
<1>4. /\ master' = m
      /\ speaker' = [d \in Speakers |->
           IF s[d].listed THEN [s[d] EXCEPT !.relvol = VolToRel(s[d].volume, m)] ELSE s[d]]
  BY DEF VolAdjust, m
<1>5. \A d \in Speakers : d \in Listed(s) => VolToRel(s[d].volume, m) \in Int
  BY <1>1, <1>3, RelativeFollows
<1>6. ASSUME NEW d \in Speakers
      PROVE  /\ speaker'[d] \in SpeakerType
             /\ speaker'[d].listed = s[d].listed /\ speaker'[d].selected = s[d].selected
             /\ speaker'[d].ok = s[d].ok /\ speaker'[d].volume = s[d].volume
             /\ s[d].listed => m \in 0..MaxVolume /\ speaker'[d].relvol = VolToRel(s[d].volume, m)
  BY <1>1, <1>3, <1>4, <1>5 DEF SpeakerType, Listed
<1>7. /\ speaker' \in [Speakers -> SpeakerType]
      /\ \A d \in Speakers : /\ ~speaker'[d].listed => ~speaker'[d].selected
                             /\ ~speaker'[d].ok => d \in failedOnce'
  BY <1>4, <1>6 DEF SpeakersOK
<1>8. ASSUME NEW d \in Speakers, s[d].listed PROVE m \in 0..MaxVolume
  BY <1>6, <1>8
<1>9. ASSUME NEW d \in Speakers, s[d].selected
      PROVE  s[d].listed /\ Follows(speaker'[d].volume, speaker'[d].relvol, m)
  <2> DEFINE v == s[d].volume
  <2>1. s[d].listed
    BY <1>9 DEF SpeakersOK
  <2>2. /\ v \in 0..MaxVolume /\ m \in 0..MaxVolume
        /\ speaker'[d].volume = v /\ speaker'[d].relvol = VolToRel(v, m)
    BY <1>1, <1>6, <2>1
  <2> HIDE DEF v
  <2>3. Follows(v, VolToRel(v, m), m)
    BY <2>2, RelativeFollows, Zenon
  <2> QED BY <2>1, <2>2, <2>3
<1>10. failed = {} => LoudestLeads(speaker, master)'
  <2> SUFFICES ASSUME failed = {} PROVE LoudestLeads(speaker, master)'
    OBVIOUS
  <2>1. \A d \in Speakers : s[d].selected <=> d \in Shown(s)
    BY DEF SpeakersOK, Shown, Listed
  <2>2. ASSUME NEW d \in Shown(s) PROVE s[d].volume <= m
    BY <1>0, <1>1, <1>2, <2>2, HighestOf
  <2>3. Shown(s) # {} => \E d \in Shown(s) : s[d].volume = m
    BY <1>0, <1>1, <1>2, HighestOf
  <2>4. ASSUME NEW d \in Shown(s)
        PROVE  /\ speaker'[d].relvol \in 0..100 /\ speaker'[d].volume <= m
               /\ s[d].volume = m => speaker'[d].relvol = 100 /\ speaker'[d].volume = m
    <3>1. d \in Speakers /\ s[d].listed
      BY DEF Shown, Listed
    <3>2. /\ s[d].volume \in 0..MaxVolume /\ m \in 0..MaxVolume /\ s[d].volume <= m
          /\ speaker'[d].volume = s[d].volume /\ speaker'[d].relvol = VolToRel(s[d].volume, m)
      BY <1>1, <1>6, <2>2, <3>1
    <3> DEFINE v == s[d].volume
    <3>3. /\ v \in 0..MaxVolume /\ m \in 0..MaxVolume /\ v <= m
          /\ speaker'[d].volume = v /\ speaker'[d].relvol = VolToRel(v, m)
      BY <3>2
    <3> HIDE DEF v
    <3>4. VolToRel(v, m) \in 0..100
      BY <3>3, RelativeFollows, ZenonT(30)
    <3>5. v = m => VolToRel(v, m) = 100
      BY DEF VolToRel
    <3> QED BY <3>3, <3>4, <3>5 DEF v
  <2>5. {d \in Speakers : speaker'[d].selected} = Shown(s)
    BY <1>0, <1>6, <2>1
  <2>6. master' = m /\ m <= 100 /\ \A d \in Speakers : speaker'[d].volume \in 0..100
    BY <1>0, <1>1, <1>3, <1>4, <1>6
  <2> DEFINE leads(set) == /\ \A d \in set : speaker'[d].relvol \in 0..100 /\ speaker'[d].volume <= m
                           /\ set # {} => \E d \in set : speaker'[d].relvol = 100 /\ speaker'[d].volume = m
  <2>7. leads(Shown(s))
    BY <2>3, <2>4
  <2>8. LoudestLeads(speaker, master)' <=> leads({d \in Speakers : speaker'[d].selected})
    BY <2>6 DEF LoudestLeads
  <2> HIDE DEF leads
  <2> QED BY <2>5, <2>7, <2>8
<1> QED BY <1>3, <1>4, <1>6, <1>7, <1>8, <1>9, <1>10 DEF VolumeInv

LEMMA VolumeInitial == VolumeInit => VolumeInv
BY OutputsVolumeAssumption DEF VolumeInit, VolumeInv, SpeakerType, Unlisted, LoudestLeads

(* What the bound on the volumes followed and the invariant give the actions.              *)
LEMMA VolumesHere == VolumeInv /\ VolumesBound => SpeakersOK(speaker, failedOnce)
BY DEF VolumeInv, VolumesBound, SpeakersOK, LoudestLeads

(* What an action does to one device, before the volumes are adjusted.                     *)
LEMMA SpeakerChanged ==
  ASSUME VolumeInv, VolumesBound, NEW d \in Speakers, NEW new \in SpeakerType,
         new.selected => new.listed, new.ok \/ ~speaker[d].ok,
         new.volume \in 0..(IF failedOnce = {} THEN 100 ELSE MaxVolume),
         VolAdjust([speaker EXCEPT ![d] = new]), UNCHANGED failedOnce
  PROVE  VolumeInv'
<1> DEFINE s == [speaker EXCEPT ![d] = new]
<1>1. SpeakersOK(s, failedOnce)
  BY VolumesHere DEF SpeakersOK
<1> HIDE DEF s
<1> QED BY <1>1, Adjusted DEF s

LEMMA AdjustedActions ==
  ASSUME VolumeInv, VolumesBound, NEW d \in Speakers,
         SpeakerAdd(d) \/ SpeakerRemove(d) \/ SpeakerSelect(d) \/ SpeakerDeselect(d) \/ VolumeRegister(d)
  PROVE  VolumeInv'
<1> DEFINE old == speaker[d]
           limit == IF failedOnce = {} THEN 100 ELSE MaxVolume
<1>0. /\ speaker \in [Speakers -> SpeakerType] /\ old \in SpeakerType
      /\ old.listed \in BOOLEAN /\ old.selected \in BOOLEAN /\ old.volume \in 0..limit
      /\ Levels \subseteq 0..100 /\ Unlisted \in SpeakerType /\ Unlisted.ok
      /\ limit \in 100..MaxVolume /\ MaxVolume \in Nat /\ Unlisted.volume \in 0..limit
      /\ master \in (-1)..limit /\ (old.listed => master \in 0..limit)
  BY OutputsVolumeAssumption, VolumesHere DEF VolumeInv, LoudestLeads, SpeakersOK, SpeakerType, Unlisted
<1>a. ASSUME NEW new \in SpeakerType, new.selected => new.listed, new.ok \/ ~old.ok, new.volume \in 0..limit,
             VolAdjust([speaker EXCEPT ![d] = new]), UNCHANGED failedOnce
      PROVE  VolumeInv'
  BY <1>a, SpeakerChanged
<1> HIDE DEF limit
<1>1. CASE SpeakerAdd(d)
  <2>1. ASSUME NEW v \in 0..limit, NEW selected \in BOOLEAN,
               VolAdjust([speaker EXCEPT ![d] = [Unlisted EXCEPT !.listed = TRUE, !.selected = selected, !.volume = v]])
        PROVE  VolumeInv'
    <3>0. v \in Int
      BY <1>0
    <3> DEFINE new == [Unlisted EXCEPT !.listed = TRUE, !.selected = selected, !.volume = v]
    <3>1. new \in SpeakerType /\ new.listed /\ new.ok /\ new.volume \in 0..limit
      BY <1>0, <3>0 DEF Unlisted, SpeakerType
    <3>2. UNCHANGED failedOnce
      BY <1>1 DEF SpeakerAdd
    <3> HIDE DEF new
    <3> QED BY <2>1, <3>1, <3>2, <1>a DEF new
  <2>2. ASSUME NEW v \in 0..limit,
               VolAdjust([speaker EXCEPT ![d] = [Unlisted EXCEPT !.listed = TRUE, !.volume = v]])
        PROVE  VolumeInv'
    <3>0. v \in Int
      BY <1>0
    <3> DEFINE new == [Unlisted EXCEPT !.listed = TRUE, !.volume = v]
    <3>1. new \in SpeakerType /\ new.listed /\ new.ok /\ new.volume \in 0..limit
      BY <1>0, <3>0 DEF Unlisted, SpeakerType
    <3>2. UNCHANGED failedOnce
      BY <1>1 DEF SpeakerAdd
    <3> HIDE DEF new
    <3> QED BY <2>2, <3>1, <3>2, <1>a DEF new
  <2>3. (IF master >= 0 THEN master ELSE 50) \in 0..limit
    BY <1>0
  <2>4. Levels \subseteq 0..limit
    BY <1>0
  <2> QED BY <1>1, <2>1, <2>2, <2>3, <2>4 DEF SpeakerAdd
<1>2. CASE SpeakerRemove(d)
  <2>1. Unlisted.selected => Unlisted.listed
    BY DEF Unlisted
  <2> QED BY <1>0, <1>2, <2>1, <1>a DEF SpeakerRemove
<1>3. CASE SpeakerSelect(d)
  <2>1. PICK max \in {-1} \cup Levels :
          VolAdjust([speaker EXCEPT ![d].selected = TRUE, ![d].volume = IF max >= 0 /\ @ > max THEN max ELSE @])
    BY <1>3 DEF SpeakerSelect
  <2> DEFINE v == IF max >= 0 /\ old.volume > max THEN max ELSE old.volume
             new == [old EXCEPT !.selected = TRUE, !.volume = v]
  <2>2. v \in 0..limit /\ v \in Int
    BY <1>0
  <2> HIDE DEF v
  <2>3. new \in SpeakerType /\ new.listed = old.listed /\ new.ok = old.ok /\ new.volume \in 0..limit
    BY <1>0, <2>2 DEF SpeakerType
  <2>4. [speaker EXCEPT ![d].selected = TRUE, ![d].volume = IF max >= 0 /\ @ > max THEN max ELSE @]
          = [speaker EXCEPT ![d] = new]
    BY <1>0 DEF v, SpeakerType
  <2>5. old.listed /\ UNCHANGED failedOnce
    BY <1>3 DEF SpeakerSelect
  <2> HIDE DEF new
  <2> QED BY <1>0, <2>1, <2>3, <2>4, <2>5, <1>a
<1>4. CASE SpeakerDeselect(d)
  <2> DEFINE new == [old EXCEPT !.selected = FALSE]
  <2>1. new \in SpeakerType /\ ~new.selected /\ new.ok = old.ok /\ new.volume \in 0..limit
    BY <1>0 DEF SpeakerType
  <2>2. [speaker EXCEPT ![d].selected = FALSE] = [speaker EXCEPT ![d] = new]
    BY <1>0
  <2>3. VolAdjust([speaker EXCEPT ![d] = new]) /\ UNCHANGED failedOnce
    BY <1>4, <2>2 DEF SpeakerDeselect
  <2> HIDE DEF new
  <2> QED BY <2>1, <2>3, <1>a
<1>5. CASE VolumeRegister(d)
  <2>1. PICK v \in Levels \cup {RelToVol(r, master) : r \in Levels} :
          VolAdjust([speaker EXCEPT ![d].volume = v])
    BY <1>5 DEF VolumeRegister
  <2>2. old.listed /\ UNCHANGED failedOnce
    BY <1>5 DEF VolumeRegister
  <2>3. v \in 0..limit
    <3>1. ASSUME NEW r \in Levels PROVE RelToVol(r, master) \in 0..limit
      <4>1. r \in 0..100 /\ master \in 0..limit /\ master \in Nat
        BY <1>0, <2>2
      <4>2. RelToVol(r, master) \in 0..master
        BY <4>1, ShareOf
      <4> QED BY <1>0, <4>1, <4>2
    <3> QED BY <1>0, <3>1
  <2> DEFINE new == [old EXCEPT !.volume = v]
  <2>4. new \in SpeakerType /\ new.listed = old.listed /\ new.ok = old.ok /\ new.volume \in 0..limit
    BY <1>0, <2>3 DEF SpeakerType
  <2>5. [speaker EXCEPT ![d].volume = v] = [speaker EXCEPT ![d] = new]
    BY <1>0
  <2> HIDE DEF new
  <2> QED BY <2>1, <2>2, <2>4, <2>5, <1>a
<1> QED BY <1>1, <1>2, <1>3, <1>4, <1>5

LEMMA StateInductive == ASSUME VolumeInv, NEW d \in Speakers, SpeakerState(d) PROVE VolumeInv'
<1> DEFINE new == [speaker[d] EXCEPT !.ok = ~@]
<1>1. /\ speaker \in [Speakers -> SpeakerType] /\ speaker' = [speaker EXCEPT ![d] = new]
      /\ failedOnce' = failedOnce \cup {d} /\ master' = master
  BY DEF VolumeInv, SpeakersOK, SpeakerState
<1>2. /\ new \in SpeakerType /\ new.listed = speaker[d].listed /\ new.selected = speaker[d].selected
      /\ new.volume = speaker[d].volume /\ new.relvol = speaker[d].relvol
  BY <1>1 DEF SpeakerType
<1> HIDE DEF new
<1>3. ASSUME NEW e \in Speakers
      PROVE  /\ speaker'[e] \in SpeakerType /\ speaker'[e].listed = speaker[e].listed
             /\ speaker'[e].selected = speaker[e].selected /\ speaker'[e].volume = speaker[e].volume
             /\ speaker'[e].relvol = speaker[e].relvol /\ (e # d => speaker'[e].ok = speaker[e].ok)
  BY <1>1, <1>2
<1>4. speaker' \in [Speakers -> SpeakerType] /\ master' \in (-1)..MaxVolume
  BY <1>1, <1>3 DEF VolumeInv
<1>5. failedOnce' # {}
  BY <1>1
<1>6. \A e \in Speakers :
        /\ speaker'[e].listed => master' >= 0
        /\ ~speaker'[e].listed => ~speaker'[e].selected
        /\ ~speaker'[e].ok => e \in failedOnce'
        /\ speaker'[e].selected => Follows(speaker'[e].volume, speaker'[e].relvol, master')
  BY <1>1, <1>3 DEF VolumeInv
<1> QED BY <1>4, <1>5, <1>6 DEF VolumeInv

LEMMA SetInductive == ASSUME VolumeInv, NEW v \in Levels, VolumeSet(v) PROVE VolumeInv'
<1>1. /\ speaker \in [Speakers -> SpeakerType] /\ v \in 0..100 /\ master' = v /\ failedOnce' = failedOnce
      /\ speaker' = [d \in Speakers |->
           IF speaker[d].selected THEN [speaker[d] EXCEPT !.volume = RelToVol(speaker[d].relvol, v)]
           ELSE speaker[d]]
  BY OutputsVolumeAssumption DEF VolumeInv, VolumeSet
<1>2. ASSUME NEW d \in Speakers
      PROVE  /\ RelToVol(speaker[d].relvol, v) \in Int
             /\ failedOnce = {} /\ speaker[d].selected =>
                  speaker[d].relvol \in 0..100 /\ RelToVol(speaker[d].relvol, v) \in 0..v
  <2>1. speaker[d].relvol \in Int /\ v \in Int /\ v \in Nat
    BY <1>1 DEF SpeakerType
  <2>2. failedOnce = {} /\ speaker[d].selected => speaker[d].relvol \in 0..100
    BY DEF VolumeInv, LoudestLeads
  <2> QED BY <2>1, <2>2, ShareOf, ShareIsInt
<1>3. ASSUME NEW d \in Speakers
      PROVE  /\ speaker'[d] \in SpeakerType /\ speaker'[d].listed = speaker[d].listed
             /\ speaker'[d].selected = speaker[d].selected /\ speaker'[d].ok = speaker[d].ok
             /\ speaker'[d].relvol = speaker[d].relvol
             /\ speaker'[d].volume =
                  IF speaker[d].selected THEN RelToVol(speaker[d].relvol, v) ELSE speaker[d].volume
  BY <1>1, <1>2 DEF SpeakerType
<1>4. speaker' \in [Speakers -> SpeakerType]
  BY <1>1, <1>3
<1>5. ASSUME NEW d \in Speakers, speaker[d].selected
      PROVE  Follows(speaker'[d].volume, speaker'[d].relvol, v)
  <2>1. speaker'[d].volume - RelToVol(speaker'[d].relvol, v) = 0
    BY <1>2, <1>3, <1>5
  <2>2. 0 \in 0..((v + 99) \div 100)
    BY <1>1
  <2> QED BY <2>1, <2>2 DEF Follows
<1>6. failedOnce = {} => LoudestLeads(speaker, master)'
  <2> SUFFICES ASSUME failedOnce = {} PROVE LoudestLeads(speaker, master)'
    OBVIOUS
  <2> DEFINE selected == {d \in Speakers : speaker[d].selected}
  <2>1. {d \in Speakers : speaker'[d].selected} = selected
    BY <1>3
  <2>2. \A d \in selected : speaker'[d].relvol \in 0..100 /\ speaker'[d].volume <= v
    BY <1>1, <1>2, <1>3
  <2>3. selected # {} => \E d \in selected : speaker'[d].relvol = 100 /\ speaker'[d].volume = v
    <3>1. selected # {} => \E d \in selected : speaker[d].relvol = 100
      BY DEF VolumeInv, LoudestLeads
    <3> QED BY <1>3, <3>1 DEF RelToVol
  <2>4. ASSUME NEW d \in Speakers PROVE speaker'[d].volume \in 0..100
    <3>1. CASE speaker[d].selected
      <4> DEFINE x == RelToVol(speaker[d].relvol, v)
      <4>1. x \in 0..v /\ speaker'[d].volume = x
        BY <1>2, <1>3, <3>1
      <4> HIDE DEF x
      <4> QED BY <1>1, <4>1
    <3>2. CASE ~speaker[d].selected
      BY <1>3, <3>2 DEF VolumeInv, LoudestLeads
    <3> QED BY <3>1, <3>2
  <2> HIDE DEF selected
  <2>5. master' = v /\ master' <= 100
    BY <1>1
  <2> DEFINE leads(set) == /\ \A d \in set : speaker'[d].relvol \in 0..100 /\ speaker'[d].volume <= v
                           /\ set # {} => \E d \in set : speaker'[d].relvol = 100 /\ speaker'[d].volume = v
  <2>6. leads(selected)
    BY <2>2, <2>3
  <2>7. LoudestLeads(speaker, master)' <=> leads({d \in Speakers : speaker'[d].selected})
    BY <2>4, <2>5 DEF LoudestLeads
  <2> HIDE DEF leads
  <2> QED BY <2>1, <2>6, <2>7
<1>7. master' \in (-1)..MaxVolume /\ master' >= 0
  <2>1. v \in 0..100 /\ MaxVolume \in 100..1677
    BY <1>1, OutputsVolumeAssumption
  <2>2. master' = v
    BY <1>1
  <2> QED BY <2>1, <2>2
<1>8. \A d \in Speakers :
        /\ speaker'[d].listed => master' >= 0
        /\ ~speaker'[d].listed => ~speaker'[d].selected
        /\ ~speaker'[d].ok => d \in failedOnce'
        /\ speaker'[d].selected => Follows(speaker'[d].volume, speaker'[d].relvol, master')
  BY <1>1, <1>3, <1>5, <1>7 DEF VolumeInv
<1> QED BY <1>1, <1>4, <1>6, <1>7, <1>8 DEF VolumeInv

LEMMA VolumeInductive == VolumeInv /\ [VolumeNext]_volumeVars => VolumeInv'
<1> SUFFICES ASSUME VolumeInv, [VolumeNext]_volumeVars PROVE VolumeInv'
  OBVIOUS
<1>1. CASE UNCHANGED volumeVars
  BY <1>1 DEF volumeVars, VolumeInv, LoudestLeads
<1> QED BY <1>1, AdjustedActions, StateInductive, SetInductive DEF VolumeNext

\* vol_to_rel, rel_to_vol, vol_adjust: every selected device plays at its share of the
\* master volume, also at volumes above 100, short of it by one for every hundred the master
\* has begun, and while none has failed the loudest at the master volume, for any number of
\* devices, volumes up to any bound within what floats hold exactly, changes of them, and
\* whichever quotients of floats fall short.
THEOREM VolumesCorrect == VolumeSpec => []VolumesFollowMaster
<1>1. VolumeInv => VolumesFollowMaster
  <2> SUFFICES ASSUME VolumeInv PROVE VolumesFollowMaster
    OBVIOUS
  <2> DEFINE selected == {d \in Speakers : speaker[d].selected}
  <2>1. \A d \in selected : speaker[d].relvol # IntOfInfinity =>
          speaker[d].volume - RelToVol(speaker[d].relvol, master) \in 0..((master + 99) \div 100)
    BY DEF VolumeInv, Follows
  <2>2. ASSUME failedOnce = {}, selected # {} PROVE Highest(speaker, selected) = master
    <3>1. PICK d \in selected : speaker[d].volume = master
      BY <2>2 DEF VolumeInv, LoudestLeads
    <3>2. /\ speaker \in [Speakers -> SpeakerType] /\ selected \in SUBSET Speakers
          /\ 100 \in Nat /\ \A c \in Speakers : speaker[c].volume \in 0..100
      BY <2>2 DEF VolumeInv, LoudestLeads
    <3> HIDE DEF selected
    <3>3. PICK e \in selected : Highest(speaker, selected) = speaker[e].volume
      BY <2>2, <3>2, HighestOf
    <3>4. speaker[d].volume <= Highest(speaker, selected)
      BY <3>2, HighestOf
    <3> DEFINE x == speaker[e].volume
    <3>5. x <= master /\ x \in 0..100 /\ master \in (-1)..MaxVolume /\ MaxVolume \in Nat
      BY <2>2, <3>2, OutputsVolumeAssumption DEF selected, VolumeInv, LoudestLeads
    <3>6. Highest(speaker, selected) = x /\ master <= x
      BY <3>1, <3>3, <3>4
    <3> HIDE DEF x
    <3> QED BY <3>5, <3>6
  <2>4. failedOnce = {} => \A d \in Speakers : speaker[d].volume \in 0..100
    BY DEF VolumeInv, LoudestLeads
  <2> HIDE DEF selected
  <2>3. /\ failedOnce = {} =>
             /\ \A d \in Speakers : speaker[d].volume \in 0..100
             /\ selected # {} => Highest(speaker, selected) = master
        /\ \A d \in selected : speaker[d].relvol # IntOfInfinity =>
             speaker[d].volume - RelToVol(speaker[d].relvol, master) \in 0..((master + 99) \div 100)
    BY <2>1, <2>2, <2>4
  <2> QED BY <2>3 DEF VolumesFollowMaster, selected
<1> QED BY <1>1, VolumeInitial, VolumeInductive, PTL DEF VolumeSpec
=============================================================================
