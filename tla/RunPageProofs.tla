---------------------------- MODULE RunPageProofs ----------------------------
(***************************************************************************)
(* What the page "Run Test" guarantees, for any number of starts, lines    *)
(* and upsets, whatever threads, connections and requests do in between.   *)
(***************************************************************************)
EXTENDS RunPage, SublistProofs, SequenceTheorems, TLAPS

-----------------------------------------------------------------------------
(***************************************************************************)
(* Numbers.  Starts are counted: those clicked are the first ones.         *)
(***************************************************************************)

Counted == \E m \in 0..Cardinality(Workers) : Clicked = 1..m

LEMMA Numbers ==
  /\ Cardinality(Workers) \in Nat /\ Workers \in SUBSET Nat /\ Missing \notin Workers
  /\ \A w \in Nat : w \in Workers <=> 1 <= w /\ w <= Cardinality(Workers)
<1> DEFINE n == Cardinality(Workers)
<1>1. n \in Nat /\ Workers = 1..n
  BY RunStreamAssumption, FS_CardinalityType
<1> HIDE DEF n
<1>2. Workers \in SUBSET Nat /\ \A w \in Nat : w \in Workers <=> 1 <= w /\ w <= n
  BY <1>1
<1>3. Missing \notin Workers
  BY <1>2, RunStreamAssumption
<1> QED
  BY <1>1, <1>2, <1>3 DEF n

\* The number of the next start is that of no earlier one, and greater than theirs.
LEMMA NextNumber ==
  ASSUME Counted, Clicked # Workers, NEW w, w = Cardinality(Clicked) + 1
  PROVE  /\ w \in Workers /\ click[w] = "none" /\ \A v \in Clicked : v < w
         /\ w <= Cardinality(Workers) /\ Clicked \cup {w} = 1..w
<1> DEFINE n == Cardinality(Workers)
<1>0. n \in Nat
  BY Numbers
<1>1. PICK m \in 0..n : Clicked = 1..m
  BY DEF Counted
<1>2. Cardinality(Clicked) = m
  BY <1>0, <1>1, FS_Interval
<1>3. Workers = 1..n
  BY RunStreamAssumption
<1> HIDE DEF n
<1>4. m # n
  BY <1>1, <1>3
<1>5. w = m + 1 /\ w \in Workers /\ w <= n
  BY <1>0, <1>1, <1>2, <1>3, <1>4
<1>6. w \notin Clicked /\ \A v \in Clicked : v < w
  BY <1>0, <1>1, <1>5
<1>7. Clicked \cup {w} = 1..w
  BY <1>0, <1>1, <1>5
<1> QED
  BY <1>5, <1>6, <1>7 DEF Clicked, n

\* A start that changes has been clicked then, and no other.
LEMMA ClickedAfter ==
  ASSUME click \in [Workers -> ClickState], NEW w \in Workers, NEW to \in ClickState \ {"none"},
         click' = [click EXCEPT ![w] = to]
  PROVE  Clicked' = Clicked \cup {w}
<1>1. \A v \in Workers : click'[v] = IF v = w THEN to ELSE click[v]
  OBVIOUS
<1> QED
  BY <1>1 DEF Clicked

\* The start that went out last, if there is one.
LEMMA LastOut ==
  ASSUME NEW w \in Outgone
  PROVE  LastSent \in Outgone /\ \A v \in Outgone : v <= LastSent
<1>1. Outgone \in SUBSET Int /\ Outgone \in SUBSET Workers
  <2>1. \A n \in Workers : n \in Int
    BY Numbers
  <2> QED
    BY <2>1 DEF Outgone
<1>2. IsFiniteSet(Outgone)
  BY <1>1, RunStreamAssumption, FS_Subset
<1> DEFINE n == Cardinality(Outgone)
<1>3. n \in Nat /\ n # 0
  BY <1>2, FS_CardinalityType, FS_EmptySet
<1>4. PICK last \in Outgone : Rank(Outgone, last) = n - 1
  <2>1. n - 1 \in 0..n - 1
    BY <1>3
  <2> QED
    BY <1>1, <1>2, <2>1, RankReached
<1>5. \A v \in Outgone : v <= last
  <2> SUFFICES ASSUME NEW v \in Outgone, ~(v <= last) PROVE FALSE
    OBVIOUS
  <2>1. last < v
    BY <1>1
  <2>2. Rank(Outgone, last) < Rank(Outgone, v)
    BY <1>1, <1>2, <2>1, RankGrows
  <2>3. Rank(Outgone, v) \in 0..n - 1
    BY <1>1, <1>2, RankType
  <2> HIDE DEF n
  <2> QED
    BY <1>3, <1>4, <2>2, <2>3
<1> QED
  BY <1>4, <1>5 DEF LastSent

\* There is only one.
LEMMA LastIsOne ==
  ASSUME NEW w \in Outgone, \A v \in Outgone : v <= w
  PROVE  LastSent = w
<1>1. \A v \in Outgone : v \in Int
  <2>1. \A n \in Workers : n \in Int
    BY Numbers
  <2> QED
    BY <2>1 DEF Outgone
<1>2. LastSent \in Outgone /\ w <= LastSent /\ LastSent <= w
  BY LastOut
<1> QED
  BY <1>1, <1>2
-----------------------------------------------------------------------------
(***************************************************************************)
(* Types, of the server's side first.                                      *)
(***************************************************************************)

Thread  == [pc : {"none", "active", "coded", "ended", "refused", "lost"}, id : Ids \cup {Missing},
            lines : 0..MaxLines, cancel : Workers \cup {Missing}]
Items   == Lines \cup {Sentinel}
Sources == [id : Ids \cup {Missing}, state : {"closed", "connecting", "open"}, done : BOOLEAN]

\* The line a thread writes next is a line, and the last one of its queue then.
LEMMA Written ==
  ASSUME StreamTypeOK, NEW w \in Workers, worker[w].lines < MaxLines
  PROVE  Line(w, worker[w].lines + 1) \in Items
<1>1. worker[w].lines \in 0..MaxLines /\ MaxLines \in Nat
  BY RunStreamAssumption DEF StreamTypeOK
<1>2. worker[w].lines + 1 \in 1..MaxLines
  BY <1>1
<1> QED
  BY <1>2 DEF Items, Lines

LEMMA QueuesTyped ==
  ASSUME StreamTypeOK
  PROVE  queue \in [Workers -> Seq(Items)]
BY DEF StreamTypeOK, Items

\* What a reader is given, and what is left for the next one.
LEMMA TakenType ==
  ASSUME StreamTypeOK, NEW w \in Workers
  PROVE  /\ \A item \in NextItems(w) : item \in Items
         /\ Taken(w) \in [Workers -> Seq(Items)]
<1>1. queue \in [Workers -> Seq(Items)]
  BY QueuesTyped
<1>2. CASE queue[w] = <<>>
  <2>1. Taken(w) = queue
    BY <1>1, <1>2 DEF Taken
  <2>2. \A item \in NextItems(w) : item = Sentinel
    BY <1>2 DEF NextItems
  <2> QED
    BY <1>1, <2>1, <2>2 DEF Items
<1>3. CASE queue[w] # <<>>
  <2>1. queue[w] \in Seq(Items)
    BY <1>1
  <2>2. Head(queue[w]) \in Items /\ Tail(queue[w]) \in Seq(Items)
    BY <1>3, <2>1
  <2>3. Taken(w) = [queue EXCEPT ![w] = Tail(queue[w])]
    BY <1>1, <1>3 DEF Taken
  <2>4. NextItems(w) = {Head(queue[w])}
    BY <1>3 DEF NextItems
  <2> QED
    BY <1>1, <2>2, <2>3, <2>4
<1> QED
  BY <1>2, <1>3

LEMMA LeaveType ==
  ASSUME StreamTypeOK
  PROVE  LeaveReader \in [Workers -> Nat]
BY DEF StreamTypeOK, LeaveReader

\* What is logged goes to the queues of runs at work.
LEMMA LoggedType ==
  ASSUME StreamTypeOK, NEW line \in Items
  PROVE  /\ Logged(line) \in [Workers -> Seq(Items)]
         /\ \A v \in Workers : Logged(line)[v] = IF v \in Active THEN Append(queue[v], line)
                                                 ELSE queue[v]
<1>1. \A v \in Workers : queue[v] \in Seq(Items) /\ Append(queue[v], line) \in Seq(Items)
  BY QueuesTyped
<1> QED
  BY <1>1 DEF Logged

LEMMA NoticeIsItem == Notice \in Items
BY DEF Items, Lines

LEMMA WorkerType ==
  ASSUME StreamTypeOK, NEW w \in Workers, WorkerStep(w)
  PROVE  StreamTypeOK'
<1>0. /\ worker \in [Workers -> Thread] /\ queue \in [Workers -> Seq(Items)]
      /\ rcode \in [Workers -> Codes \cup {Missing}] /\ stored \in [Ids -> Workers \cup {Missing}]
  BY DEF StreamTypeOK, Thread, Items
<1>1. CASE WriteLine(w)
  <2> DEFINE line == Line(w, worker[w].lines + 1)
  <2>1. line \in Items
    BY <1>1, Written DEF WriteLine
  <2>2. queue' = Logged(line)
    BY <1>1 DEF WriteLine
  <2> HIDE DEF line
  <2>3. queue' \in [Workers -> Seq(Items)]
    BY <2>1, <2>2, LoggedType
  <2>4. worker' \in [Workers -> Thread]
    <3>1. worker' = [worker EXCEPT ![w].lines = worker[w].lines + 1]
      BY <1>1 DEF WriteLine
    <3>2. worker[w].lines + 1 \in 0..MaxLines
      BY <1>0, <1>1, RunStreamAssumption DEF WriteLine, Thread
    <3> QED
      BY <1>0, <3>1, <3>2, ZenonT(40) DEF Thread
  <2> QED
    BY <1>1, <2>3, <2>4 DEF WriteLine, StreamTypeOK, Thread, Items
<1>2. CASE EndWork(w)
  <2>1. PICK rc \in Codes : rcode' = [rcode EXCEPT ![runs[worker[w].id]] = rc]
    BY <1>2 DEF EndWork, Codes
  <2>2. rcode' \in [Workers -> Codes \cup {Missing}]
    BY <1>0, <2>1
  <2>3. stored' \in [Ids -> Workers \cup {Missing}]
    BY <1>0, <1>2 DEF EndWork
  <2>4. worker' \in [Workers -> Thread]
    <3>1. worker' = [worker EXCEPT ![w].pc = "coded"]
      BY <1>2 DEF EndWork
    <3> QED
      BY <1>0, <3>1, ZenonT(40) DEF Thread
  <2> QED
    BY <1>2, <2>2, <2>3, <2>4 DEF EndWork, StreamTypeOK, Thread
<1>3. CASE PutSentinel(w)
  <2>1. queue' \in [Workers -> Seq(Items)]
    <3>1. queue[w] \in Seq(Items) /\ Sentinel \in Items
      BY <1>0 DEF Items
    <3>2. Append(queue[w], Sentinel) \in Seq(Items)
      BY <3>1
    <3>3. queue' = [queue EXCEPT ![w] = Append(queue[w], Sentinel)]
      BY <1>3 DEF PutSentinel
    <3> QED
      BY <1>0, <3>2, <3>3
  <2>2. worker' \in [Workers -> Thread]
    BY <1>0, <1>3, ZenonT(40) DEF PutSentinel, Thread
  <2> QED
    BY <1>3, <2>1, <2>2 DEF PutSentinel, StreamTypeOK, Thread, Items
<1> QED
  BY <1>1, <1>2, <1>3 DEF WorkerStep

LEMMA GhostType ==
  ASSUME StreamTypeOK, NEW w \in Workers, GhostTakes(w)
  PROVE  StreamTypeOK'
<1>1. queue' \in [Workers -> Seq(Items)]
  BY TakenType DEF GhostTakes
<1>2. ghosts' \in [Workers -> Nat]
  BY DEF GhostTakes, StreamTypeOK
<1> QED
  BY <1>1, <1>2 DEF GhostTakes, StreamTypeOK, Items

LEMMA StartType ==
  ASSUME StreamTypeOK, NEW w \in Workers, NEW id \in Ids \cup {Missing}, NEW refused \in BOOLEAN,
         StartWorker(w, id, refused)
  PROVE  StreamTypeOK'
<1>1. worker' \in [Workers -> Thread]
  <2>1. worker \in [Workers -> Thread]
    BY DEF StreamTypeOK, Thread
  <2>2. PICK pc \in {"refused", "active"} :
          worker' = [worker EXCEPT ![w] = [worker[w] EXCEPT !.pc = pc, !.id = id]]
    BY <2>1 DEF StartWorker
  <2>3. worker[w] \in Thread
    BY <2>1
  <2>4. [worker[w] EXCEPT !.pc = pc, !.id = id] \in Thread
    BY <2>3 DEF Thread
  <2> QED
    BY <2>1, <2>2, <2>4
<1>2. runs' \in [Ids -> Workers \cup {Missing}]
  BY DEF StreamTypeOK, StartWorker
<1> QED
  BY <1>1, <1>2 DEF StartWorker, StreamTypeOK, Thread

LEMMA CancelType ==
  ASSUME StreamTypeOK, NEW id \in Ids, NEW start \in Workers, CancelAtServer(id, start)
  PROVE  StreamTypeOK'
<1>1. worker' \in [Workers -> Thread]
  <2>1. worker \in [Workers -> Thread]
    BY DEF StreamTypeOK, Thread
  <2>2. CASE MayCancel(id)
    <3>1. worker' = [worker EXCEPT ![runs[id]].cancel = start]
      BY <2>2 DEF CancelAtServer
    <3>2. ASSUME NEW w \in Workers PROVE worker'[w] \in Thread
      <4>1. worker[w] \in Thread /\ (worker'[w] = worker[w] \/ worker'[w] = [worker[w] EXCEPT !.cancel = start])
        BY <2>1, <3>1
      <4> QED
        BY <4>1 DEF Thread
    <3> QED
      BY <2>1, <3>1, <3>2
  <2>3. CASE ~MayCancel(id)
    BY <2>1, <2>3 DEF CancelAtServer
  <2> QED
    BY <2>2, <2>3
<1>2. queue' \in [Workers -> Seq(Items)]
  BY LoggedType, NoticeIsItem, QueuesTyped DEF CancelAtServer
<1> QED
  BY <1>1, <1>2 DEF CancelAtServer, StreamTypeOK, Thread, Items

LEMMA LogType ==
  ASSUME StreamTypeOK, LogAtServer
  PROVE  StreamTypeOK'
<1>1. queue' \in [Workers -> Seq(Items)]
  BY LoggedType, NoticeIsItem DEF LogAtServer
<1> QED
  BY <1>1 DEF LogAtServer, StreamTypeOK, Items

LEMMA LoseType ==
  ASSUME StreamTypeOK, LoseServer
  PROVE  StreamTypeOK'
<1>1. worker' \in [Workers -> Thread]
  <2>1. worker \in [Workers -> Thread]
    BY DEF StreamTypeOK, Thread
  <2>2. ASSUME NEW t \in Thread
        PROVE  [t EXCEPT !.pc = IF t.pc \in {"active", "coded"} THEN "lost" ELSE t.pc] \in Thread
    BY DEF Thread
  <2>3. worker' = [w \in Workers |->
          [worker[w] EXCEPT !.pc = IF worker[w].pc \in {"active", "coded"} THEN "lost" ELSE worker[w].pc]]
    BY DEF LoseServer
  <2> QED
    BY <2>1, <2>2, <2>3
<1>2. queue' \in [Workers -> Seq(Items)]
  <2>1. <<>> \in Seq(Items)
    OBVIOUS
  <2> QED
    BY <2>1 DEF LoseServer
<1> QED
  BY <1>1, <1>2 DEF LoseServer, StreamTypeOK, Thread, Items
-----------------------------------------------------------------------------
(***************************************************************************)
(* Types, of the page.  They need to know that what is asked for and       *)
(* streamed has an id, and that an open stream has a reader.               *)
(***************************************************************************)

Threads == /\ \A w \in Workers : click[w] = "created" => worker[w].id \in Ids
           /\ latest # Missing => worker[latest].id \in Ids
Source  == /\ sse.state # "closed" => sse.id \in Ids
           /\ sse.state = "open" <=> reader # Missing
Answered == current # Missing => \E w \in Workers : click[w] = "over"
TypeInv == TypeOK /\ Counted /\ Threads /\ Source /\ Answered

\* The types of what every lemma below looks at.
LEMMA Known ==
  ASSUME TypeInv
  PROVE  /\ worker \in [Workers -> Thread] /\ click \in [Workers -> ClickState] /\ sse \in Sources
         /\ queue \in [Workers -> Seq(Items)] /\ rcode \in [Workers -> Codes \cup {Missing}]
         /\ runs \in [Ids -> Workers \cup {Missing}] /\ stored \in [Ids -> Workers \cup {Missing}]
         /\ reader \in Workers \cup {Missing} /\ latest \in Workers \cup {Missing}
         /\ ghosts \in [Workers -> Nat]
         /\ log \in Seq(Lines) /\ running \in BOOLEAN /\ indicator \in Shown
         /\ current \in Ids \cup {Missing} /\ shown \in Workers \cup {Missing}
         /\ asks \subseteq Ids /\ cancels \subseteq Ids \X Workers /\ calm \in BOOLEAN
BY DEF TypeInv, TypeOK, StreamTypeOK, PageTypeOK, Thread, Items, Sources

LEMMA InitType == Init => TypeInv
<1> SUFFICES ASSUME Init PROVE TypeInv
  OBVIOUS
<1>1. StreamTypeOK
  <2>1. <<>> \in Seq(Items) /\ 0 \in 0..MaxLines
    BY RunStreamAssumption
  <2> QED
    BY <2>1 DEF Init, StreamInit, StreamTypeOK, Items, Thread
<1>2. PageTypeOK
  <2>1. <<>> \in Seq(Lines) /\ 0 \in 0..MaxUpsets
    BY RunPageAssumption
  <2> QED
    BY <2>1 DEF Init, NoSource, PageTypeOK, ClickState, Shown
<1>3. Counted
  <2>1. Clicked = 1..0
    BY DEF Init, Clicked
  <2> QED
    BY <2>1, Numbers DEF Counted
<1>4. Threads /\ Source /\ Answered
  BY DEF Init, StreamInit, NoSource, Threads, Source, Answered
<1> QED
  BY <1>1, <1>2, <1>3, <1>4 DEF TypeInv, TypeOK

\* A start goes on, or it is the next one.
LEMMA ClickGoesOn ==
  ASSUME TypeInv, NEW w \in Workers, NEW to \in ClickState \ {"none"}, click' = [click EXCEPT ![w] = to],
         \/ click[w] \in {"waiting", "sent", "created", "refused"}
         \/ click[w] = "none" /\ Clicked \cup {w} = 1..w /\ w <= Cardinality(Workers)
  PROVE  /\ click' \in [Workers -> ClickState] /\ Counted'
         /\ current' = current => Answered'
         /\ UNCHANGED <<worker, latest>> /\ to # "created" => Threads'
<1>0. click \in [Workers -> ClickState]
  BY Known
<1>1. click' \in [Workers -> ClickState] /\ \A v \in Workers : click'[v] = IF v = w THEN to ELSE click[v]
  BY <1>0
<1>2. Clicked' = Clicked \cup {w}
  BY <1>0, ClickedAfter
<1>3. Counted'
  <2>1. CASE w \in Clicked
    BY <1>2, <2>1 DEF TypeInv, Counted
  <2>2. CASE Clicked \cup {w} = 1..w /\ w <= Cardinality(Workers)
    <3>1. w \in 0..Cardinality(Workers)
      BY <2>2, Numbers
    <3> QED
      BY <1>2, <2>2, <3>1 DEF Counted
  <2> QED
    BY <2>1, <2>2 DEF Clicked
<1>4. current' = current => Answered'
  BY <1>1 DEF TypeInv, Answered
<1>5. UNCHANGED <<worker, latest>> /\ to # "created" => Threads'
  BY <1>1 DEF TypeInv, Threads
<1> QED
  BY <1>1, <1>3, <1>4, <1>5

LEMMA StreamStays == StreamTypeOK /\ UNCHANGED streamVars => StreamTypeOK'
BY DEF StreamTypeOK, streamVars

LEMMA ClickType ==
  ASSUME TypeInv, ClickStart
  PROVE  TypeInv'
<1> DEFINE n == Cardinality(Clicked) + 1
<1>0. PICK w : w = n
  OBVIOUS
<1>1. /\ w \in Workers /\ click[w] = "none" /\ w <= Cardinality(Workers) /\ Clicked \cup {w} = 1..w
  BY <1>0, NextNumber DEF ClickStart, TypeInv
<1>2. PICK to \in {"waiting", "over", "sent"} : click' = [click EXCEPT ![w] = to]
  BY <1>0 DEF ClickStart, Decline, Send
<1>3. click' \in [Workers -> ClickState] /\ Counted' /\ Answered' /\ Threads'
  BY <1>1, <1>2, ClickGoesOn DEF ClickState, ClickStart, streamVars
<1>4. StreamTypeOK'
  BY StreamStays DEF ClickStart, TypeInv, TypeOK
<1>5. PageTypeOK'
  <2>1. log' = log \/ log' = <<>>
    BY DEF ClickStart, Decline, Send
  <2>2. log' \in Seq(Lines)
    <3>1. <<>> \in Seq(Lines)
      OBVIOUS
    <3> QED
      BY <2>1, <3>1, Known
  <2>3. running' \in BOOLEAN /\ indicator' \in Shown /\ shown' \in Workers \cup {Missing}
    BY Known DEF ClickStart, Decline, Send, Shown
  <2>4. calm' \in BOOLEAN
    BY Zenon DEF ClickStart
  <2> QED
    BY <1>3, <2>2, <2>3, <2>4 DEF ClickStart, TypeInv, TypeOK, PageTypeOK
<1>6. Source'
  BY DEF ClickStart, TypeInv, Source, streamVars
<1> QED
  BY <1>3, <1>4, <1>5, <1>6 DEF TypeInv, TypeOK

LEMMA ResumeType ==
  ASSUME TypeInv, NEW w \in Workers, Resume(w)
  PROVE  TypeInv'
<1>1. PICK to \in {"over", "sent"} : click' = [click EXCEPT ![w] = to]
  BY DEF Resume, Decline, Send
<1>2. click' \in [Workers -> ClickState] /\ Counted' /\ Answered' /\ Threads'
  BY <1>1, ClickGoesOn DEF ClickState, Resume, streamVars
<1>3. StreamTypeOK'
  BY StreamStays DEF Resume, TypeInv, TypeOK
<1>4. PageTypeOK'
  <2>1. log' = log \/ log' = <<>>
    BY DEF Resume, Decline, Send
  <2>2. log' \in Seq(Lines)
    <3>1. <<>> \in Seq(Lines)
      OBVIOUS
    <3> QED
      BY <2>1, <3>1, Known
  <2>3. running' \in BOOLEAN /\ indicator' \in Shown /\ shown' \in Workers \cup {Missing}
    BY Known DEF Resume, Decline, Send, Shown
  <2> QED
    BY <1>2, <2>2, <2>3 DEF Resume, TypeInv, TypeOK, PageTypeOK
<1>5. Source'
  BY DEF Resume, TypeInv, Source, streamVars
<1> QED
  BY <1>2, <1>3, <1>4, <1>5 DEF TypeInv, TypeOK

LEMMA HandleType ==
  ASSUME TypeInv, NEW w \in Workers, HandleStart(w)
  PROVE  TypeInv'
<1>1. PICK refused \in BOOLEAN, id \in IdChoices(w) :
        /\ upsets' = upsets + (IF refused THEN 1 ELSE 0) + (IF id # w THEN 1 ELSE 0)
        /\ upsets' <= MaxUpsets
        /\ StartWorker(w, id, refused)
        /\ click' = [click EXCEPT ![w] = IF refused THEN "refused" ELSE "created"]
        /\ calm' = (calm /\ id = w)
  BY DEF HandleStart
<1>2. id \in Ids
  <2>1. id = w \/ (latest \in Workers /\ id = worker[latest].id)
    BY DEF IdChoices
  <2>2. latest \in Workers => worker[latest].id \in Ids
    BY Numbers DEF TypeInv, Threads
  <2> QED
    BY <2>1, <2>2 DEF Ids
<1>3. StreamTypeOK'
  BY <1>1, <1>2, StartType DEF TypeInv, TypeOK
<1>4. PICK to \in {"refused", "created"} : click' = [click EXCEPT ![w] = to]
  BY <1>1
<1>5. click' \in [Workers -> ClickState] /\ Counted' /\ Answered'
  BY <1>4, ClickGoesOn DEF ClickState, HandleStart
<1>6. Threads'
  <2>0. worker \in [Workers -> Thread] /\ click \in [Workers -> ClickState]
    BY Known
  <2>1. worker'[w].id = id /\ \A v \in Workers \ {w} : worker'[v] = worker[v]
    BY <1>1, <2>0 DEF StartWorker, Thread
  <2>2. latest' = w /\ \A v \in Workers \ {w} : click'[v] = click[v]
    BY <1>1, <2>0 DEF StartWorker
  <2> QED
    BY <1>2, <2>1, <2>2 DEF TypeInv, Threads
<1>7. PageTypeOK'
  <2>1. upsets' \in 0..MaxUpsets
    <3>1. PICK a \in {0, 1}, b \in {0, 1} : upsets' = upsets + a + b
      BY <1>1
    <3> QED
      BY <1>1, <3>1, RunPageAssumption DEF TypeInv, TypeOK, PageTypeOK
  <2>2. calm' \in BOOLEAN
    BY <1>1
  <2> QED
    BY <1>5, <2>1, <2>2 DEF HandleStart, TypeInv, TypeOK, PageTypeOK
<1>8. Source'
  BY <1>1 DEF HandleStart, StartWorker, TypeInv, Source
<1> QED
  BY <1>3, <1>5, <1>6, <1>7, <1>8 DEF TypeInv, TypeOK

LEMMA AnsweredType ==
  ASSUME TypeInv, NEW w \in Workers, StartAnswered(w) \/ StartRefused(w)
  PROVE  TypeInv'
<1>0. /\ worker \in [Workers -> Thread] /\ sse \in Sources /\ click \in [Workers -> ClickState]
      /\ StreamTypeOK /\ PageTypeOK
  BY Known DEF TypeInv, TypeOK
<1>1. click' = [click EXCEPT ![w] = "over"] /\ click[w] \in {"created", "refused"}
  BY DEF StartAnswered, StartRefused
<1>2. click' \in [Workers -> ClickState] /\ Counted' /\ Threads'
  BY <1>1, ClickGoesOn DEF ClickState, StartAnswered, StartRefused, streamVars
<1>3. Answered'
  BY <1>0, <1>1 DEF Answered
<1>4. StreamTypeOK'
  BY <1>0, LeaveType DEF StartAnswered, StartRefused, streamVars, StreamTypeOK
<1>5. PageTypeOK' /\ Source'
  <2>1. CASE StartRefused(w)
    BY <1>0, <1>2, <2>1 DEF StartRefused, PageTypeOK, Shown, TypeInv, Source, streamVars
  <2>2. CASE StartAnswered(w)
    <3>1. sse' \in Sources /\ current' \in Ids
      <4>1. worker[w].id \in Ids
        BY <2>2 DEF StartAnswered, TypeInv, Threads
      <4> QED
        BY <2>2, <4>1 DEF StartAnswered, Sources
    <3>2. sse'.id \in Ids /\ sse'.state = "connecting" /\ reader' = Missing
      BY <2>2, <3>1 DEF StartAnswered
    <3> QED
      BY <1>0, <1>2, <2>2, <3>1, <3>2 DEF StartAnswered, PageTypeOK, Sources, Source
  <2> QED
    BY <2>1, <2>2
<1> QED
  BY <1>2, <1>3, <1>4, <1>5 DEF TypeInv, TypeOK

LEMMA ConnectType ==
  ASSUME TypeInv, Connect
  PROVE  TypeInv'
<1>0. /\ sse \in Sources /\ StreamTypeOK /\ PageTypeOK /\ reader = Missing /\ sse.id \in Ids
      /\ runs \in [Ids -> Workers \cup {Missing}]
  BY Known DEF TypeInv, TypeOK, Source, Connect
<1>1. Counted' /\ Threads' /\ Answered'
  BY DEF Connect, TypeInv, Counted, Clicked, Threads, Answered
<1>2. CASE runs[sse.id] # Missing
  <2>1. sse' = [sse EXCEPT !.state = "open"] /\ reader' = runs[sse.id] /\ UNCHANGED <<running, indicator>>
    BY <1>2 DEF Connect
  <2>2. StreamTypeOK'
    BY <1>0, <1>2, <2>1 DEF Connect, StreamTypeOK
  <2>3. PageTypeOK' /\ Source'
    BY <1>0, <1>2, <2>1 DEF Connect, PageTypeOK, Source, Sources
  <2> QED
    BY <1>1, <2>2, <2>3 DEF TypeInv, TypeOK
<1>3. CASE runs[sse.id] = Missing
  <2>1. sse' = [sse EXCEPT !.state = "closed"] /\ UNCHANGED reader /\ ConnectionError
    BY <1>3 DEF Connect
  <2>2. running' \in BOOLEAN /\ indicator' \in Shown
    BY <2>1, Known DEF ConnectionError, Shown
  <2>3. StreamTypeOK'
    BY <1>0, <2>1 DEF Connect, StreamTypeOK
  <2>4. PageTypeOK' /\ Source'
    BY <1>0, <2>1, <2>2 DEF Connect, PageTypeOK, Source, Sources
  <2> QED
    BY <1>1, <2>3, <2>4 DEF TypeInv, TypeOK
<1> QED
  BY <1>2, <1>3

\* A line is not the end of a stream.
LEMMA LineOrEnd ==
  /\ \A w, n : Line(w, n) # Sentinel /\ Line(w, n) # Notice /\ Line(w, n).from = w /\ Line(w, n).n = n
  /\ Notice # Sentinel /\ \A item \in Lines : item # Sentinel
  /\ \A item \in Items : item # Sentinel => item \in Lines
<1>1. \A w, n : Line(w, n).kind = "line" /\ Line(w, n).from = w /\ Line(w, n).n = n
  BY DEF Line
<1>2. Sentinel.kind = "sentinel" /\ Notice.kind = "notice"
  BY DEF Sentinel, Notice
<1>3. \A w, n : Line(w, n) # Sentinel /\ Line(w, n) # Notice
  BY <1>1, <1>2
<1>4. Notice # Sentinel
  BY <1>2
<1>5. \A item \in Lines : item # Sentinel
  BY <1>3, <1>4 DEF Lines
<1> QED
  BY <1>1, <1>3, <1>4, <1>5 DEF Items

LEMMA ReceiveType ==
  ASSUME TypeInv, Receive
  PROVE  TypeInv'
<1>0. /\ sse \in Sources /\ StreamTypeOK /\ PageTypeOK /\ reader \in Workers /\ sse.id \in Ids
      /\ log \in Seq(Lines)
  BY Known DEF TypeInv, TypeOK, Source, Receive
<1>1. Counted' /\ Threads' /\ Answered'
  BY DEF Receive, TypeInv, Counted, Clicked, Threads, Answered
<1>2. PICK item \in NextItems(reader) :
        IF item = Sentinel
        THEN /\ sse' = [sse EXCEPT !.state = "closed", !.done = TRUE]
             /\ running' = FALSE /\ indicator' = Verdict(rcode[reader])
             /\ asks' = asks \cup {sse.id}
             /\ reader' = Missing
             /\ UNCHANGED log
        ELSE log' = Append(log, item) /\ UNCHANGED <<sse, running, indicator, asks, reader>>
  BY DEF Receive
<1>3. item \in Items /\ Taken(reader) \in [Workers -> Seq(Items)]
  BY <1>0, TakenType
<1>4. CASE item = Sentinel
  <2>1. Verdict(rcode[reader]) \in Shown
    BY DEF Verdict, Shown
  <2>2. StreamTypeOK'
    BY <1>0, <1>2, <1>3, <1>4 DEF Receive, StreamTypeOK, Items
  <2>3. PageTypeOK' /\ Source'
    BY <1>0, <1>2, <1>4, <2>1 DEF Receive, PageTypeOK, Source, Sources
  <2> QED
    BY <1>1, <2>2, <2>3 DEF TypeInv, TypeOK
<1>5. CASE item # Sentinel
  <2>1. item \in Lines
    BY <1>3, <1>5, LineOrEnd
  <2>2. log' \in Seq(Lines)
    <3>1. log' = Append(log, item)
      BY <1>2, <1>5
    <3> QED
      BY <1>0, <2>1, <3>1
  <2>3. StreamTypeOK'
    BY <1>0, <1>2, <1>3, <1>5 DEF Receive, StreamTypeOK, Items
  <2>4. PageTypeOK' /\ Source'
    BY <1>0, <1>2, <1>5, <2>2 DEF Receive, PageTypeOK, TypeInv, Source
  <2> QED
    BY <1>1, <2>3, <2>4 DEF TypeInv, TypeOK
<1> QED
  BY <1>4, <1>5

LEMMA UpsetType ==
  ASSUME TypeInv, NEW upset, MayHappen(upset), upsets' = upsets + 1
  PROVE  upsets' \in 0..MaxUpsets
BY RunPageAssumption DEF TypeInv, TypeOK, PageTypeOK, MayHappen

LEMMA DropType ==
  ASSUME TypeInv, Drop
  PROVE  TypeInv'
<1>0. sse \in Sources /\ StreamTypeOK /\ PageTypeOK /\ sse.id \in Ids
  BY Known DEF TypeInv, TypeOK, Source, Drop
<1>1. Counted' /\ Threads' /\ Answered'
  BY DEF Drop, TypeInv, Counted, Clicked, Threads, Answered
<1>2. running' \in BOOLEAN /\ indicator' \in Shown
  BY Known DEF Drop, ConnectionError, Shown
<1>3. StreamTypeOK'
  BY <1>0, LeaveType DEF Drop, StreamTypeOK
<1>4. sse' = [sse EXCEPT !.state = "connecting"] /\ reader' = Missing /\ upsets' \in 0..MaxUpsets
  BY UpsetType DEF Drop
<1>5. PageTypeOK' /\ Source'
  BY <1>0, <1>2, <1>4 DEF Drop, PageTypeOK, Source, Sources
<1> QED
  BY <1>1, <1>3, <1>5 DEF TypeInv, TypeOK

LEMMA RestartType ==
  ASSUME TypeInv, Restart
  PROVE  TypeInv'
<1>0. /\ sse \in Sources /\ StreamTypeOK /\ PageTypeOK /\ click \in [Workers -> ClickState]
      /\ worker \in [Workers -> Thread]
  BY Known DEF TypeInv, TypeOK
<1>1. click' = [w \in Workers |-> IF click[w] \in {"sent", "created"} THEN "refused" ELSE click[w]]
  BY DEF Restart
<1>2. Counted'
  <2>1. Clicked' = Clicked
    BY <1>0, <1>1 DEF Clicked
  <2> QED
    BY <2>1 DEF TypeInv, Counted
<1>3. Threads'
  <2>1. \A w \in Workers : worker'[w].id = worker[w].id
    BY <1>0 DEF Restart, LoseServer, Thread
  <2>2. latest' = latest /\ latest \in Workers \cup {Missing}
    BY Known DEF Restart, LoseServer
  <2> QED
    BY <1>1, <2>1, <2>2 DEF TypeInv, Threads
<1>4. Answered'
  BY <1>0, <1>1 DEF Restart, TypeInv, Answered
<1>5. StreamTypeOK'
  BY <1>0, LoseType DEF Restart
<1>6. running' \in BOOLEAN /\ indicator' \in Shown /\ upsets' \in 0..MaxUpsets
  BY Known, UpsetType DEF Restart, ConnectionError, Shown
<1>7. click' \in [Workers -> ClickState]
  BY <1>0, <1>1 DEF ClickState
<1>8. PageTypeOK' /\ Source'
  <2>1. CASE sse.state = "open"
    <3>1. sse' = [sse EXCEPT !.state = "connecting"] /\ reader' = Missing
      BY <2>1 DEF Restart, LoseServer
    <3> QED
      BY <1>0, <1>6, <1>7, <2>1, <3>1 DEF Restart, PageTypeOK, TypeInv, Source, Sources
  <2>2. CASE sse.state # "open"
    <3>1. sse' = sse /\ reader' = Missing
      BY <2>2 DEF Restart, LoseServer
    <3> QED
      BY <1>0, <1>6, <1>7, <2>2, <3>1 DEF Restart, PageTypeOK, TypeInv, Source, Sources
  <2> QED
    BY <2>1, <2>2
<1> QED
  BY <1>2, <1>3, <1>4, <1>5, <1>8 DEF TypeInv, TypeOK

LEMMA UserType ==
  ASSUME TypeInv,
         \/ ClickCancel \/ InventoryAsked
         \/ \E id \in Ids : ResultAnswered(id) \/ \E start \in Workers : CancelArrives(id, start)
  PROVE  TypeInv'
<1>0. StreamTypeOK /\ PageTypeOK /\ worker \in [Workers -> Thread]
  BY Known DEF TypeInv, TypeOK
<1>1. CASE ClickCancel
  <2>1. cancels' \subseteq Ids \X Workers
    <3>1. CASE current = Missing
      BY <1>0, <1>1, <3>1 DEF ClickCancel, PageTypeOK
    <3>2. CASE current # Missing
      <4>1. PICK w \in Workers : click[w] = "over"
        BY <3>2 DEF TypeInv, Answered
      <4>2. LastSent \in Workers
        BY <4>1, LastOut DEF Outgone
      <4> QED
        BY <1>0, <1>1, <3>2, <4>2, Known DEF ClickCancel, PageTypeOK
    <3> QED
      BY <3>1, <3>2
  <2>2. upsets' \in 0..MaxUpsets
    BY <1>1, UpsetType DEF ClickCancel
  <2>3. StreamTypeOK' /\ PageTypeOK'
    BY <1>0, <1>1, <2>1, <2>2, StreamStays DEF ClickCancel, PageTypeOK
  <2> QED
    BY <1>1, <2>3
    DEF ClickCancel, TypeInv, TypeOK, Counted, Clicked, Threads, Source, Answered, streamVars
<1>2. ASSUME NEW id \in Ids, ResultAnswered(id) PROVE TypeInv'
  <2>1. shown' \in Workers \cup {Missing} /\ asks' \subseteq Ids
    BY <1>0, <1>2 DEF ResultAnswered, StreamTypeOK, PageTypeOK
  <2>2. StreamTypeOK' /\ PageTypeOK'
    BY <1>0, <1>2, <2>1, StreamStays DEF ResultAnswered, PageTypeOK
  <2> QED
    BY <1>2, <2>2
    DEF ResultAnswered, TypeInv, TypeOK, Counted, Clicked, Threads, Source, Answered, streamVars
<1>3. ASSUME NEW id \in Ids, NEW start \in Workers, CancelArrives(id, start) PROVE TypeInv'
  <2>1. StreamTypeOK'
    BY <1>0, <1>3, CancelType DEF CancelArrives
  <2>2. PageTypeOK'
    BY <1>0, <1>3 DEF CancelArrives, PageTypeOK
  <2>3. \A w \in Workers : worker'[w].id = worker[w].id
    BY <1>0, <1>3 DEF CancelArrives, CancelAtServer, Thread
  <2>4. latest' = latest /\ latest \in Workers \cup {Missing} /\ click' = click
    BY <1>3, Known DEF CancelArrives, CancelAtServer
  <2>5. Threads'
    BY <2>3, <2>4 DEF TypeInv, Threads
  <2> QED
    BY <1>3, <2>1, <2>2, <2>5
    DEF CancelArrives, CancelAtServer, TypeInv, TypeOK, Counted, Clicked, Source, Answered
<1>4. CASE InventoryAsked
  <2>1. StreamTypeOK' /\ upsets' \in 0..MaxUpsets
    BY <1>0, <1>4, LogType, UpsetType DEF InventoryAsked
  <2>2. PageTypeOK'
    BY <1>0, <1>4, <2>1 DEF InventoryAsked, PageTypeOK
  <2> QED
    BY <1>4, <2>1, <2>2
    DEF InventoryAsked, LogAtServer, TypeInv, TypeOK, Counted, Clicked, Threads, Source, Answered
<1> QED
  BY <1>1, <1>2, <1>3, <1>4

LEMMA MovesType ==
  ASSUME TypeInv, NEW w \in Workers, WorkerMoves(w) \/ GhostMoves(w)
  PROVE  TypeInv'
<1>0. StreamTypeOK /\ PageTypeOK /\ worker \in [Workers -> Thread]
  BY Known DEF TypeInv, TypeOK
<1>1. StreamTypeOK'
  BY <1>0, WorkerType, GhostType DEF WorkerMoves, GhostMoves
<1>2. PageTypeOK'
  BY <1>0 DEF WorkerMoves, GhostMoves, pageVars, PageTypeOK
<1>3. UNCHANGED <<latest, reader>> /\ \A v \in Workers : worker'[v].id = worker[v].id
  <2>1. CASE WorkerMoves(w)
    <3>1. CASE WriteLine(w)
      BY <1>0, <3>1 DEF WriteLine, Thread
    <3>2. CASE EndWork(w)
      <4>1. worker' = [worker EXCEPT ![w].pc = "coded"] /\ UNCHANGED <<latest, reader>>
        BY <3>2 DEF EndWork
      <4> QED
        BY <1>0, <4>1 DEF Thread
    <3>3. CASE PutSentinel(w)
      BY <1>0, <3>3 DEF PutSentinel, Thread
    <3> QED
      BY <2>1, <3>1, <3>2, <3>3 DEF WorkerMoves, WorkerStep
  <2>2. CASE GhostMoves(w)
    BY <2>2 DEF GhostMoves, GhostTakes
  <2> QED
    BY <2>1, <2>2
<1>4. latest \in Workers \cup {Missing}
  BY Known
<1> QED
  BY <1>1, <1>2, <1>3, <1>4
  DEF WorkerMoves, GhostMoves, pageVars, TypeInv, TypeOK, Counted, Clicked, Threads, Source, Answered

LEMMA NextType == TypeInv /\ [Next]_vars => TypeInv'
<1> SUFFICES ASSUME TypeInv, [Next]_vars PROVE TypeInv'
  OBVIOUS
<1>1. CASE UNCHANGED vars
  BY <1>1, StreamStays
  DEF vars, pageVars, streamVars, TypeInv, TypeOK, PageTypeOK, Counted, Clicked, Threads, Source, Answered
<1>2. CASE Next
  BY <1>2, ClickType, ResumeType, HandleType, AnsweredType, ConnectType, ReceiveType, DropType, RestartType,
     UserType, MovesType DEF Next, ClickMoves, SourceMoves
<1> QED
  BY <1>1, <1>2

\* The threads, records and queues of the server and the state of the page are well
\* formed, whatever breaks and restarts (routes_run.py, run-test.component.ts).
THEOREM RunPageTyped == Spec => []TypeOK
<1>1. TypeInv => TypeOK
  BY DEF TypeInv
<1> QED
  BY <1>1, InitType, NextType, PTL DEF Spec
-----------------------------------------------------------------------------
(***************************************************************************)
(* The undisturbed page.  One run at most is live: its start is made and   *)
(* not answered yet, or its stream is open.  What the page has of its      *)
(* lines and what is still in its queue are together what it has written,  *)
(* and a run that is not live is not at work.                              *)
(***************************************************************************)

Started == {"active", "coded", "ended"}

\* A run has its own id, and everything under this id is its.
Own(w) ==
  /\ worker[w].pc # "lost" /\ ghosts[w] = 0
  /\ worker[w].pc = "none" => runs[w] = Missing /\ worker[w].lines = 0 /\ queue[w] = <<>>
  /\ worker[w].pc # "none" => worker[w].id = w /\ runs[w] = w
  /\ rcode[w] # Missing <=> worker[w].pc \in {"coded", "ended"}
  /\ rcode[w] # Missing => stored[w] = w
  /\ worker[w].cancel \in {w, Missing}

\* How far a start has come is how far its worker has.
InStep(w) ==
  /\ click[w] \in {"none", "waiting", "sent"} => worker[w].pc = "none"
  /\ click[w] = "created" => worker[w].pc \in Started
  /\ click[w] = "refused" => worker[w].pc = "refused"

\* A start that is not over is the last one, and nothing else is under way.
Newest(w) ==
  /\ asks = {} /\ sse.state = "closed"
  /\ \A v \in Clicked : v <= w
  /\ click[w] = "waiting" => ~running
  /\ click[w] # "waiting" => running /\ indicator = "running" /\ shown = Missing
  /\ click[w] = "sent" => log = <<>>

\* The items tell what run w has written so far, k lines: each once and in order, between
\* them only what the server has logged besides, and the sentinel, if at all, at their end.
Tells(items, w, k, ended) ==
  /\ \A n \in 1..k : \E i \in 1..Len(items) : items[i] = Line(w, n)
  /\ \A i \in 1..Len(items) :
       items[i] \in {Notice, Sentinel} \/ \E n \in 1..k : items[i] = Line(w, n)
  /\ \A i \in 1..Len(items) : items[i] = Sentinel => ended /\ i = Len(items)
  /\ \A i, j \in 1..Len(items) :
       i < j /\ {items[i], items[j]} \cap {Notice, Sentinel} = {} => items[i].n < items[j].n

Transcript(w) == Tells(log \o queue[w], w, worker[w].lines, worker[w].pc = "ended")

\* What LogIsComplete asks of the lines the page has.
Told(lines, w, k) ==
  /\ \A n \in 1..k : \E i \in DOMAIN lines : lines[i] = Line(w, n)
  /\ \A i \in DOMAIN lines : lines[i] = Notice \/ lines[i].from = w
  /\ \A i, j \in DOMAIN lines :
       i < j /\ Notice \notin {lines[i], lines[j]} => lines[i].n < lines[j].n

Live(w) == click[w] = "created" \/ (sse.state # "closed" /\ sse.id = w)

Watched(w) == /\ worker[w].pc = "active" => Live(w)
              /\ Live(w) => worker[w].pc \in Started /\ Transcript(w)

\* An open stream is that of the start that went out last.
Followed ==
  sse.state # "closed" =>
    /\ running /\ indicator = "running" /\ shown = Missing
    /\ sse.id = current /\ asks = {} /\ Pending = {}
    /\ \A v \in Outgone : v <= current
    /\ sse.state = "open" => reader = current

\* So are a verdict and the result that is asked for.
Held   == current # Missing => click[current] = "over" /\ worker[current].pc \in Started
Asked  == asks # {} => /\ asks = {current} /\ Pending = {} /\ rcode[current] # Missing
                       /\ \A v \in Outgone : v <= current
Judged == indicator \in {"pass", "fail"} =>
            /\ ~running /\ current # Missing /\ rcode[current] # Missing
            /\ \A v \in Outgone : v <= current
            /\ indicator = "pass" <=> rcode[current] = 0
            /\ asks = {} => shown = current
            /\ Told(log, current, worker[current].lines)

\* A cancel that is out is for the run it was pressed for, or comes too late for its run.
Meant == \A c \in cancels : worker[c[1]].pc \in Started /\ (c[1] = c[2] \/ rcode[c[1]] # Missing)

RunsCalm  == \A w \in Workers : Own(w) /\ InStep(w) /\ Watched(w)
PageCalm  == (\A w \in Pending : Newest(w)) /\ Followed /\ Held /\ Asked /\ Judged
Calmly    == RunsCalm /\ PageCalm /\ Meant
CalmInv   == calm => Calmly

\* What the lemmas below keep needing: one start is pending, one run is live, one at work.
LEMMA OnlyOne ==
  ASSUME TypeInv, Calmly
  PROVE  /\ \A v, w \in Pending : v = w
         /\ \A v, w \in Workers : Live(v) /\ Live(w) => v = w
         /\ \A v, w \in Active : v = w
         /\ \A w \in Active : Live(w) /\ running
<1>1. \A v, w \in Pending : v = w
  <2> SUFFICES ASSUME NEW v \in Pending, NEW w \in Pending PROVE v = w
    OBVIOUS
  <2>1. v \in Clicked /\ w \in Clicked /\ v \in Workers /\ w \in Workers
    BY DEF Pending, Clicked
  <2>2. v <= w /\ w <= v
    BY <2>1 DEF Calmly, PageCalm, Newest
  <2>3. v \in Nat /\ w \in Nat
    BY <2>1, Numbers
  <2> QED
    BY <2>2, <2>3
<1>2. \A v, w \in Workers : Live(v) /\ Live(w) => v = w
  <2> SUFFICES ASSUME NEW v \in Workers, NEW w \in Workers, Live(v), Live(w) PROVE v = w
    OBVIOUS
  <2>1. CASE sse.state = "closed"
    <3>1. v \in Pending /\ w \in Pending
      BY <2>1 DEF Live, Pending
    <3> QED
      BY <1>1, <3>1
  <2>2. CASE sse.state # "closed"
    <3>1. Pending = {}
      BY <2>2 DEF Calmly, PageCalm, Followed
    <3> QED
      BY <2>2, <3>1 DEF Live, Pending
  <2> QED
    BY <2>1, <2>2
<1>3. \A w \in Active : Live(w)
  BY DEF Active, Calmly, RunsCalm, Watched
<1>4. \A w \in Active : running
  <2> SUFFICES ASSUME NEW w \in Active PROVE running
    OBVIOUS
  <2>1. w \in Workers /\ Live(w)
    BY <1>3 DEF Active
  <2>2. CASE click[w] = "created"
    BY <2>1, <2>2 DEF Pending, Calmly, PageCalm, Newest
  <2>3. CASE sse.state # "closed"
    BY <2>3 DEF Calmly, PageCalm, Followed
  <2> QED
    BY <2>1, <2>2, <2>3 DEF Live
<1> QED
  BY <1>1, <1>2, <1>3, <1>4 DEF Active
-----------------------------------------------------------------------------
(* Lines                                                                   *)

\* What comes after what is there.
LEMMA Appended ==
  ASSUME NEW items \in Seq(Items), NEW x \in Items
  PROVE  /\ Append(items, x) \in Seq(Items) /\ Len(items) \in Nat
         /\ Len(Append(items, x)) = Len(items) + 1
         /\ Append(items, x)[Len(items) + 1] = x
         /\ \A i \in 1..Len(items) : Append(items, x)[i] = items[i]
OBVIOUS

\* One more line, or one of the server between them, or the end.
LEMMA OneMore ==
  ASSUME NEW w \in Workers, NEW k \in Nat, NEW ended \in BOOLEAN,
         NEW items \in Seq(Items), Tells(items, w, k, FALSE),
         NEW x \in Items, NEW m \in Nat,
         \/ x = Line(w, k + 1) /\ m = k + 1 /\ ~ended
         \/ x = Notice /\ m = k /\ ~ended
         \/ x = Sentinel /\ m = k /\ ended
  PROVE  Tells(Append(items, x), w, m, ended)
<1> DEFINE more == Append(items, x)
           n == Len(items)
<1>1. /\ n \in Nat /\ Len(more) = n + 1 /\ more[n + 1] = x
      /\ \A i \in 1..n : more[i] = items[i]
  BY Appended
<1>2. /\ \A l \in 1..k : \E i \in 1..n : items[i] = Line(w, l)
      /\ \A i \in 1..n : items[i] = Notice \/ \E l \in 1..k : items[i] = Line(w, l)
      /\ \A i, j \in 1..n : i < j /\ Notice \notin {items[i], items[j]} => items[i].n < items[j].n
  <2>1. \A i \in 1..n : items[i] # Sentinel
    BY DEF Tells
  <2> QED
    BY <2>1 DEF Tells
<1> HIDE DEF more, n
<1>3. \A l \in 1..m : \E i \in 1..n + 1 : more[i] = Line(w, l)
  <2> SUFFICES ASSUME NEW l \in 1..m PROVE \E i \in 1..n + 1 : more[i] = Line(w, l)
    OBVIOUS
  <2>1. CASE l \in 1..k
    <3>1. PICK i \in 1..n : items[i] = Line(w, l)
      BY <1>2, <2>1
    <3>2. i \in 1..n + 1 /\ more[i] = Line(w, l)
      BY <1>1, <3>1
    <3> QED
      BY <3>2
  <2>2. CASE l \notin 1..k
    <3>1. l = k + 1 /\ x = Line(w, k + 1)
      BY <2>2
    <3>2. n + 1 \in 1..n + 1
      BY <1>1
    <3> QED
      BY <1>1, <3>1, <3>2
  <2> QED
    BY <2>1, <2>2
<1>4. \A i \in 1..n + 1 :
        more[i] \in {Notice, Sentinel} \/ \E l \in 1..m : more[i] = Line(w, l)
  <2> SUFFICES ASSUME NEW i \in 1..n + 1
               PROVE  more[i] \in {Notice, Sentinel} \/ \E l \in 1..m : more[i] = Line(w, l)
    OBVIOUS
  <2>1. CASE i \in 1..n
    <3>1. \A l \in 1..k : l \in 1..m
      OBVIOUS
    <3> QED
      BY <1>1, <1>2, <2>1, <3>1
  <2>2. CASE i = n + 1
    <3>1. m = k + 1 => k + 1 \in 1..m
      OBVIOUS
    <3> QED
      BY <1>1, <2>2, <3>1
  <2> QED
    BY <1>1, <2>1, <2>2
<1>5. \A i \in 1..n + 1 : more[i] = Sentinel => ended /\ i = n + 1
  <2> SUFFICES ASSUME NEW i \in 1..n + 1, more[i] = Sentinel PROVE ended /\ i = n + 1
    OBVIOUS
  <2>1. i \notin 1..n
    BY <1>1, <1>2, LineOrEnd
  <2>2. i = n + 1
    BY <1>1, <2>1
  <2> QED
    BY <1>1, <2>2, LineOrEnd
<1>6. ASSUME NEW i \in 1..n + 1, NEW j \in 1..n + 1, i < j,
             {more[i], more[j]} \cap {Notice, Sentinel} = {}
      PROVE  more[i].n < more[j].n
  <2>0. more[i] # Notice /\ more[j] # Notice
    BY <1>6
  <2>1. i \in 1..n /\ more[i] = items[i] /\ items[i] # Notice
    <3>1. i \in 1..n
      BY <1>1, <1>6
    <3> QED
      BY <1>1, <2>0, <3>1
  <2>2. CASE j \in 1..n
    <3>1. more[j] = items[j] /\ items[j] # Notice
      BY <1>1, <2>0, <2>2
    <3> QED
      BY <1>2, <1>6, <2>1, <2>2, <3>1
  <2>3. CASE j = n + 1
    <3>1. x = Line(w, k + 1)
      BY <1>1, <1>6, <2>3
    <3>2. PICK l \in 1..k : items[i] = Line(w, l)
      BY <1>2, <2>1
    <3>3. more[i].n = l /\ more[j].n = k + 1
      BY <1>1, <2>1, <2>3, <3>1, <3>2, LineOrEnd
    <3> QED
      BY <3>3
  <2> QED
    BY <1>1, <2>2, <2>3
<1> QED
  BY <1>1, <1>3, <1>4, <1>5, <1>6 DEF Tells, more

\* A queue's items come after those in the log.
LEMMA AfterLog ==
  ASSUME TypeInv, NEW w \in Workers, NEW x \in Items
  PROVE  /\ log \o Append(queue[w], x) = Append(log \o queue[w], x)
         /\ log \o queue[w] \in Seq(Items)
<1>1. log \in Seq(Items) /\ queue[w] \in Seq(Items)
  BY Known, SeqMonotonic, Zenon DEF Items
<1> DEFINE q == queue[w]
           t == <<x>>
<1>2. q \in Seq(Items)
  BY <1>1
<1>3. t \in Seq(Items)
  OBVIOUS
<1>4. log \o q \in Seq(Items)
  BY <1>1, <1>2, ConcatProperties
<1> HIDE DEF q
<1>5. Append(q, x) = q \o t /\ Append(log \o q, x) = (log \o q) \o t
  BY <1>2, <1>4
<1> HIDE DEF t
<1>6. (log \o q) \o t = log \o (q \o t)
  BY <1>1, <1>2, <1>3, ConcatAssociative
<1> QED
  BY <1>4, <1>5, <1>6 DEF q

\* Each line that is logged while a live run is at work is in its queue after those before:
\* its own and the server's.
LEMMA LineWritten ==
  ASSUME TypeInv, NEW w \in Workers, Transcript(w), worker[w].pc = "active", log' = log,
         worker'[w].pc = "active",
         \/ /\ queue'[w] = Append(queue[w], Line(w, worker[w].lines + 1))
            /\ worker[w].lines < MaxLines /\ worker'[w].lines = worker[w].lines + 1
         \/ /\ queue'[w] = Append(queue[w], Notice)
            /\ worker'[w].lines = worker[w].lines
  PROVE  Transcript(w)'
<1> DEFINE k == worker[w].lines
           line == Line(w, k + 1)
<1>1. k \in Nat /\ StreamTypeOK
  BY Known DEF Thread, TypeInv, TypeOK
<1>2. worker[w].lines < MaxLines => line \in Items
  BY <1>1, Written
<1>3. Notice \in Items
  BY DEF Items, Lines
<1>4. Tells(log \o queue[w], w, k, FALSE)
  BY DEF Transcript
<1>5. PICK x \in Items, m \in Nat :
        /\ queue'[w] = Append(queue[w], x) /\ worker'[w].lines = m
        /\ (x = Line(w, k + 1) /\ m = k + 1) \/ (x = Notice /\ m = k)
  <2> HIDE DEF line
  <2>1. k + 1 \in Nat
    BY <1>1
  <2>2. CASE queue'[w] = Append(queue[w], line) /\ k < MaxLines /\ worker'[w].lines = k + 1
    BY <1>2, <2>1, <2>2 DEF line
  <2>3. CASE queue'[w] = Append(queue[w], Notice) /\ worker'[w].lines = k
    BY <1>1, <1>3, <2>3
  <2> QED
    BY <2>2, <2>3 DEF line
<1> HIDE DEF k, line
<1>6. Tells(Append(log \o queue[w], x), w, m, FALSE)
  BY <1>1, <1>4, <1>5, AfterLog, OneMore
<1>7. log' \o queue'[w] = Append(log \o queue[w], x)
  BY <1>5, AfterLog
<1> QED
  BY <1>5, <1>6, <1>7 DEF Transcript

\* The sentinel comes after all lines.
LEMMA SentinelPut ==
  ASSUME TypeInv, NEW w \in Workers, Transcript(w), PutSentinel(w), log' = log
  PROVE  Transcript(w)'
<1> DEFINE k == worker[w].lines
<1>1. worker \in [Workers -> Thread] /\ queue \in [Workers -> Seq(Items)] /\ Sentinel \in Items
  BY Known DEF Items
<1>2. /\ worker'[w].lines = k /\ worker'[w].pc = "ended" /\ worker[w].pc = "coded"
      /\ queue'[w] = Append(queue[w], Sentinel) /\ k \in Nat
  BY <1>1 DEF PutSentinel, Thread
<1>3. Tells(log \o queue[w], w, k, FALSE)
  BY <1>2 DEF Transcript
<1> HIDE DEF k
<1>4. Tells(Append(log \o queue[w], Sentinel), w, k, TRUE)
  BY <1>1, <1>2, <1>3, AfterLog, OneMore
<1>5. log' \o queue'[w] = Append(log \o queue[w], Sentinel)
  BY <1>1, <1>2, AfterLog
<1> QED
  BY <1>2, <1>4, <1>5 DEF Transcript, k

\* A line that is received moves from the queue to the log.
LEMMA LineReceived ==
  ASSUME TypeInv, NEW w \in Workers, Transcript(w), queue[w] # <<>>, Head(queue[w]) # Sentinel,
         log' = Append(log, Head(queue[w])), queue'[w] = Tail(queue[w]), worker' = worker
  PROVE  Transcript(w)'
<1> DEFINE q == queue[w]
           t == <<Head(q)>>
<1>1. log \in Seq(Items) /\ q \in Seq(Items) /\ q # <<>>
  BY Known, SeqMonotonic, Zenon DEF Items
<1>2. queue'[w] = Tail(q) /\ log' = Append(log, Head(q))
  OBVIOUS
<1>3. Transcript(w)' <=> Tells(log' \o Tail(q), w, worker[w].lines, worker[w].pc = "ended")
  BY <1>2 DEF Transcript
<1>4. Tells(log \o q, w, worker[w].lines, worker[w].pc = "ended")
  BY DEF Transcript
<1> HIDE DEF q
<1>5. Head(q) \in Items /\ Tail(q) \in Seq(Items)
  BY <1>1, HeadTailProperties
<1>6. t \in Seq(Items) /\ log' = log \o t /\ t \o Tail(q) = q
  <2>1. t \in Seq(Items) /\ log' = log \o t
    BY <1>1, <1>2, <1>5
  <2>2. Len(t) = 1 /\ t[1] = Head(q) /\ Len(q) \in Nat /\ Len(q) >= 1 /\ Head(q) = q[1]
    BY <1>1
  <2>3. Len(Tail(q)) = Len(q) - 1 /\ \A i \in 1..Len(q) - 1 : Tail(q)[i] = q[i + 1]
    BY <1>1, HeadTailProperties
  <2> HIDE DEF t
  <2>4. /\ t \o Tail(q) \in Seq(Items) /\ Len(t \o Tail(q)) = Len(q)
        /\ \A i \in 1..Len(q) : (t \o Tail(q))[i] = IF i <= 1 THEN t[i] ELSE Tail(q)[i - 1]
    <3>1. /\ t \o Tail(q) \in Seq(Items) /\ Len(t \o Tail(q)) = Len(t) + Len(Tail(q))
          /\ \A i \in 1..Len(t) + Len(Tail(q)) :
               (t \o Tail(q))[i] = IF i <= Len(t) THEN t[i] ELSE Tail(q)[i - Len(t)]
      BY <1>5, <2>1, ConcatProperties
    <3>2. Len(t) + Len(Tail(q)) = Len(q)
      BY <2>2, <2>3
    <3> QED
      BY <2>2, <3>1, <3>2
  <2>5. \A i \in 1..Len(q) : (t \o Tail(q))[i] = q[i]
    <3> SUFFICES ASSUME NEW i \in 1..Len(q) PROVE (t \o Tail(q))[i] = q[i]
      OBVIOUS
    <3>1. CASE i = 1
      BY <2>2, <2>4, <3>1
    <3>2. CASE i # 1
      <4>1. i - 1 \in 1..Len(q) - 1 /\ ~(i <= 1) /\ (i - 1) + 1 = i
        BY <2>2, <3>2
      <4> QED
        BY <2>3, <2>4, <4>1
    <3> QED
      BY <3>1, <3>2
  <2>6. t \o Tail(q) = q
    BY <1>1, <2>4, <2>5, SeqEqual
  <2> QED
    BY <2>1, <2>6
<1> HIDE DEF t
<1>7. (log \o t) \o Tail(q) = log \o (t \o Tail(q))
  <2> DEFINE rest == Tail(q)
  <2>1. log \in Seq(Items) /\ t \in Seq(Items) /\ rest \in Seq(Items)
    BY <1>1, <1>5, <1>6
  <2> HIDE DEF rest
  <2>2. (log \o t) \o rest = log \o (t \o rest)
    BY <2>1, ConcatAssociative
  <2> QED
    BY <2>2 DEF rest
<1> QED
  BY <1>3, <1>4, <1>6, <1>7

\* At the end of a live run's stream the page has all its lines, and it has a return code.
LEMMA AllReceived ==
  ASSUME TypeInv, NEW w \in Workers, Transcript(w), Own(w), Sentinel \in NextItems(w)
  PROVE  Told(log, w, worker[w].lines) /\ rcode[w] # Missing
<1> DEFINE k == worker[w].lines
           n == Len(log)
           q == queue[w]
<1>0. log \in Seq(Items) /\ log \in Seq(Lines) /\ q \in Seq(Items) /\ n \in Nat /\ k \in Nat
  <2>1. log \in Seq(Lines) /\ queue[w] \in Seq(Items) /\ worker[w].lines \in 0..MaxLines
    BY Known DEF Thread
  <2> QED
    BY <2>1, SeqMonotonic, RunStreamAssumption DEF Items
<1>1. Tells(log \o q, w, k, worker[w].pc = "ended")
  BY DEF Transcript
<1>2. (q = <<>> /\ rcode[w] # Missing) \/ (q # <<>> /\ Head(q) = Sentinel)
  <2>1. NextItems(w) = (IF q # <<>> THEN {Head(q)} ELSE IF rcode[w] # Missing THEN {Sentinel} ELSE {})
    BY DEF NextItems
  <2> QED
    BY <2>1
<1> HIDE DEF k, q, n
<1>3. /\ Len(log \o q) = n + Len(q) /\ Len(q) \in Nat
      /\ \A i \in 1..n + Len(q) : (log \o q)[i] = IF i <= n THEN log[i] ELSE q[i - n]
  BY <1>0, ConcatProperties DEF n
<1>4. /\ rcode[w] # Missing
      /\ \A i \in 1..n + Len(q) : i <= n \/ (log \o q)[i] = Sentinel
  <2>1. CASE q = <<>> /\ rcode[w] # Missing
    BY <1>0, <1>3, <2>1
  <2>2. CASE q # <<>> /\ Head(q) = Sentinel
    <3>1. Len(q) >= 1 /\ q[1] = Sentinel
      BY <1>0, <1>3, <2>2
    <3>2. n + 1 \in 1..n + Len(q) /\ (log \o q)[n + 1] = Sentinel
      BY <1>0, <1>3, <3>1
    <3>3. worker[w].pc = "ended" /\ n + 1 = n + Len(q)
      BY <1>1, <1>3, <3>2 DEF Tells
    <3>4. rcode[w] # Missing
      BY <3>3 DEF Own
    <3> QED
      BY <1>0, <1>3, <3>2, <3>3, <3>4
  <2> QED
    BY <1>2, <2>1, <2>2
<1>5. \A i \in 1..n : i \in 1..n + Len(q) /\ (log \o q)[i] = log[i]
  BY <1>0, <1>3
<1>6. \A i \in 1..n : log[i] # Sentinel
  <2>1. \A i \in 1..n : log[i] \in Lines
    BY <1>0 DEF n
  <2> QED
    BY <2>1, LineOrEnd
<1>7. \A l \in 1..k : \E i \in 1..n : log[i] = Line(w, l)
  <2> SUFFICES ASSUME NEW l \in 1..k PROVE \E i \in 1..n : log[i] = Line(w, l)
    OBVIOUS
  <2>1. PICK i \in 1..n + Len(q) : (log \o q)[i] = Line(w, l)
    BY <1>1, <1>3 DEF Tells
  <2>2. i <= n
    BY <1>4, <2>1, LineOrEnd
  <2>3. i \in 1..n
    BY <1>0, <1>3, <2>2
  <2> QED
    BY <1>5, <2>1, <2>3
<1>8. \A i \in 1..n : log[i] = Notice \/ log[i].from = w
  <2> SUFFICES ASSUME NEW i \in 1..n PROVE log[i] = Notice \/ log[i].from = w
    OBVIOUS
  <2>1. log[i] = Notice \/ \E l \in 1..k : log[i] = Line(w, l)
    BY <1>1, <1>3, <1>5, <1>6 DEF Tells
  <2> QED
    BY <2>1, LineOrEnd
<1>9. ASSUME NEW i \in 1..n, NEW j \in 1..n, i < j, Notice \notin {log[i], log[j]}
      PROVE  log[i].n < log[j].n
  <2>1. i \in 1..Len(log \o q) /\ j \in 1..Len(log \o q)
    BY <1>3, <1>5, <1>9
  <2>2. (log \o q)[i] = log[i] /\ (log \o q)[j] = log[j]
    BY <1>5, <1>9
  <2>3. {(log \o q)[i], (log \o q)[j]} \cap {Notice, Sentinel} = {}
    BY <1>6, <1>9, <2>2
  <2>4. (log \o q)[i].n < (log \o q)[j].n
    BY <1>1, <1>9, <2>1, <2>3 DEF Tells
  <2> QED
    BY <2>2, <2>4
<1>10. DOMAIN log = 1..n
  BY <1>0 DEF n
<1> QED
  BY <1>4, <1>7, <1>8, <1>9, <1>10 DEF Told, k
-----------------------------------------------------------------------------
(* Starts                                                                  *)

\* Nothing is live and nothing at work when nothing is shown as running.
LEMMA Quiet ==
  ASSUME TypeInv, Calmly, ~running
  PROVE  /\ sse.state = "closed" /\ Active = {}
         /\ \A w \in Workers : click[w] # "created" /\ ~Live(w)
<1>1. sse.state = "closed"
  BY DEF Calmly, PageCalm, Followed
<1>2. Active = {}
  BY OnlyOne
<1>3. \A w \in Workers : click[w] # "created"
  BY DEF Pending, Calmly, PageCalm, Newest
<1> QED
  BY <1>1, <1>2, <1>3 DEF Live

\* startRun up to its request, at once or after the await.
LEMMA GoesOut ==
  ASSUME TypeInv, Calmly, NEW w \in Workers, NEW to \in {"waiting", "over", "sent"}, ~running, asks = {},
         click' = [click EXCEPT ![w] = to], click[w] \in {"none", "waiting"},
         \A v \in Pending : v = w, \A v \in Clicked : v <= w,
         to = "waiting" => UNCHANGED <<running, indicator, log, shown>> /\ click[w] = "none",
         to = "over" => indicator' = "idle" /\ UNCHANGED <<running, log, shown>>,
         to = "sent" => running' = TRUE /\ indicator' = "running" /\ log' = <<>> /\ shown' = Missing,
         UNCHANGED <<current, sse, asks, cancels, streamVars>>
  PROVE  Calmly'
<1>0. /\ click \in [Workers -> ClickState] /\ sse.state = "closed"
      /\ \A v \in Workers : click[v] # "created" /\ ~Live(v)
      /\ Active = {}
  BY Known, Quiet
<1>1. \A v \in Workers : click'[v] = IF v = w THEN to ELSE click[v]
  BY <1>0
<1>2. Clicked' = Clicked \cup {w}
  BY <1>0, ClickedAfter DEF ClickState
<1>3. w <= w
  <2>1. w \in Nat
    BY Numbers
  <2> QED
    BY <2>1
<1>4. \A v \in Workers : ~Live(v)'
  BY <1>0, <1>1 DEF Live
<1>5. RunsCalm'
  <2> SUFFICES ASSUME NEW v \in Workers PROVE Own(v)' /\ InStep(v)' /\ Watched(v)'
    BY DEF RunsCalm
  <2>1. Own(v) /\ InStep(v)
    BY DEF Calmly, RunsCalm
  <2>2. Own(v)'
    BY <2>1 DEF Own, streamVars
  <2>3. InStep(v)'
    BY <1>1, <2>1 DEF InStep, streamVars
  <2>4. worker'[v].pc # "active"
    BY <1>0 DEF Active, streamVars
  <2> QED
    BY <1>4, <2>2, <2>3, <2>4 DEF Watched
<1>6. \A v \in Pending' : Newest(v)'
  <2> SUFFICES ASSUME NEW v \in Pending' PROVE Newest(v)'
    OBVIOUS
  <2>1. v = w /\ to # "over"
    BY <1>1 DEF Pending
  <2>2. \A u \in Clicked' : u <= w
    BY <1>2, <1>3
  <2> QED
    BY <1>0, <1>1, <2>1, <2>2 DEF Newest
<1>7. Followed'
  BY <1>0 DEF Followed
<1>8. Held'
  <2>1. current # Missing => click'[current] = click[current]
    BY <1>1, Known DEF Calmly, PageCalm, Held
  <2> QED
    BY <2>1 DEF Calmly, PageCalm, Held, streamVars
<1>9. Asked'
  BY DEF Asked
<1>10. Judged'
  <2>1. CASE to = "waiting"
    <3>1. Outgone' = Outgone
      BY <1>1, <2>1 DEF Outgone
    <3> QED
      BY <2>1, <3>1 DEF Calmly, PageCalm, Judged, streamVars
  <2>2. CASE to # "waiting"
    BY <2>2 DEF Judged
  <2> QED
    BY <2>1, <2>2
<1>11. Meant'
  BY DEF Calmly, Meant, streamVars
<1> QED
  BY <1>5, <1>6, <1>7, <1>8, <1>9, <1>10, <1>11 DEF Calmly, PageCalm

LEMMA ClickSteps ==
  ASSUME TypeInv, Calmly, calm', ClickStart \/ \E w \in Workers : Resume(w)
  PROVE  Calmly'
<1>1. CASE ClickStart
  <2> DEFINE n == Cardinality(Clicked) + 1
  <2>0. PICK w : w = n
    OBVIOUS
  <2>1. w \in Workers /\ click[w] = "none" /\ \A v \in Clicked : v < w
    BY <1>1, <2>0, NextNumber DEF ClickStart, TypeInv
  <2>2. \A v \in Clicked : v <= w
    <3>1. w \in Nat /\ \A v \in Clicked : v \in Nat
      BY <2>1, Numbers DEF Clicked
    <3> QED
      BY <2>1, <3>1
  <2>3. Pending = {} /\ asks = {} /\ ~running
    BY <1>1, Zenon DEF ClickStart
  <2>4. UNCHANGED <<current, sse, asks, cancels, streamVars>>
    BY <1>1 DEF ClickStart
  <2>5. \/ click' = [click EXCEPT ![w] = "waiting"] /\ UNCHANGED <<running, indicator, log, shown>>
        \/ Decline(w)
        \/ Send(w)
    BY <1>1, <2>0 DEF ClickStart
  <2> HIDE DEF n
  <2>6. PICK to \in {"waiting", "over", "sent"} :
          /\ click' = [click EXCEPT ![w] = to]
          /\ to = "waiting" => UNCHANGED <<running, indicator, log, shown>>
          /\ to = "over" => indicator' = "idle" /\ UNCHANGED <<running, log, shown>>
          /\ to = "sent" => running' = TRUE /\ indicator' = "running" /\ log' = <<>> /\ shown' = Missing
    BY <2>5 DEF Decline, Send
  <2> QED
    BY <2>1, <2>2, <2>3, <2>4, <2>6, GoesOut
<1>2. ASSUME NEW w \in Workers, Resume(w) PROVE Calmly'
  <2>1. w \in Pending /\ w \in Clicked /\ click[w] = "waiting"
    BY <1>2 DEF Resume, Pending, Clicked
  <2>2. ~running /\ asks = {} /\ \A v \in Clicked : v <= w
    BY <2>1 DEF Calmly, PageCalm, Newest
  <2>3. \A v \in Pending : v = w
    BY <2>1, OnlyOne
  <2>4. UNCHANGED <<current, sse, asks, cancels, streamVars>>
    BY <1>2 DEF Resume
  <2>5. PICK to \in {"over", "sent"} :
          /\ click' = [click EXCEPT ![w] = to]
          /\ to = "over" => indicator' = "idle" /\ UNCHANGED <<running, log, shown>>
          /\ to = "sent" => running' = TRUE /\ indicator' = "running" /\ log' = <<>> /\ shown' = Missing
    BY <1>2 DEF Resume, Decline, Send
  <2>6. to \in {"waiting", "over", "sent"} /\ to # "waiting"
    OBVIOUS
  <2> QED
    BY <2>1, <2>2, <2>3, <2>4, <2>5, <2>6, GoesOut
<1> QED
  BY <1>1, <1>2

\* What a pending start means.
LEMMA OfPending ==
  ASSUME TypeInv, Calmly, NEW w \in Pending
  PROVE  /\ w \in Workers /\ Newest(w) /\ sse.state = "closed" /\ reader = Missing /\ asks = {}
         /\ \A v \in Clicked : v <= w
         /\ \A v \in Pending : v = w
         /\ \A v \in Workers : Live(v) => v = w
         /\ current # Missing => current # w
<1>1. w \in Workers /\ Newest(w)
  BY DEF Pending, Calmly, PageCalm
<1>2. sse.state = "closed" /\ reader = Missing
  BY <1>1 DEF Newest, TypeInv, Source
<1>3. \A v \in Pending : v = w
  BY OnlyOne
<1>4. \A v \in Workers : Live(v) => v = w
  BY <1>2, <1>3 DEF Live, Pending
<1>5. current # Missing => current # w
  BY DEF Pending, Calmly, PageCalm, Held
<1> QED
  BY <1>1, <1>2, <1>3, <1>4, <1>5 DEF Newest

\* api_start_run.
LEMMA HandleSteps ==
  ASSUME TypeInv, Calmly, calm', NEW w \in Workers, HandleStart(w)
  PROVE  Calmly'
<1>0. /\ worker \in [Workers -> Thread] /\ click \in [Workers -> ClickState] /\ w \in Pending
      /\ runs \in [Ids -> Workers \cup {Missing}] /\ queue \in [Workers -> Seq(Items)]
      /\ click[w] = "sent"
  BY Known DEF HandleStart, Pending
<1>1. PICK refused \in BOOLEAN : /\ StartWorker(w, w, refused)
                                 /\ click' = [click EXCEPT ![w] = IF refused THEN "refused" ELSE "created"]
  BY Zenon DEF HandleStart
<1> DEFINE pc == IF refused THEN "refused" ELSE "active"
<1>2. /\ worker'[w].pc = pc /\ worker'[w].id = w /\ worker'[w].lines = worker[w].lines
      /\ worker'[w].cancel = worker[w].cancel
      /\ \A v \in Workers \ {w} : worker'[v] = worker[v]
  BY <1>0, <1>1 DEF StartWorker, Thread
<1>3. /\ runs'[w] = w /\ \A v \in Workers \ {w} : runs'[v] = runs[v]
      /\ UNCHANGED <<rcode, queue, stored, ghosts, reader>>
  BY <1>0, <1>1 DEF StartWorker, Ids
<1>4. /\ click'[w] = (IF refused THEN "refused" ELSE "created")
      /\ \A v \in Workers \ {w} : click'[v] = click[v]
  BY <1>0, <1>1
<1>5. UNCHANGED <<running, indicator, log, shown, current, sse, asks, cancels>>
  BY DEF HandleStart
<1>6. Own(w) /\ worker[w].pc = "none" /\ log = <<>> /\ running /\ indicator = "running" /\ shown = Missing
  <2>1. Own(w) /\ InStep(w) /\ Newest(w)
    BY <1>0 DEF Calmly, RunsCalm, PageCalm
  <2> QED
    BY <1>0, <2>1 DEF InStep, Newest
<1>7. \A v \in Workers : Live(v) => v = w
  BY <1>0, OfPending
<1>8. Transcript(w)'
  <2>1. worker'[w].lines = 0 /\ queue'[w] = <<>> /\ log' = <<>> /\ worker'[w].pc # "ended"
    BY <1>2, <1>3, <1>5, <1>6 DEF Own
  <2>2. log' \o queue'[w] = <<>>
    BY <2>1
  <2>3. Tells(<<>>, w, 0, FALSE)
    BY DEF Tells
  <2> QED
    BY <2>1, <2>2, <2>3 DEF Transcript
<1>9. RunsCalm'
  <2> SUFFICES ASSUME NEW v \in Workers PROVE Own(v)' /\ InStep(v)' /\ Watched(v)'
    BY DEF RunsCalm
  <2>1. CASE v = w
    <3>1. Own(w)'
      BY <1>2, <1>3, <1>6 DEF Own
    <3>2. InStep(w)'
      BY <1>2, <1>4 DEF InStep, Started
    <3>3. Watched(w)'
      BY <1>0, <1>2, <1>4, <1>5, <1>8, OfPending DEF Watched, Live, Started
    <3> QED
      BY <2>1, <3>1, <3>2, <3>3
  <2>2. CASE v # w
    <3>1. Own(v) /\ InStep(v) /\ Watched(v) /\ ~Live(v)
      BY <1>7, <2>2 DEF Calmly, RunsCalm
    <3>2. Own(v)' /\ InStep(v)'
      BY <1>2, <1>3, <1>4, <2>2, <3>1 DEF Own, InStep
    <3>3. Watched(v)'
      BY <1>2, <1>4, <1>5, <2>2, <3>1 DEF Watched, Live
    <3> QED
      BY <3>2, <3>3
  <2> QED
    BY <2>1, <2>2
<1>10. Pending' = Pending /\ Clicked' = Clicked /\ Outgone' = Outgone
  BY <1>0, <1>4 DEF Pending, Clicked, Outgone
<1>11. \A v \in Pending' : Newest(v)'
  <2> SUFFICES ASSUME NEW v \in Pending' PROVE Newest(v)'
    OBVIOUS
  <2>1. v = w /\ Newest(w)
    BY <1>0, <1>10, OfPending
  <2> QED
    BY <1>4, <1>5, <1>6, <1>10, <2>1 DEF Newest
<1>12. Followed' /\ Asked' /\ Judged'
  BY <1>0, <1>5, <1>6, OfPending DEF Followed, Asked, Judged
<1>13. Held'
  <2>1. current # Missing => current \in Workers \ {w}
    BY <1>0, OfPending, Known DEF Ids
  <2> QED
    BY <1>2, <1>4, <1>5, <2>1 DEF Calmly, PageCalm, Held
<1>14. Meant'
  <2> SUFFICES ASSUME NEW c \in cancels
               PROVE  worker'[c[1]].pc \in Started /\ (c[1] = c[2] \/ rcode[c[1]] # Missing)
    BY <1>3, <1>5 DEF Meant
  <2>1. worker[c[1]].pc \in Started /\ (c[1] = c[2] \/ rcode[c[1]] # Missing) /\ c[1] \in Workers
    BY Known DEF Calmly, Meant, Ids
  <2>2. c[1] # w
    BY <1>6, <2>1 DEF Started
  <2> QED
    BY <1>2, <2>1, <2>2
<1> QED
  BY <1>9, <1>11, <1>12, <1>13, <1>14 DEF Calmly, PageCalm

\* The answer, which opens the stream, and the error.
LEMMA AnswerSteps ==
  ASSUME TypeInv, Calmly, calm', NEW w \in Workers, StartAnswered(w) \/ StartRefused(w)
  PROVE  Calmly'
<1>0. /\ click \in [Workers -> ClickState] /\ w \in Pending /\ w \in Clicked /\ w \in Outgone
      /\ click[w] \in {"created", "refused"} /\ click' = [click EXCEPT ![w] = "over"]
  BY Known DEF StartAnswered, StartRefused, Pending, Clicked, Outgone
<1>1. click'[w] = "over" /\ \A v \in Workers \ {w} : click'[v] = click[v]
  BY <1>0
<1>2. /\ reader = Missing /\ sse.state = "closed" /\ asks = {} /\ \A v \in Pending : v = w
      /\ \A v \in Clicked : v <= w
      /\ \A v \in Workers : Live(v) => v = w
      /\ current # Missing => current # w
  BY <1>0, OfPending
<1>3. running /\ indicator = "running" /\ shown = Missing
  BY <1>0 DEF Calmly, PageCalm, Newest
<1>4. /\ UNCHANGED <<worker, runs, rcode, queue, stored, ghosts, reader, latest>>
      /\ UNCHANGED <<log, shown, asks, cancels>>
  BY <1>2 DEF StartAnswered, StartRefused, streamVars, LeaveReader
<1>5. Pending' = {} /\ \A v \in Outgone' : v <= w
  <2>1. Pending' = {}
    BY <1>1, <1>2 DEF Pending
  <2>2. Outgone' = Outgone
    BY <1>0, <1>1 DEF Outgone
  <2> QED
    BY <1>2, <2>1, <2>2 DEF Outgone, Clicked
<1>6. \A v \in Workers : Own(v)' /\ InStep(v)'
  <2> SUFFICES ASSUME NEW v \in Workers PROVE Own(v)' /\ InStep(v)'
    OBVIOUS
  <2>1. Own(v) /\ InStep(v)
    BY DEF Calmly, RunsCalm
  <2>2. click'[v] = IF v = w THEN "over" ELSE click[v]
    BY <1>1
  <2> QED
    BY <1>4, <2>1, <2>2 DEF Own, InStep
<1>7. Meant'
  BY <1>4 DEF Calmly, Meant
<1>8. CASE StartAnswered(w)
  <2>1. click[w] = "created" /\ Own(w) /\ worker[w].pc \in Started /\ Transcript(w)
    BY <1>8 DEF StartAnswered, Calmly, RunsCalm, InStep, Watched, Live
  <2>2. worker[w].id = w
    BY <2>1 DEF Own, Started
  <2>3. /\ current' = w /\ sse' = [id |-> w, state |-> "connecting", done |-> FALSE]
        /\ UNCHANGED <<running, indicator>>
    BY <1>8, <2>2 DEF StartAnswered
  <2>4. \A v \in Workers : Watched(v)'
    <3> SUFFICES ASSUME NEW v \in Workers PROVE Watched(v)'
      OBVIOUS
    <3>1. CASE v = w
      <4>1. Live(w)' /\ Transcript(w)'
        BY <1>4, <2>1, <2>3 DEF Live, Transcript
      <4> QED
        BY <1>4, <2>1, <3>1, <4>1 DEF Watched
    <3>2. CASE v # w
      <4>1. ~Live(v) /\ Watched(v)
        BY <1>2, <3>2 DEF Calmly, RunsCalm
      <4>2. ~Live(v)'
        BY <1>1, <2>3, <3>2, <4>1 DEF Live
      <4> QED
        BY <1>4, <4>1, <4>2 DEF Watched
    <3> QED
      BY <3>1, <3>2
  <2>5. Followed'
    BY <1>2, <1>3, <1>4, <1>5, <2>3 DEF Followed
  <2>6. Held' /\ Asked' /\ Judged'
    BY <1>1, <1>2, <1>3, <1>4, <2>1, <2>3 DEF Held, Asked, Judged
  <2> QED
    BY <1>5, <1>6, <1>7, <2>4, <2>5, <2>6 DEF Calmly, RunsCalm, PageCalm
<1>9. CASE StartRefused(w)
  <2>1. /\ worker[w].pc = "refused" /\ running' = FALSE /\ indicator' = "idle"
        /\ UNCHANGED <<current, sse>>
    BY <1>9 DEF StartRefused, Calmly, RunsCalm, InStep
  <2>2. \A v \in Workers : Watched(v)'
    <3> SUFFICES ASSUME NEW v \in Workers PROVE Watched(v)'
      OBVIOUS
    <3>1. Watched(v) /\ (Live(v) => v = w)
      BY <1>2 DEF Calmly, RunsCalm
    <3>2. worker[v].pc # "active" /\ ~Live(v)'
      <4>1. worker[v].pc # "active"
        BY <2>1, <3>1 DEF Watched
      <4>2. ~Live(v)'
        BY <1>1, <1>2, <2>1, <3>1 DEF Live
      <4> QED
        BY <4>1, <4>2
    <3> QED
      BY <1>4, <3>2 DEF Watched
  <2>3. Held'
    <3>1. current # Missing => click'[current] = "over"
      BY <1>1, Known DEF Calmly, PageCalm, Held, Ids
    <3> QED
      BY <1>4, <2>1, <3>1 DEF Calmly, PageCalm, Held
  <2>4. Followed' /\ Asked' /\ Judged'
    BY <1>2, <1>4, <2>1 DEF Followed, Asked, Judged
  <2> QED
    BY <1>5, <1>6, <1>7, <2>2, <2>3, <2>4 DEF Calmly, RunsCalm, PageCalm
<1> QED
  BY <1>8, <1>9
-----------------------------------------------------------------------------
(* Workers                                                                 *)

\* A run that has a verdict has ended, and nothing of it changes.
LEMMA WorkerSteps ==
  ASSUME TypeInv, Calmly, calm', NEW w \in Workers, WorkerMoves(w)
  PROVE  Calmly'
<1>0. /\ worker \in [Workers -> Thread] /\ runs \in [Ids -> Workers \cup {Missing}]
      /\ rcode \in [Workers -> Codes \cup {Missing}] /\ stored \in [Ids -> Workers \cup {Missing}]
      /\ queue \in [Workers -> Seq(Items)]
      /\ Own(w) /\ InStep(w) /\ Watched(w)
  BY Known DEF Calmly, RunsCalm
<1>1. UNCHANGED pageVars
  BY DEF WorkerMoves
<1>2. UNCHANGED <<click, running, indicator, log, shown, current, sse, asks, cancels, Pending, Clicked, Outgone>>
  BY <1>1 DEF pageVars, Pending, Clicked, Outgone
<1>3. UNCHANGED <<reader, ghosts>>
  BY DEF WorkerMoves, WorkerStep, WriteLine, EndWork, PutSentinel
<1>4. \A v \in Workers : Live(v)' <=> Live(v)
  BY <1>2 DEF Live
\* What each of the steps does is said of the worker and of all others.
<1>5. CASE WriteLine(w)
  <2>1. worker[w].pc = "active" /\ Live(w) /\ Transcript(w) /\ UNCHANGED <<runs, rcode, stored>>
    BY <1>0, <1>5 DEF WriteLine, Active, Watched
  <2>2. \A v \in Workers \ {w} : worker[v].pc # "active" /\ queue'[v] = queue[v]
    <3>1. \A v \in Workers \ {w} : v \notin Active
      BY <1>5, OnlyOne DEF WriteLine
    <3> QED
      BY <1>0, <1>5, <3>1 DEF WriteLine, Logged, Active
  <2>3. /\ worker'[w].pc = "active" /\ worker'[w].id = worker[w].id /\ worker'[w].cancel = worker[w].cancel
        /\ \A v \in Workers \ {w} : worker'[v] = worker[v]
    BY <1>0, <1>5 DEF WriteLine, Thread, Active
  <2>4. Transcript(w)'
    <3>1. /\ queue'[w] = Append(queue[w], Line(w, worker[w].lines + 1))
          /\ worker[w].lines < MaxLines /\ worker'[w].lines = worker[w].lines + 1
      BY <1>0, <1>5 DEF WriteLine, Logged, Thread
    <3> QED
      BY <1>2, <2>1, <2>3, <3>1, LineWritten
  <2>5. RunsCalm'
    <3> SUFFICES ASSUME NEW v \in Workers PROVE Own(v)' /\ InStep(v)' /\ Watched(v)'
      BY DEF RunsCalm
    <3>1. CASE v = w
      BY <1>0, <1>2, <1>3, <1>4, <2>1, <2>3, <2>4, <3>1 DEF Own, InStep, Watched, Started
    <3>2. CASE v # w
      <4>1. Own(v) /\ InStep(v) /\ Watched(v) /\ ~Live(v)
        BY <2>1, <3>2, OnlyOne DEF Calmly, RunsCalm
      <4> QED
        BY <1>2, <1>3, <1>4, <2>1, <2>2, <2>3, <3>2, <4>1 DEF Own, InStep, Watched
    <3> QED
      BY <3>1, <3>2
  <2>6. \A v \in Workers : /\ worker'[v].pc = worker[v].pc
                           /\ rcode[v] # Missing => worker'[v].lines = worker[v].lines
    <3> SUFFICES ASSUME NEW v \in Workers PROVE /\ worker'[v].pc = worker[v].pc
                                                /\ rcode[v] # Missing => worker'[v].lines = worker[v].lines
      OBVIOUS
    <3>1. rcode[w] = Missing
      BY <1>0, <2>1 DEF Own
    <3> QED
      BY <2>1, <2>3, <3>1
  <2>7. /\ rcode' = rcode /\ stored' = stored
        /\ \A v \in Workers : worker[v].pc \in Started => worker'[v].pc \in Started
    BY <2>1, <2>6
  <2>8. Followed /\ Held /\ Asked /\ Judged /\ Meant /\ \A v \in Pending : Newest(v)
    BY DEF Calmly, PageCalm
  <2>9. PageCalm'
    <3>1. Held'
      BY <1>2, <2>7, <2>8, Known DEF Held, Ids
    <3>2. Judged'
      BY <1>2, <2>6, <2>7, <2>8, Known DEF Judged, Ids
    <3> QED
      BY <1>2, <1>3, <2>7, <2>8, <3>1, <3>2 DEF PageCalm, Followed, Asked, Newest
  <2>10. Meant'
    BY <1>2, <2>7, <2>8, Known DEF Meant, Ids
  <2> QED
    BY <2>5, <2>9, <2>10 DEF Calmly
<1>6. CASE EndWork(w)
  <2>1. worker[w].pc = "active" /\ Live(w) /\ Transcript(w) /\ UNCHANGED queue /\ rcode[w] = Missing
    BY <1>0, <1>6 DEF EndWork, Active, Watched, Own
  <2>2. worker[w].id = w /\ runs[w] = w /\ UNCHANGED runs
    BY <1>0, <1>6, <2>1 DEF Own, EndWork
  <2>3. worker' = [worker EXCEPT ![w].pc = "coded"] /\ stored' = [stored EXCEPT ![w] = w]
    BY <1>6, <2>2 DEF EndWork
  <2>4. PICK rc \in Codes : rcode' = [rcode EXCEPT ![w] = rc]
    BY <1>6, <2>2 DEF EndWork, Codes
  <2>5. /\ worker'[w].pc = "coded" /\ worker'[w].id = w /\ worker'[w].cancel = worker[w].cancel
        /\ worker'[w].lines = worker[w].lines
        /\ \A v \in Workers \ {w} : worker'[v] = worker[v]
    BY <1>0, <2>2, <2>3 DEF Thread
  <2>6. /\ stored'[w] = w /\ rcode'[w] # Missing
        /\ \A v \in Workers \ {w} : stored'[v] = stored[v] /\ rcode'[v] = rcode[v]
    <3>1. rc # Missing
      BY RunStreamAssumption DEF Codes
    <3> QED
      BY <1>0, <2>3, <2>4, <3>1 DEF Ids
  <2>7. RunsCalm'
    <3> SUFFICES ASSUME NEW v \in Workers PROVE Own(v)' /\ InStep(v)' /\ Watched(v)'
      BY DEF RunsCalm
    <3>1. CASE v = w
      <4>1. Own(w)'
        BY <1>0, <1>3, <2>1, <2>2, <2>5, <2>6 DEF Own
      <4>2. InStep(w)'
        BY <1>0, <1>2, <2>1, <2>5 DEF InStep, Started
      <4>3. Transcript(w)'
        BY <1>2, <2>1, <2>5 DEF Transcript
      <4>4. Watched(w)'
        BY <2>5, <4>3 DEF Watched, Started
      <4> QED
        BY <3>1, <4>1, <4>2, <4>4
    <3>2. CASE v # w
      <4>1. Own(v) /\ InStep(v) /\ Watched(v) /\ ~Live(v)
        BY <2>1, <3>2, OnlyOne DEF Calmly, RunsCalm
      <4> QED
        BY <1>2, <1>3, <1>4, <2>1, <2>2, <2>5, <2>6, <3>2, <4>1 DEF Own, InStep, Watched
    <3> QED
      BY <3>1, <3>2
  <2>8. /\ \A v \in Workers : worker[v].pc \in Started => worker'[v].pc \in Started
        /\ \A v \in Workers : rcode[v] # Missing =>
             rcode'[v] = rcode[v] /\ worker'[v].lines = worker[v].lines
    <3> SUFFICES ASSUME NEW v \in Workers
                 PROVE  /\ worker[v].pc \in Started => worker'[v].pc \in Started
                        /\ rcode[v] # Missing => rcode'[v] = rcode[v] /\ worker'[v].lines = worker[v].lines
      OBVIOUS
    <3> QED
      BY <2>1, <2>5, <2>6 DEF Started
  <2>9. Followed /\ Held /\ Asked /\ Judged /\ Meant /\ \A v \in Pending : Newest(v)
    BY DEF Calmly, PageCalm
  <2>10. PageCalm'
    <3>1. Held'
      BY <1>2, <2>8, <2>9, Known DEF Held, Ids
    <3>2. Judged'
      BY <1>2, <2>8, <2>9, Known DEF Judged, Ids
    <3>3. Asked'
      BY <1>2, <2>8, <2>9, Known DEF Asked, Ids
    <3> QED
      BY <1>2, <1>3, <2>9, <3>1, <3>2, <3>3 DEF PageCalm, Followed, Newest
  <2>11. Meant'
    BY <1>2, <2>8, <2>9, Known DEF Meant, Ids
  <2> QED
    BY <2>7, <2>10, <2>11 DEF Calmly
<1>7. CASE PutSentinel(w)
  <2>1. worker[w].pc = "coded" /\ UNCHANGED <<runs, rcode, stored>>
    BY <1>7 DEF PutSentinel
  <2>2. /\ worker'[w].pc = "ended" /\ worker'[w].id = worker[w].id /\ worker'[w].cancel = worker[w].cancel
        /\ worker'[w].lines = worker[w].lines
        /\ \A v \in Workers \ {w} : worker'[v] = worker[v] /\ queue'[v] = queue[v]
    BY <1>0, <1>7 DEF PutSentinel, Thread
  <2>3. RunsCalm'
    <3> SUFFICES ASSUME NEW v \in Workers PROVE Own(v)' /\ InStep(v)' /\ Watched(v)'
      BY DEF RunsCalm
    <3>1. CASE v = w
      <4>1. Own(w)' /\ InStep(w)'
        BY <1>0, <1>2, <1>3, <2>1, <2>2 DEF Own, InStep, Started
      <4>2. Live(w) => Transcript(w)'
        BY <1>0, <1>2, <1>7, SentinelPut DEF Watched
      <4>3. Watched(w)'
        BY <1>4, <2>2, <4>2 DEF Watched, Started
      <4> QED
        BY <3>1, <4>1, <4>3
    <3>2. CASE v # w
      <4>1. Own(v) /\ InStep(v) /\ Watched(v)
        BY DEF Calmly, RunsCalm
      <4>2. Transcript(v) => Transcript(v)'
        BY <1>2, <2>2, <3>2 DEF Transcript
      <4> QED
        BY <1>2, <1>3, <1>4, <2>1, <2>2, <3>2, <4>1, <4>2 DEF Own, InStep, Watched
    <3> QED
      BY <3>1, <3>2
  <2>4. \A v \in Workers : /\ worker[v].pc \in Started => worker'[v].pc \in Started
                           /\ worker'[v].lines = worker[v].lines
    BY <2>1, <2>2 DEF Started
  <2>5. Followed /\ Held /\ Asked /\ Judged /\ Meant /\ \A v \in Pending : Newest(v)
    BY DEF Calmly, PageCalm
  <2>6. PageCalm'
    <3>1. Held'
      BY <1>2, <2>4, <2>5, Known DEF Held, Ids
    <3>2. Judged'
      BY <1>2, <2>1, <2>4, <2>5, Known DEF Judged, Ids
    <3> QED
      BY <1>2, <1>3, <2>1, <2>5, <3>1, <3>2 DEF PageCalm, Followed, Asked, Newest
  <2>7. Meant'
    BY <1>2, <2>1, <2>4, <2>5, Known DEF Meant, Ids
  <2> QED
    BY <2>3, <2>6, <2>7 DEF Calmly
<1> QED
  BY <1>5, <1>6, <1>7 DEF WorkerMoves, WorkerStep
-----------------------------------------------------------------------------
(* The stream                                                              *)

\* What an open stream means.
LEMMA OfStream ==
  ASSUME TypeInv, Calmly, sse.state # "closed"
  PROVE  /\ current \in Workers /\ sse.id = current /\ Live(current)
         /\ Own(current) /\ Transcript(current) /\ worker[current].pc \in Started
         /\ running /\ shown = Missing /\ asks = {} /\ Pending = {} /\ \A v \in Outgone : v <= current
         /\ sse.state = "open" => reader = current
         /\ \A v \in Workers : Live(v) => v = current
<1>1. current \in Workers /\ sse.id = current
  BY DEF Calmly, PageCalm, Followed, TypeInv, Source, Ids
<1>2. Live(current)
  BY <1>1 DEF Live
<1>3. \A v \in Workers : Live(v) => v = current
  BY <1>1, <1>2, OnlyOne
<1> QED
  BY <1>1, <1>2, <1>3 DEF Calmly, PageCalm, RunsCalm, Followed, Watched

LEMMA ConnectSteps ==
  ASSUME TypeInv, Calmly, calm', Connect
  PROVE  Calmly'
<1>0. sse \in Sources /\ sse.state # "closed"
  BY Known DEF Connect
<1>1. current \in Workers /\ sse.id = current /\ Own(current) /\ worker[current].pc \in Started
  BY <1>0, OfStream
<1>2. runs[sse.id] = current /\ current # Missing
  BY <1>1, Numbers DEF Own, Started
<1>3. sse' = [sse EXCEPT !.state = "open"] /\ reader' = current /\ UNCHANGED <<running, indicator>>
  BY <1>2 DEF Connect
<1>4. /\ UNCHANGED <<worker, runs, rcode, queue, stored, ghosts, latest>>
      /\ UNCHANGED <<click, log, shown, current, asks, cancels, Pending, Clicked, Outgone>>
  BY DEF Connect, Pending, Clicked, Outgone
<1>5. sse'.id = current /\ sse'.state = "open"
  BY <1>0, <1>1, <1>3 DEF Sources
<1>6. \A v \in Workers : Live(v)' <=> Live(v)
  BY <1>0, <1>1, <1>4, <1>5 DEF Live
<1>7. RunsCalm'
  <2> SUFFICES ASSUME NEW v \in Workers PROVE Own(v)' /\ InStep(v)' /\ Watched(v)'
    BY DEF RunsCalm
  <2>1. Own(v) /\ InStep(v) /\ Watched(v)
    BY DEF Calmly, RunsCalm
  <2> QED
    BY <1>4, <1>6, <2>1 DEF Own, InStep, Watched, Transcript
<1>8. Followed'
  BY <1>0, <1>3, <1>4, <1>5 DEF Calmly, PageCalm, Followed
<1>9. \A v \in Pending' : Newest(v)'
  BY <1>0, <1>4, OfStream
<1>10. Held' /\ Asked' /\ Judged' /\ Meant'
  BY <1>3, <1>4 DEF Calmly, PageCalm, Held, Asked, Judged, Meant
<1> QED
  BY <1>7, <1>8, <1>9, <1>10 DEF Calmly, PageCalm

LEMMA ReceiveSteps ==
  ASSUME TypeInv, Calmly, calm', Receive
  PROVE  Calmly'
<1>0. /\ sse \in Sources /\ sse.state = "open" /\ queue \in [Workers -> Seq(Items)]
      /\ rcode \in [Workers -> Codes \cup {Missing}]
  BY Known DEF Receive
<1>1. /\ current \in Workers /\ sse.id = current /\ Live(current) /\ reader = current
      /\ Own(current) /\ Transcript(current) /\ worker[current].pc \in Started
      /\ running /\ shown = Missing /\ asks = {} /\ Pending = {} /\ \A v \in Outgone : v <= current
      /\ \A v \in Workers : Live(v) => v = current
  BY <1>0, OfStream
<1>2. PICK item \in NextItems(current) :
        IF item = Sentinel
        THEN /\ sse' = [sse EXCEPT !.state = "closed", !.done = TRUE]
             /\ running' = FALSE /\ indicator' = Verdict(rcode[current])
             /\ asks' = asks \cup {sse.id}
             /\ reader' = Missing
             /\ UNCHANGED log
        ELSE log' = Append(log, item) /\ UNCHANGED <<sse, running, indicator, asks, reader>>
  BY <1>1 DEF Receive
<1>3. /\ UNCHANGED <<worker, runs, rcode, stored, ghosts, latest>>
      /\ UNCHANGED <<click, shown, current, cancels, Pending, Clicked, Outgone>>
  BY DEF Receive, Pending, Clicked, Outgone
<1>4. \A v \in Workers \ {current} : queue'[v] = queue[v]
  BY <1>0, <1>1 DEF Receive, Taken
<1>5. \A v \in Workers : Own(v)' /\ InStep(v)'
  <2> SUFFICES ASSUME NEW v \in Workers PROVE Own(v)' /\ InStep(v)'
    OBVIOUS
  <2>1. Own(v) /\ InStep(v)
    BY DEF Calmly, RunsCalm
  <2>2. worker[v].pc = "none" => queue'[v] = queue[v]
    BY <1>1, <1>4 DEF Started
  <2> QED
    BY <1>3, <2>1, <2>2 DEF Own, InStep
<1>6. Held' /\ Meant'
  BY <1>3 DEF Calmly, PageCalm, Held, Meant
<1>7. \A v \in Pending' : Newest(v)'
  BY <1>1, <1>3
<1>8. CASE item = Sentinel
  <2>1. /\ sse'.state = "closed" /\ running' = FALSE /\ indicator' = Verdict(rcode[current])
        /\ asks' = {current} /\ log' = log
    BY <1>0, <1>1, <1>2, <1>8 DEF Sources
  <2>2. Told(log, current, worker[current].lines) /\ rcode[current] # Missing
    BY <1>1, <1>2, <1>8, AllReceived
  <2>3. \A v \in Workers : Watched(v)'
    <3> SUFFICES ASSUME NEW v \in Workers PROVE Watched(v)'
      OBVIOUS
    <3>1. ~Live(v)'
      <4>1. click[v] # "created"
        BY <1>1 DEF Pending
      <4> QED
        BY <1>3, <2>1, <4>1 DEF Live
    <3>2. worker[v].pc # "active"
      <4>1. worker[v].pc = "active" => v = current
        BY <1>1 DEF Calmly, RunsCalm, Watched
      <4> QED
        BY <1>1, <2>2, <4>1 DEF Own
    <3> QED
      BY <1>3, <3>1, <3>2 DEF Watched
  <2>4. Followed'
    BY <2>1 DEF Followed
  <2>5. Asked'
    BY <1>1, <1>3, <2>1, <2>2 DEF Asked
  <2>6. Judged'
    <3>1. indicator' \in {"pass", "fail"} => (indicator' = "pass" <=> rcode[current] = 0)
      BY <2>1 DEF Verdict
    <3>2. current # Missing
      BY <1>1, Numbers
    <3> QED
      BY <1>1, <1>3, <2>1, <2>2, <3>1, <3>2 DEF Judged
  <2> QED
    BY <1>5, <1>6, <1>7, <2>3, <2>4, <2>5, <2>6 DEF Calmly, PageCalm, RunsCalm
<1>9. CASE item # Sentinel
  <2>1. log' = Append(log, item) /\ UNCHANGED <<sse, running, indicator, asks, reader>>
    BY <1>2, <1>9
  <2>2. queue[current] # <<>> /\ item = Head(queue[current])
    BY <1>2, <1>9 DEF NextItems
  <2>3. queue'[current] = Tail(queue[current])
    BY <1>0, <1>1, <2>2 DEF Receive, Taken
  <2>4. Transcript(current)'
    BY <1>1, <1>3, <1>9, <2>1, <2>2, <2>3, LineReceived
  <2>5. \A v \in Workers : Watched(v)'
    <3> SUFFICES ASSUME NEW v \in Workers PROVE Watched(v)'
      OBVIOUS
    <3>1. Watched(v) /\ (Live(v) => v = current) /\ (Live(v)' <=> Live(v))
      BY <1>1, <1>3, <2>1 DEF Calmly, RunsCalm, Live
    <3> QED
      BY <1>3, <2>4, <3>1 DEF Watched
  <2>6. Followed' /\ Asked'
    BY <1>3, <2>1 DEF Calmly, PageCalm, Followed, Asked
  <2>7. Judged'
    BY <1>0, <2>1 DEF Calmly, PageCalm, Followed, Judged
  <2> QED
    BY <1>5, <1>6, <1>7, <2>5, <2>6, <2>7 DEF Calmly, PageCalm, RunsCalm
<1> QED
  BY <1>8, <1>9

\* A page that nobody disturbs leaves no reader behind.
LEMMA NoGhosts ==
  ASSUME TypeInv, Calmly, NEW w \in Workers
  PROVE  ~GhostMoves(w)
<1>1. ghosts[w] = 0
  BY DEF Calmly, RunsCalm, Own
<1> QED
  BY <1>1 DEF GhostMoves, GhostTakes
-----------------------------------------------------------------------------
(* Results and cancels                                                     *)

LEMMA ResultSteps ==
  ASSUME TypeInv, Calmly, calm', NEW id \in Ids, ResultAnswered(id)
  PROVE  Calmly'
<1>1. id = current /\ asks = {current} /\ asks' = {} /\ current \in Workers
  BY Known DEF ResultAnswered, Calmly, PageCalm, Asked, Ids
<1>2. stored[current] = current
  BY <1>1 DEF Calmly, RunsCalm, PageCalm, Asked, Own
<1>3. shown' = current
  BY <1>1, <1>2, Numbers DEF ResultAnswered
<1>4. UNCHANGED <<click, running, indicator, log, current, sse, cancels, streamVars, Pending, Outgone>>
  BY DEF ResultAnswered, Pending, Outgone
<1>5. RunsCalm'
  <2> SUFFICES ASSUME NEW v \in Workers PROVE Own(v)' /\ InStep(v)' /\ Watched(v)'
    BY DEF RunsCalm
  <2>1. Own(v) /\ InStep(v) /\ Watched(v)
    BY DEF Calmly, RunsCalm
  <2> QED
    BY <1>4, <2>1 DEF Own, InStep, Watched, Live, Transcript, streamVars
<1>6. Pending' = {} /\ sse'.state = "closed"
  BY <1>1, <1>4 DEF Calmly, PageCalm, Asked, Followed
<1>7. Followed' /\ Asked'
  BY <1>1, <1>6 DEF Followed, Asked
<1>8. Held' /\ Meant'
  BY <1>4 DEF Calmly, PageCalm, Held, Meant, streamVars
<1>9. Judged'
  BY <1>3, <1>4 DEF Calmly, PageCalm, Judged, streamVars
<1> QED
  BY <1>5, <1>6, <1>7, <1>8, <1>9 DEF Calmly, PageCalm

\* Cancel is pressed for the start that went out last; the id is that of the run answered
\* last, which is either the same or has ended.
LEMMA CancelSteps ==
  ASSUME TypeInv, Calmly, calm', ClickCancel
  PROVE  Calmly'
<1>1. UNCHANGED <<click, running, indicator, log, shown, current, sse, asks, streamVars, Pending, Clicked, Outgone>>
  BY DEF ClickCancel, Pending, Clicked, Outgone
<1>2. RunsCalm'
  <2> SUFFICES ASSUME NEW v \in Workers PROVE Own(v)' /\ InStep(v)' /\ Watched(v)'
    BY DEF RunsCalm
  <2>1. Own(v) /\ InStep(v) /\ Watched(v)
    BY DEF Calmly, RunsCalm
  <2> QED
    BY <1>1, <2>1 DEF Own, InStep, Watched, Live, Transcript, streamVars
<1>3. PageCalm'
  BY <1>1 DEF Calmly, PageCalm, Newest, Followed, Held, Asked, Judged, streamVars
<1>4. current # Missing => /\ worker[current].pc \in Started
                           /\ current = LastSent \/ rcode[current] # Missing
  <2> SUFFICES ASSUME current # Missing
               PROVE  worker[current].pc \in Started /\ (current = LastSent \/ rcode[current] # Missing)
    OBVIOUS
  <2>1. current \in Workers /\ click[current] = "over" /\ worker[current].pc \in Started
    BY Known DEF Calmly, PageCalm, Held, Ids
  <2>2. Own(current) /\ Watched(current)
    BY <2>1 DEF Calmly, RunsCalm
  <2>3. CASE worker[current].pc = "active"
    <3>1. sse.state # "closed"
      BY <2>1, <2>2, <2>3 DEF Watched, Live
    <3>2. current \in Outgone /\ \A v \in Outgone : v <= current
      BY <2>1, <3>1 DEF Outgone, Calmly, PageCalm, Followed
    <3> QED
      BY <2>1, <3>2, LastIsOne
  <2>4. CASE worker[current].pc # "active"
    BY <2>1, <2>2, <2>4 DEF Own, Started
  <2> QED
    BY <2>1, <2>3, <2>4
<1>5. Meant'
  <2>1. \A c \in cancels' : c \in cancels \/ (current # Missing /\ c = <<current, LastSent>>)
    BY DEF ClickCancel
  <2>2. \A c \in cancels' : worker[c[1]].pc \in Started /\ (c[1] = c[2] \/ rcode[c[1]] # Missing)
    BY <1>4, <2>1 DEF Calmly, Meant
  <2> QED
    BY <1>1, <2>2 DEF Meant, streamVars
<1> QED
  BY <1>2, <1>3, <1>5 DEF Calmly

\* What the server logs for another request reaches a live run at work and nothing else.
LEMMA NoticeLogged ==
  ASSUME TypeInv, Calmly, queue' = queue \/ queue' = Logged(Notice), log' = log, NEW v \in Workers,
         worker'[v].pc = worker[v].pc, worker'[v].lines = worker[v].lines
  PROVE  /\ Live(v) => Transcript(v)'
         /\ worker[v].pc = "none" => queue'[v] = queue[v]
<1>1. /\ StreamTypeOK /\ Notice \in Items
      /\ queue'[v] = queue[v] \/ (worker[v].pc = "active" /\ queue'[v] = Append(queue[v], Notice))
  <2>1. StreamTypeOK /\ Notice \in Items
    BY NoticeIsItem DEF TypeInv, TypeOK
  <2>2. queue'[v] = queue[v] \/ queue'[v] = IF v \in Active THEN Append(queue[v], Notice) ELSE queue[v]
    BY <2>1, LoggedType
  <2> QED
    BY <2>1, <2>2 DEF Active
<1>2. Live(v) => Transcript(v)
  BY DEF Calmly, RunsCalm, Watched
<1>3. CASE queue'[v] = queue[v]
  BY <1>2, <1>3 DEF Transcript
<1>4. CASE worker[v].pc = "active" /\ queue'[v] = Append(queue[v], Notice)
  BY <1>2, <1>4, LineWritten
<1> QED
  BY <1>1, <1>3, <1>4

\* api_inventory.
LEMMA AskedSteps ==
  ASSUME TypeInv, Calmly, calm', InventoryAsked
  PROVE  Calmly'
<1>1. /\ UNCHANGED <<click, running, indicator, log, shown, current, sse, asks, cancels>>
      /\ UNCHANGED <<worker, runs, rcode, stored, ghosts, reader, latest, Pending, Clicked, Outgone>>
      /\ queue' = Logged(Notice)
  BY DEF InventoryAsked, LogAtServer, Pending, Clicked, Outgone
<1>2. RunsCalm'
  <2> SUFFICES ASSUME NEW v \in Workers PROVE Own(v)' /\ InStep(v)' /\ Watched(v)'
    BY DEF RunsCalm
  <2>1. Own(v) /\ InStep(v) /\ Watched(v) /\ (Live(v)' <=> Live(v))
    BY <1>1 DEF Calmly, RunsCalm, Live
  <2>2. /\ Live(v) => Transcript(v)'
        /\ worker[v].pc = "none" => queue'[v] = queue[v]
    BY <1>1, NoticeLogged
  <2> QED
    BY <1>1, <2>1, <2>2 DEF Own, InStep, Watched
<1>3. PageCalm' /\ Meant'
  BY <1>1 DEF Calmly, PageCalm, Newest, Followed, Held, Asked, Judged, Meant
<1> QED
  BY <1>2, <1>3 DEF Calmly

\* api_cancel_run.
LEMMA ArriveSteps ==
  ASSUME TypeInv, Calmly, calm', NEW id \in Ids, NEW start \in Workers, CancelArrives(id, start)
  PROVE  Calmly'
<1>0. id \in Workers /\ worker \in [Workers -> Thread]
  BY Known DEF Ids
<1>1. /\ UNCHANGED <<click, running, indicator, log, shown, current, sse, asks, Pending, Clicked, Outgone>>
      /\ UNCHANGED <<runs, rcode, stored, ghosts, reader, latest>>
      /\ queue' = queue \/ queue' = Logged(Notice)
  BY DEF CancelArrives, CancelAtServer, Pending, Clicked, Outgone
<1>2. worker[id].pc \in Started /\ (id = start \/ rcode[id] # Missing)
  <2>1. <<id, start>> \in cancels
    BY DEF CancelArrives
  <2> QED
    BY <2>1 DEF Calmly, Meant
<1>3. Own(id) /\ runs[id] = id
  BY <1>0, <1>2 DEF Calmly, RunsCalm, Own, Started
<1>4. /\ \A v \in Workers : /\ worker'[v].pc = worker[v].pc /\ worker'[v].id = worker[v].id
                            /\ worker'[v].lines = worker[v].lines
      /\ \A v \in Workers : worker'[v].cancel = worker[v].cancel \/ (v = id /\ worker'[v].cancel = id)
  <2>1. CASE MayCancel(id)
    <3>1. rcode[id] = Missing
      BY <1>3, <2>1 DEF MayCancel
    <3>2. worker' = [worker EXCEPT ![id].cancel = id]
      BY <1>2, <1>3, <2>1, <3>1 DEF CancelArrives, CancelAtServer
    <3> QED
      BY <1>0, <3>2 DEF Thread
  <2>2. CASE ~MayCancel(id)
    BY <2>2 DEF CancelArrives, CancelAtServer
  <2> QED
    BY <2>1, <2>2
<1>5. RunsCalm'
  <2> SUFFICES ASSUME NEW v \in Workers PROVE Own(v)' /\ InStep(v)' /\ Watched(v)'
    BY DEF RunsCalm
  <2>1. Own(v) /\ InStep(v) /\ Watched(v) /\ (Live(v)' <=> Live(v))
    BY <1>1 DEF Calmly, RunsCalm, Live
  <2>2. /\ Live(v) => Transcript(v)'
        /\ worker[v].pc = "none" => queue'[v] = queue[v]
    BY <1>1, <1>4, NoticeLogged
  <2>3. Own(v)' /\ InStep(v)'
    BY <1>1, <1>4, <2>1, <2>2 DEF Own, InStep
  <2>4. Watched(v)'
    BY <1>4, <2>1, <2>2 DEF Watched
  <2> QED
    BY <2>3, <2>4
<1>6. Followed' /\ Asked' /\ \A v \in Pending' : Newest(v)'
  BY <1>1 DEF Calmly, PageCalm, Newest, Followed, Asked
<1>7. Held' /\ Judged'
  BY <1>1, <1>4, Known DEF Calmly, PageCalm, Held, Judged, Ids
<1>8. Meant'
  <2> SUFFICES ASSUME NEW c \in cancels'
               PROVE  worker'[c[1]].pc \in Started /\ (c[1] = c[2] \/ rcode'[c[1]] # Missing)
    BY DEF Meant
  <2>1. c \in cancels /\ c[1] \in Workers
    BY Known DEF CancelArrives, Ids
  <2> QED
    BY <1>1, <1>4, <2>1 DEF Calmly, Meant
<1> QED
  BY <1>5, <1>6, <1>7, <1>8 DEF Calmly, PageCalm
-----------------------------------------------------------------------------
(* Together                                                                *)

LEMMA InitCalm == Init => CalmInv
<1> SUFFICES ASSUME Init PROVE Calmly
  BY DEF CalmInv
<1>1. \A w \in Workers : click[w] = "none" /\ worker[w].pc = "none" /\ ~Live(w)
  BY DEF Init, StreamInit, NoSource, Live
<1>2. Pending = {}
  BY <1>1 DEF Pending
<1>3. RunsCalm
  BY <1>1 DEF Init, StreamInit, RunsCalm, Own, InStep, Watched, Ids
<1>4. PageCalm
  BY <1>2 DEF Init, StreamInit, NoSource, PageCalm, Followed, Held, Asked, Judged
<1>5. Meant
  BY DEF Init, Meant
<1> QED
  BY <1>3, <1>4, <1>5 DEF Calmly

LEMMA NextCalm == TypeInv /\ CalmInv /\ [Next]_vars => CalmInv'
<1> SUFFICES ASSUME TypeInv, CalmInv, [Next]_vars, calm' PROVE Calmly'
  BY DEF CalmInv
<1>1. CASE UNCHANGED vars
  <2>1. Calmly
    BY <1>1 DEF CalmInv, vars, pageVars
  <2> QED
    BY <1>1, <2>1
    DEF vars, pageVars, streamVars, Calmly, RunsCalm, PageCalm, Own, InStep, Watched, Live, Transcript, Newest,
        Followed, Held, Asked, Judged, Meant, Pending, Clicked, Outgone
<1>2. CASE Next
  <2>1. calm /\ ~Drop /\ ~Restart
    BY <1>2
    DEF Next, ClickMoves, SourceMoves, WorkerMoves, GhostMoves, pageVars, ClickStart, Resume, HandleStart,
        StartAnswered, StartRefused, Connect, Receive, Drop, ResultAnswered, CancelArrives, ClickCancel, InventoryAsked,
        Restart
  <2>2. Calmly
    BY <2>1 DEF CalmInv
  <2> QED
    BY <1>2, <2>1, <2>2, ClickSteps, HandleSteps, AnswerSteps, WorkerSteps, NoGhosts, ConnectSteps, ReceiveSteps,
       ResultSteps, CancelSteps, ArriveSteps, AskedSteps DEF Next, ClickMoves, SourceMoves
<1> QED
  BY <1>1, <1>2

LEMMA RunPageCorrect == Spec => [](TypeInv /\ CalmInv)
BY InitType, NextType, InitCalm, NextCalm, PTL DEF Spec

\* A page that does not show a running run has none at work at the server, as long as no
\* connection breaks and no two starts overlap (startRun, _stream's onmessage and onerror,
\* _get_next).
THEOREM NothingUnseen == Spec => []NothingRunsUnseen
<1>1. TypeInv /\ CalmInv => NothingRunsUnseen
  BY Quiet DEF CalmInv, NothingRunsUnseen
<1> QED
  BY <1>1, RunPageCorrect, PTL

\* A run that has a verdict is the one that went out last.
LEMMA JudgedIsLast ==
  ASSUME TypeInv, Calmly, indicator \in {"pass", "fail"}
  PROVE  /\ LastSent = current /\ current \in Workers
         /\ indicator = "pass" <=> rcode[current] = 0
         /\ asks = {} => shown = current
         /\ Told(log, current, worker[current].lines)
<1>1. Judged /\ Held
  BY DEF Calmly, PageCalm
<1>2. current \in Workers /\ current \in Outgone /\ \A v \in Outgone : v <= current
  BY <1>1, Known DEF Judged, Held, Outgone, Ids
<1>3. LastSent = current
  BY <1>2, LastIsOne
<1> QED
  BY <1>1, <1>2, <1>3 DEF Judged

\* The verdict is that of the run's return code, and the result below is that run's
\* (onmessage with __DONE__, _loadResult).
THEOREM VerdictOfRun == Spec => []VerdictIsTheRuns
<1>1. TypeInv /\ CalmInv => VerdictIsTheRuns
  BY JudgedIsLast DEF CalmInv, VerdictIsTheRuns
<1> QED
  BY <1>1, RunPageCorrect, PTL

\* The log of a run with a verdict has all the run has written, each line once and in order,
\* no line of another run, and else only what the server logged for other requests, as for a
\* cancel (_CallbackHandler, api_cancel_run, _get_next, onmessage).
THEOREM LogComplete == Spec => []LogIsComplete
<1>1. TypeInv /\ CalmInv => LogIsComplete
  BY JudgedIsLast DEF CalmInv, LogIsComplete, Told
<1> QED
  BY <1>1, RunPageCorrect, PTL

\* Cancel reaches no other run than the one it was pressed for (cancelRun, api_cancel_run).
THEOREM CancelHits == Spec => []CancelHitsShownRun
<1>1. CalmInv => CancelHitsShownRun
  BY DEF CalmInv, Calmly, RunsCalm, Own, CancelHitsShownRun
<1> QED
  BY <1>1, RunPageCorrect, PTL
==============================================================================
