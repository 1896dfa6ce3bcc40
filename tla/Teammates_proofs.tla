--------------------------- MODULE Teammates_proofs ---------------------------
(***************************************************************************)
(* Proofs about Teammates, for any names, runs, messages and restarts.     *)
(* The three tables that say whether a teammate runs (the coroutine, the   *)
(* table of active teammates, the team file) are related at every step,    *)
(* and so are the mailbox and what a dispatch under way has read of it.    *)
(***************************************************************************)
EXTENDS Teammates, TLAPS, FiniteSetTheorems, SequenceTheorems

----------------------------------------------------------------------------
(* The inductive invariant.                                                *)

\* The table names a run of that name, and only runs that loop.
LoopShape ==
    /\ \A r \in Spawned : run[r].pc \in Looping <=> active[Name(r)] = r
    /\ \A n \in Names : active[n] # 0 => active[n] \in Spawned /\ Name(active[n]) = n

\* A mailbox only grows: what a run has read of it is still there.
SeenShape ==
    /\ \A n \in Names : Len(inbox[n]) <= MaxMessages
    /\ \A r \in Spawned : run[r].seen <= Len(inbox[Name(r)])

\* Before the mark, every plain entry the dispatch has read has been injected.
MarkFacts ==
    \A r \in Spawned : run[r].pc = "mark" =>
        \A i \in 1..Len(inbox[Name(r)]) :
            LET m == inbox[Name(r)][i]
            IN i <= run[r].seen /\ m.kind = "plain" /\ ~m.read => m.injected

\* A run that answers a request has found one, and remembers it.
StopFacts ==
    \A r \in Spawned :
        \/ run[r].pc = "answer"
        \/ r \in approved /\ run[r].pc \in {"mark", "return"}
      => run[r].stop

IInv ==
    /\ TypeOK /\ LoopShape /\ SeenShape /\ MarkFacts /\ StopFacts
    /\ FreeNameCanBeSpawned /\ ReadMeansInjected /\ ApprovalIsFinal

----------------------------------------------------------------------------
(* Lemmas about the tables, the runs and the mailboxes.                    *)

\* The locals of a dispatch that is over.
NoDispatch(r, p, idle) ==
    [name |-> Name(r), pc |-> p, idle |-> idle, seen |-> 0, stop |-> FALSE, plain |-> FALSE]

\* The types of the state, in the form the proofs use.
LEMMA Types ==
    ASSUME IInv
    PROVE  /\ run \in Seq(RunRec) /\ Len(run) \in 0..MaxRuns /\ Spawned = 1..Len(run)
           /\ \A r \in Spawned : run[r] \in RunRec /\ Name(r) \in Names /\ run[r].seen \in Nat
           /\ inbox \in [Names -> Seq(Message)]
           /\ \A n \in Names : Len(inbox[n]) \in Nat /\ DOMAIN inbox[n] = 1..Len(inbox[n])
           /\ active \in [Names -> 0..MaxRuns] /\ member \in [Names -> BOOLEAN]
<1>1. run \in Seq(RunRec) /\ Len(run) \in 0..MaxRuns /\ Spawned = 1..Len(run)
  BY LenProperties, TeamAssumption DEF IInv, TypeOK, Spawned
<1>2. \A r \in Spawned : run[r] \in RunRec
  BY <1>1, ElementOfSeq
<1>3. \A r \in Spawned : Name(r) \in Names /\ run[r].seen \in Nat
  BY <1>2, TeamAssumption DEF RunRec, Name
<1>4. inbox \in [Names -> Seq(Message)] /\ active \in [Names -> 0..MaxRuns]
      /\ member \in [Names -> BOOLEAN]
  BY DEF IInv, TypeOK
<1>5. \A n \in Names : Len(inbox[n]) \in Nat /\ DOMAIN inbox[n] = 1..Len(inbox[n])
  BY <1>4, LenProperties
<1> QED BY <1>1, <1>2, <1>3, <1>4, <1>5

\* One run changes; no run is added and no name given to another.
LEMMA RunUpdate ==
    ASSUME IInv, NEW r \in Spawned, NEW x \in RunRec, x.name = Name(r),
           run' = [run EXCEPT ![r] = x]
    PROVE  /\ run' \in Seq(RunRec) /\ Len(run') = Len(run) /\ Spawned' = Spawned
           /\ run'[r] = x
           /\ \A q \in Spawned : q # r => run'[q] = run[q]
           /\ \A q \in Spawned : Name(q)' = Name(q)
<1>1. /\ run' \in Seq(RunRec) /\ Len(run') = Len(run)
      /\ \A q \in 1..Len(run) : run'[q] = IF q = r THEN x ELSE run[q]
  BY Types, ExceptSeq
<1>2. Spawned' = Spawned
  BY <1>1, Types, LenProperties DEF Spawned
<1> QED BY <1>1, <1>2, Types DEF Name

\* Goto and Loop change one run.
LEMMA GotoUpdate ==
    ASSUME IInv, NEW r \in Spawned, NEW p \in Looping \cup Over, Goto(r, p)
    PROVE  \E x \in RunRec : /\ run' = [run EXCEPT ![r] = x]
                             /\ x.pc = p /\ x.name = Name(r) /\ x.seen = run[r].seen
                             /\ x.stop = run[r].stop /\ x.idle = run[r].idle
<1> DEFINE x == [run[r] EXCEPT !.pc = p]
<1>1. /\ x \in RunRec /\ x.pc = p /\ x.name = Name(r) /\ x.seen = run[r].seen
      /\ x.stop = run[r].stop /\ x.idle = run[r].idle
  BY Types DEF RunRec, Name
<1>2. run' = [run EXCEPT ![r] = x]
  BY DEF Goto
<1> QED BY <1>1, <1>2

\* So does Loop, which forgets the dispatch.
LEMMA LoopUpdate ==
    ASSUME IInv, NEW r \in Spawned, NEW p \in Looping \cup Over, NEW idle \in BOOLEAN,
           Loop(r, p, idle)
    PROVE  /\ run' = [run EXCEPT ![r] = NoDispatch(r, p, idle)]
           /\ NoDispatch(r, p, idle) \in RunRec
BY Types, TeamAssumption DEF Loop, NoDispatch, RunRec, Name

\* A function on 1..k is a sequence of length k.
LEMMA FunctionIsSeq ==
    ASSUME NEW S, NEW k \in Nat, NEW f \in [1..k -> S]
    PROVE  f \in Seq(S) /\ Len(f) = k
<1>1. f \in Seq(S)
  BY SeqDef
<1>2. DOMAIN f = 1..Len(f) /\ Len(f) \in Nat /\ DOMAIN f = 1..k
  BY <1>1, LenProperties
<1> QED BY <1>1, <1>2

\* Every mailbox has been written to at most MaxMessages times.
LEMMA RoomToPost ==
    ASSUME IInv, NEW n \in Names, Cardinality(Written) < MaxMessages
    PROVE  Len(inbox[n]) < MaxMessages
<1> SUFFICES ASSUME ~(Len(inbox[n]) < MaxMessages) PROVE FALSE
  OBVIOUS
<1>1. Len(inbox[n]) = MaxMessages /\ DOMAIN inbox[n] = 1..MaxMessages
  BY Types, TeamAssumption DEF IInv, SeenShape
<1>2. {n} \X (1..MaxMessages) \subseteq Written
  BY <1>1 DEF Written
<1>3. IsFiniteSet(Names \X (1..MaxMessages)) /\ IsFiniteSet({n} \X (1..MaxMessages))
      /\ Cardinality({n} \X (1..MaxMessages)) = 1 * MaxMessages
  <2>1. IsFiniteSet(1..MaxMessages) /\ Cardinality(1..MaxMessages) = MaxMessages
    BY FS_Interval, TeamAssumption
  <2>2. IsFiniteSet({n}) /\ Cardinality({n}) = 1
    BY FS_Singleton
  <2> QED BY <2>1, <2>2, FS_Product, TeamAssumption, ZenonT(60)
<1>4. IsFiniteSet(Written)
  <2>1. Written \in SUBSET (Names \X (1..MaxMessages))
    BY DEF Written
  <2> QED BY <1>3, <2>1, FS_Subset
<1>5. 1 * MaxMessages <= Cardinality(Written) /\ Cardinality(Written) \in Nat
  <2>1. {n} \X (1..MaxMessages) \in SUBSET Written
    BY <1>2
  <2>2. Cardinality({n} \X (1..MaxMessages)) <= Cardinality(Written)
    BY <1>4, <2>1, FS_Subset
  <2> QED BY <1>3, <1>4, <2>2, FS_CardinalityType
<1> QED BY <1>5, TeamAssumption

\* A new message stands behind the others.
LEMMA PostUpdate ==
    ASSUME IInv, NEW n \in Names, NEW kind \in {"plain", "shutdown"}, NEW k \in 0..MaxRuns,
           Post(n, kind, k)
    PROVE  /\ inbox' \in [Names -> Seq(Message)]
           /\ \A m \in Names : Len(inbox[m]) <= Len(inbox'[m]) /\ Len(inbox'[m]) <= MaxMessages
           /\ \A m \in Names : \A i \in 1..Len(inbox[m]) : inbox'[m][i] = inbox[m][i]
           /\ \A m \in Names : \A i \in 1..Len(inbox'[m]) :
                 i \in 1..Len(inbox[m]) \/ inbox'[m][i] = NewMessage(kind, k)
<1> DEFINE new == NewMessage(kind, k)
           box == Append(inbox[n], new)
<1>1. new \in Message
  BY DEF NewMessage, Message
<1>2. inbox' = [inbox EXCEPT ![n] = box]
  BY DEF Post
<1>3. /\ box \in Seq(Message) /\ Len(box) = Len(inbox[n]) + 1
      /\ \A i \in 1..Len(inbox[n]) : box[i] = inbox[n][i]
      /\ box[Len(inbox[n]) + 1] = new
  <2>1. inbox[n] \in Seq(Message)
    BY Types
  <2> HIDE DEF new
  <2> QED BY <1>1, <2>1, AppendProperties
<1>4. Len(inbox[n]) < MaxMessages
  BY RoomToPost DEF Post
<1> HIDE DEF box, new
<1>5. inbox' \in [Names -> Seq(Message)] /\ inbox'[n] = box
      /\ \A m \in Names : m # n => inbox'[m] = inbox[m]
  BY <1>2, <1>3, Types
<1>6. \A m \in Names : Len(inbox[m]) <= MaxMessages
  BY DEF IInv, SeenShape
<1>7. \A i \in 1..Len(box) : i \in 1..Len(inbox[n]) \/ box[i] = new
  BY <1>3, Types
<1>8. \A m \in Names : \A i \in 1..Len(inbox[m]) : inbox'[m][i] = inbox[m][i]
  BY <1>3, <1>5
<1>9. \A m \in Names : Len(inbox[m]) <= Len(inbox'[m]) /\ Len(inbox'[m]) <= MaxMessages
  <2>1. \A m \in Names : Len(inbox[m]) \in Nat
    BY Types
  <2>2. Len(inbox[n]) <= Len(box) /\ Len(box) <= MaxMessages
    BY <1>3, <1>4, <2>1, TeamAssumption
  <2> QED BY <1>5, <1>6, <2>1, <2>2, TeamAssumption
<1>10. \A m \in Names : \A i \in 1..Len(inbox'[m]) : i \in 1..Len(inbox[m]) \/ inbox'[m][i] = new
  BY <1>5, <1>7
<1> QED BY <1>5, <1>8, <1>9, <1>10 DEF new

\* An injection touches the plain entries of one mailbox that are unread and
\* not behind the k-th one.
LEMMA InjectUpdate ==
    ASSUME IInv, NEW n \in Names, NEW k \in Nat, Inject(n, k)
    PROVE  /\ inbox' \in [Names -> Seq(Message)]
           /\ \A m \in Names : Len(inbox'[m]) = Len(inbox[m])
           /\ \A m \in Names : \A i \in 1..Len(inbox[m]) :
                 /\ inbox'[m][i].kind = inbox[m][i].kind
                 /\ inbox'[m][i].read = inbox[m][i].read
                 /\ inbox'[m][i].raced = inbox[m][i].raced
                 /\ inbox[m][i].injected => inbox'[m][i].injected
                 /\ inbox'[m][i].injected => inbox[m][i].injected \/ inbox[m][i].kind = "plain"
           /\ \A i \in 1..Len(inbox[n]) :
                 inbox[n][i].kind = "plain" /\ ~inbox[n][i].read /\ i <= k
                    => inbox'[n][i].injected
<1> DEFINE new(i) == [inbox[n][i] EXCEPT !.injected = @ \/ i \in Batch(n, k)]
           box == [i \in 1..Len(inbox[n]) |-> new(i)]
<1>1. /\ inbox[n] \in Seq(Message) /\ Len(inbox[n]) \in Nat /\ DOMAIN inbox[n] = 1..Len(inbox[n])
      /\ \A i \in 1..Len(inbox[n]) : inbox[n][i] \in Message
  BY Types, ElementOfSeq
<1>2. inbox' = [inbox EXCEPT ![n] = box]
  BY <1>1, Types DEF Inject
<1>3. \A i \in 1..Len(inbox[n]) :
         /\ new(i) \in Message /\ new(i).kind = inbox[n][i].kind
         /\ new(i).read = inbox[n][i].read /\ new(i).raced = inbox[n][i].raced
         /\ new(i).injected <=> inbox[n][i].injected \/ i \in Batch(n, k)
  BY <1>1 DEF Message
<1>4. \A i \in 1..Len(inbox[n]) :
         i \in Batch(n, k) <=> inbox[n][i].kind = "plain" /\ ~inbox[n][i].read /\ i <= k
  BY <1>1 DEF Batch, Unread
<1> HIDE DEF new
<1>5. box \in Seq(Message) /\ Len(box) = Len(inbox[n])
  BY <1>1, <1>3, FunctionIsSeq
<1>6. \A i \in 1..Len(inbox[n]) : box[i] = new(i)
  OBVIOUS
<1> HIDE DEF box
<1>7. inbox' \in [Names -> Seq(Message)] /\ inbox'[n] = box
      /\ \A m \in Names : m # n => inbox'[m] = inbox[m]
  BY <1>2, <1>5, Types
<1>8. \A m \in Names : Len(inbox'[m]) = Len(inbox[m])
  BY <1>5, <1>7
<1>9. \A m \in Names : \A i \in 1..Len(inbox[m]) :
                 /\ inbox'[m][i].kind = inbox[m][i].kind
                 /\ inbox'[m][i].read = inbox[m][i].read
                 /\ inbox'[m][i].raced = inbox[m][i].raced
                 /\ inbox[m][i].injected => inbox'[m][i].injected
                 /\ inbox'[m][i].injected => inbox[m][i].injected \/ inbox[m][i].kind = "plain"
  BY <1>3, <1>4, <1>6, <1>7
<1>10. \A i \in 1..Len(inbox[n]) :
          inbox[n][i].kind = "plain" /\ ~inbox[n][i].read /\ i <= k => inbox'[n][i].injected
  BY <1>3, <1>4, <1>6, <1>7
<1> QED BY <1>7, <1>8, <1>9, <1>10

\* A mark reads the whole mailbox, and says of what it had not read that it raced.
LEMMA MarkUpdate ==
    ASSUME IInv, NEW r \in Spawned, MarkAll(r)
    PROVE  /\ inbox' \in [Names -> Seq(Message)]
           /\ \A m \in Names : Len(inbox'[m]) = Len(inbox[m])
           /\ \A m \in Names : \A i \in 1..Len(inbox[m]) :
                 /\ inbox'[m][i].kind = inbox[m][i].kind
                 /\ inbox'[m][i].injected = inbox[m][i].injected
                 /\ m # Name(r) => inbox'[m][i] = inbox[m][i]
                 /\ m = Name(r) =>
                       /\ inbox'[m][i].read
                       /\ inbox[m][i].raced => inbox'[m][i].raced
                       /\ i > run[r].seen /\ ~inbox[m][i].read => inbox'[m][i].raced
<1> DEFINE n == Name(r)
           new(i) == [inbox[n][i] EXCEPT !.read = TRUE,
                                         !.raced = @ \/ (i > run[r].seen /\ ~inbox[n][i].read)]
           box == [i \in 1..Len(inbox[n]) |-> new(i)]
<1>1. /\ n \in Names /\ inbox[n] \in Seq(Message) /\ Len(inbox[n]) \in Nat
      /\ DOMAIN inbox[n] = 1..Len(inbox[n])
      /\ \A i \in 1..Len(inbox[n]) : inbox[n][i] \in Message
  BY Types, ElementOfSeq
<1>2. inbox' = [inbox EXCEPT ![n] = box]
  BY <1>1, Types DEF MarkAll
<1>3. \A i \in 1..Len(inbox[n]) :
         /\ new(i) \in Message /\ new(i).kind = inbox[n][i].kind /\ new(i).read
         /\ new(i).injected = inbox[n][i].injected
         /\ new(i).raced <=> inbox[n][i].raced \/ (i > run[r].seen /\ ~inbox[n][i].read)
  BY <1>1 DEF Message
<1> HIDE DEF new
<1>4. box \in Seq(Message) /\ Len(box) = Len(inbox[n])
  BY <1>1, <1>3, FunctionIsSeq
<1>5. \A i \in 1..Len(inbox[n]) : box[i] = new(i)
  OBVIOUS
<1> HIDE DEF box
<1>6. inbox' \in [Names -> Seq(Message)] /\ inbox'[n] = box
      /\ \A m \in Names : m # n => inbox'[m] = inbox[m]
  BY <1>1, <1>2, <1>4, Types
<1>7. \A m \in Names : Len(inbox'[m]) = Len(inbox[m])
  BY <1>4, <1>6
<1> HIDE DEF n
<1>8. \A i \in 1..Len(inbox[n]) :
         /\ inbox'[n][i].kind = inbox[n][i].kind /\ inbox'[n][i].injected = inbox[n][i].injected
         /\ inbox'[n][i].read
         /\ inbox'[n][i].raced <=> inbox[n][i].raced \/ (i > run[r].seen /\ ~inbox[n][i].read)
  BY <1>3, <1>5, <1>6
<1>9. \A m \in Names : \A i \in 1..Len(inbox[m]) :
                 /\ inbox'[m][i].kind = inbox[m][i].kind
                 /\ inbox'[m][i].injected = inbox[m][i].injected
                 /\ m # n => inbox'[m][i] = inbox[m][i]
                 /\ m = n =>
                       /\ inbox'[m][i].read
                       /\ inbox[m][i].raced => inbox'[m][i].raced
                       /\ i > run[r].seen /\ ~inbox[m][i].read => inbox'[m][i].raced
  BY <1>6, <1>8
<1> QED BY <1>6, <1>7, <1>9 DEF n

----------------------------------------------------------------------------
(* Steps of a coroutine.                                                   *)

\* A run that goes on outside a dispatch is at no point the invariant speaks of,
\* but for being in the table.
LEMMA GoesOn ==
    ASSUME IInv, NEW r \in Spawned, NEW x \in RunRec, run' = [run EXCEPT ![r] = x],
           run[r].pc \in Looping, x.pc \in {"poll", "work", "report", "claim", "wait"},
           x.name = Name(r), x.seen \in {0, run[r].seen}, r \notin approved,
           UNCHANGED <<member, active, asked, inbox, restarts, stranded, approved>>
    PROVE  IInv'
<1>1. /\ run' \in Seq(RunRec) /\ Len(run') = Len(run) /\ Spawned' = Spawned /\ run'[r] = x
      /\ \A q \in Spawned : q # r => run'[q] = run[q]
      /\ \A q \in Spawned : Name(q)' = Name(q)
  BY RunUpdate
<1>2. TypeOK'
  BY <1>1 DEF IInv, TypeOK
<1>3. LoopShape'
  BY <1>1, Types DEF IInv, LoopShape, Looping
<1>4. SeenShape'
  BY <1>1, Types DEF IInv, SeenShape
<1>5. MarkFacts' /\ StopFacts' /\ ApprovalIsFinal'
  BY <1>1 DEF IInv, MarkFacts, StopFacts, ApprovalIsFinal, TypeOK
<1>6. FreeNameCanBeSpawned' /\ ReadMeansInjected'
  BY DEF IInv, FreeNameCanBeSpawned, ReadMeansInjected
<1> QED BY <1>2, <1>3, <1>4, <1>5, <1>6 DEF IInv

\* The table and the team file let the name go together.
LEMMA Finishes ==
    ASSUME IInv, NEW r \in Spawned, run[r].pc \in Looping, Finish(r)
    PROVE  IInv'
<1> DEFINE x == NoDispatch(r, "broadcast", FALSE)
<1>1. run' = [run EXCEPT ![r] = x] /\ x \in RunRec /\ x.pc = "broadcast" /\ x.name = Name(r)
      /\ x.seen = 0
  BY LoopUpdate DEF Finish, Over, NoDispatch
<1> HIDE DEF x
<1>2. /\ run' \in Seq(RunRec) /\ Len(run') = Len(run) /\ Spawned' = Spawned /\ run'[r] = x
      /\ \A q \in Spawned : q # r => run'[q] = run[q]
      /\ \A q \in Spawned : Name(q)' = Name(q)
  BY <1>1, RunUpdate
<1>3. /\ active' = [active EXCEPT ![Name(r)] = 0] /\ member' = [member EXCEPT ![Name(r)] = FALSE]
      /\ UNCHANGED <<asked, inbox, restarts, stranded, approved>>
  BY DEF Finish, Deregister
<1>4. TypeOK'
  <2>1. active' \in [Names -> 0..MaxRuns] /\ member' \in [Names -> BOOLEAN]
    BY <1>3, Types, TeamAssumption
  <2> QED BY <1>2, <1>3, <2>1 DEF IInv, TypeOK
<1>5. LoopShape'
  BY <1>1, <1>2, <1>3, Types DEF IInv, LoopShape, Looping
<1>6. SeenShape'
  BY <1>1, <1>2, <1>3, Types DEF IInv, SeenShape
<1>7. MarkFacts' /\ StopFacts' /\ ApprovalIsFinal'
  BY <1>1, <1>2, <1>3 DEF IInv, MarkFacts, StopFacts, ApprovalIsFinal, TypeOK, Over
<1>8. FreeNameCanBeSpawned' /\ ReadMeansInjected'
  BY <1>3, Types DEF IInv, FreeNameCanBeSpawned, ReadMeansInjected
<1> QED BY <1>4, <1>5, <1>6, <1>7, <1>8 DEF IInv

\* Working, reporting, claiming and waiting change the run alone.
LEMMA WorkingStep ==
    ASSUME IInv, NEW r \in Spawned, Work(r) \/ Report(r) \/ Claim(r) \/ Wait(r)
    PROVE  IInv'
<1>1. run[r].pc \in {"work", "report", "claim", "wait"}
  BY DEF Work, Report, Claim, Wait, At
<1>2. run[r].pc \in Looping /\ r \notin approved
  BY <1>1 DEF IInv, ApprovalIsFinal, Looping, Over
<1>3. PICK x \in RunRec :
         /\ run' = [run EXCEPT ![r] = x] /\ x.name = Name(r) /\ x.seen \in {0, run[r].seen}
         /\ x.pc \in {"poll", "report", "claim", "wait"}
  <2>1. CASE \E p \in {"report", "wait", "poll"} : Goto(r, p)
    <3>1. PICK p \in {"report", "wait", "poll"} : Goto(r, p)
      BY <2>1
    <3> QED BY <3>1, GotoUpdate DEF Looping
  <2>2. CASE \E idle \in BOOLEAN : Loop(r, "poll", idle)
    <3>1. PICK idle \in BOOLEAN : Loop(r, "poll", idle)
      BY <2>2
    <3> DEFINE y == NoDispatch(r, "poll", idle)
    <3>2. run' = [run EXCEPT ![r] = y] /\ y \in RunRec
      BY <3>1, LoopUpdate DEF Looping
    <3>3. y.pc = "poll" /\ y.name = Name(r) /\ y.seen = 0
      BY DEF NoDispatch
    <3> QED BY <3>2, <3>3
  <2> QED BY <2>1, <2>2 DEF Work, Report, Claim, Wait
<1>4. UNCHANGED <<member, active, asked, inbox, restarts, stranded, approved>>
  BY DEF Work, Report, Claim, Wait
<1> QED BY <1>2, <1>3, <1>4, GoesOn

\* An error or the last time limit ends the run.
LEMMA EndingStep ==
    ASSUME IInv, NEW r \in Spawned, Fail(r) \/ Timeout(r)
    PROVE  IInv'
BY Finishes DEF Fail, Timeout, At, Looping

\* A dispatch that found a request ends the run, any other goes on.
LEMMA ReturnStep ==
    ASSUME IInv, NEW r \in Spawned, Return(r)
    PROVE  IInv'
<1>1. run[r].pc = "return" /\ run[r].pc \in Looping
  BY DEF Return, At, Looping
<1>2. CASE Stops(r)
  BY <1>1, <1>2, Finishes DEF Return
<1>3. CASE ~Stops(r)
  <2>1. r \notin approved
    BY <1>1, <1>3 DEF IInv, StopFacts, Stops
  <2>2. \E p \in {"work", "poll", "claim"}, idle \in BOOLEAN : Loop(r, p, idle)
    <3>1. run[r].idle \in BOOLEAN /\ run[r].plain \in BOOLEAN
      BY Types DEF RunRec
    <3> QED BY <1>3, <3>1 DEF Return, Continue
  <2>3. UNCHANGED <<member, active, asked, inbox, restarts, stranded, approved>>
    BY <1>3 DEF Return
  <2> QED BY <1>1, <2>1, <2>2, <2>3, LoopUpdate, GoesOn, ZenonT(60) DEF Looping, NoDispatch
<1> QED BY <1>2, <1>3

\* The notices of the end, and the team file once more.
LEMMA BroadcastStep ==
    ASSUME IInv, NEW r \in Spawned, Broadcast(r)
    PROVE  IInv'
<1>1. PICK x \in RunRec : /\ run' = [run EXCEPT ![r] = x] /\ x.pc = "dead" /\ x.name = Name(r)
                          /\ x.seen = run[r].seen
  BY GotoUpdate DEF Broadcast, Over
<1>2. /\ run' \in Seq(RunRec) /\ Len(run') = Len(run) /\ Spawned' = Spawned /\ run'[r] = x
      /\ \A q \in Spawned : q # r => run'[q] = run[q]
      /\ \A q \in Spawned : Name(q)' = Name(q)
  BY <1>1, RunUpdate
<1>3. /\ run[r].pc = "broadcast"
      /\ member' \in [Names -> BOOLEAN] /\ \A n \in Names : member'[n] => member[n]
      /\ UNCHANGED <<active, asked, inbox, restarts, stranded, approved>>
  BY Types DEF Broadcast, At
<1>4. TypeOK'
  BY <1>2, <1>3, Types DEF IInv, TypeOK
<1>5. LoopShape'
  BY <1>1, <1>2, <1>3, Types DEF IInv, LoopShape, Looping
<1>6. SeenShape'
  BY <1>1, <1>2, <1>3, Types DEF IInv, SeenShape
<1>7. MarkFacts' /\ StopFacts' /\ ApprovalIsFinal'
  BY <1>1, <1>2, <1>3 DEF IInv, MarkFacts, StopFacts, ApprovalIsFinal, TypeOK, Over
<1>8. FreeNameCanBeSpawned' /\ ReadMeansInjected'
  BY <1>3, Types DEF IInv, FreeNameCanBeSpawned, ReadMeansInjected
<1> QED BY <1>4, <1>5, <1>6, <1>7, <1>8 DEF IInv

\* Injecting and marking what is there disturbs no mailbox property but those of
\* the run that does it.
LEMMA InboxTypes ==
    ASSUME IInv, inbox' \in [Names -> Seq(Message)],
           \A m \in Names : Len(inbox'[m]) = Len(inbox[m]),
           \A m \in Names : \A i \in 1..Len(inbox[m]) :
              /\ inbox'[m][i].kind = inbox[m][i].kind
              /\ inbox'[m][i].injected => inbox[m][i].injected \/ inbox[m][i].kind = "plain"
    PROVE  /\ \A m \in Names : DOMAIN inbox'[m] = 1..Len(inbox[m])
           /\ \A m \in Names : \A i \in DOMAIN inbox'[m] :
                 inbox'[m][i].injected => inbox'[m][i].kind = "plain"
<1>1. \A m \in Names : DOMAIN inbox'[m] = 1..Len(inbox[m])
  BY LenProperties
<1>2. \A m \in Names : \A i \in 1..Len(inbox[m]) :
         inbox[m][i].injected => inbox[m][i].kind = "plain"
  BY Types DEF IInv, TypeOK
<1>3. ASSUME NEW m \in Names, NEW i \in DOMAIN inbox'[m], inbox'[m][i].injected
      PROVE  inbox'[m][i].kind = "plain"
  BY <1>1, <1>2, <1>3
<1> QED BY <1>1, <1>3

\* The dispatch reads the mailbox: with a request it answers first, otherwise what
\* it has read is injected at once.
LEMMA PollStep ==
    ASSUME IInv, NEW r \in Spawned, Poll(r)
    PROVE  IInv'
<1> DEFINE n     == Name(r)
           stop  == FindsStop(n)
           plain == Unread(n, "plain") # {}
           pc    == CASE stop -> "answer" [] plain /\ ~stop -> "mark" [] OTHER -> "return"
           x     == [run[r] EXCEPT !.seen = Len(inbox[n]), !.stop = stop, !.plain = plain, !.pc = pc]
<1>1. run[r].pc = "poll" /\ run[r].pc \in Looping /\ active[n] = r /\ n \in Names
  BY Types DEF Poll, At, Looping, IInv, LoopShape
<1>2. r \notin approved
  BY <1>1 DEF IInv, ApprovalIsFinal, Over
<1>3. Len(inbox[n]) \in 0..MaxMessages
  BY <1>1, Types, TeamAssumption DEF IInv, SeenShape
<1>4. stop \in BOOLEAN /\ plain \in BOOLEAN
  BY DEF FindsStop
<1>5. /\ run' = [run EXCEPT ![r] = x]
      /\ UNCHANGED <<member, active, asked, restarts, stranded, approved>>
      /\ IF plain /\ ~stop THEN Inject(n, Len(inbox[n])) ELSE UNCHANGED inbox
  BY <1>1 DEF Poll, ShutdownRequested
<1>6. /\ x \in RunRec /\ x.name = n /\ x.pc = pc /\ x.seen = Len(inbox[n]) /\ x.stop = stop
      /\ pc \in {"answer", "mark", "return"}
      /\ pc = "mark" <=> plain /\ ~stop
      /\ pc = "answer" <=> stop
  <2> HIDE DEF stop, plain
  <2>1. pc \in {"answer", "mark", "return"} /\ (pc = "mark" <=> plain /\ ~stop)
        /\ (pc = "answer" <=> stop)
    BY <1>4
  <2> HIDE DEF pc
  <2>2. run[r] \in RunRec /\ run[r].name = n
    BY Types DEF Name
  <2> QED BY <1>3, <1>4, <2>1, <2>2 DEF RunRec, Looping
<1> HIDE DEF x, pc, stop, plain
<1>7. /\ run' \in Seq(RunRec) /\ Len(run') = Len(run) /\ Spawned' = Spawned /\ run'[r] = x
      /\ \A q \in Spawned : q # r => run'[q] = run[q]
      /\ \A q \in Spawned : Name(q)' = Name(q)
  BY <1>5, <1>6, RunUpdate
<1>8. /\ inbox' \in [Names -> Seq(Message)]
      /\ \A m \in Names : Len(inbox'[m]) = Len(inbox[m])
      /\ \A m \in Names : \A i \in 1..Len(inbox[m]) :
            /\ inbox'[m][i].kind = inbox[m][i].kind
            /\ inbox'[m][i].read = inbox[m][i].read
            /\ inbox'[m][i].raced = inbox[m][i].raced
            /\ inbox[m][i].injected => inbox'[m][i].injected
            /\ inbox'[m][i].injected => inbox[m][i].injected \/ inbox[m][i].kind = "plain"
  BY <1>1, <1>3, <1>5, Types, InjectUpdate
<1>9. pc = "mark" => \A i \in 1..Len(inbox[n]) :
         inbox[n][i].kind = "plain" /\ ~inbox[n][i].read => inbox'[n][i].injected
  BY <1>1, <1>3, <1>5, <1>6, InjectUpdate
<1>10. /\ \A m \in Names : DOMAIN inbox'[m] = 1..Len(inbox[m])
       /\ \A m \in Names : \A i \in DOMAIN inbox'[m] :
             inbox'[m][i].injected => inbox'[m][i].kind = "plain"
  BY <1>8, InboxTypes
<1>11. TypeOK'
  BY <1>5, <1>7, <1>8, <1>10 DEF IInv, TypeOK
<1>12. LoopShape'
  BY <1>1, <1>5, <1>6, <1>7, Types DEF IInv, LoopShape, Looping
<1>13. SeenShape'
  <2>1. ASSUME NEW q \in Spawned PROVE run'[q].seen <= Len(inbox[Name(q)])
    <3>1. CASE q = r
      BY <1>3, <1>6, <1>7, <3>1, TeamAssumption
    <3>2. CASE q # r
      BY <1>7, <3>2 DEF IInv, SeenShape
    <3> QED BY <3>1, <3>2
  <2>2. \A q \in Spawned' : run'[q].seen <= Len(inbox'[Name(q)'])
    BY <1>7, <1>8, <2>1, Types
  <2>3. \A m \in Names : Len(inbox'[m]) <= MaxMessages
    BY <1>8 DEF IInv, SeenShape
  <2> QED BY <2>2, <2>3 DEF SeenShape
<1>14. MarkFacts'
  <2> SUFFICES ASSUME NEW q \in Spawned, run'[q].pc = "mark", NEW i \in 1..Len(inbox[Name(q)]),
                      i <= run'[q].seen, inbox'[Name(q)][i].kind = "plain",
                      ~inbox'[Name(q)][i].read
               PROVE  inbox'[Name(q)][i].injected
    BY <1>7, <1>8, Types DEF MarkFacts
  <2>1. CASE q = r
    BY <1>6, <1>7, <1>8, <1>9, <2>1, Types
  <2>2. CASE q # r
    BY <1>7, <1>8, <2>2, Types DEF IInv, MarkFacts
  <2> QED BY <2>1, <2>2
<1>15. StopFacts' /\ ApprovalIsFinal'
  BY <1>2, <1>5, <1>6, <1>7 DEF IInv, StopFacts, ApprovalIsFinal, TypeOK
<1>16. FreeNameCanBeSpawned'
  BY <1>5 DEF IInv, FreeNameCanBeSpawned
<1>17. ReadMeansInjected'
  BY <1>8, <1>10, Types DEF IInv, ReadMeansInjected
<1> QED BY <1>11, <1>12, <1>13, <1>14, <1>15, <1>16, <1>17 DEF IInv

\* A run that answers a request stays in the dispatch that found it.
LEMMA AnswerStep ==
    ASSUME IInv, NEW r \in Spawned, Answer(r)
    PROVE  IInv'
<1> DEFINE n == Name(r)
<1>1. /\ run[r].pc = "answer" /\ run[r].stop /\ active[n] = r /\ n \in Names
      /\ run[r].seen \in Nat
  BY Types DEF Answer, At, IInv, StopFacts, LoopShape, Looping
<1>2. PICK x \in RunRec : /\ run' = [run EXCEPT ![r] = x] /\ x.pc \in {"mark", "return"}
                          /\ x.name = n /\ x.seen = run[r].seen /\ x.stop = run[r].stop
                          /\ x.pc = "mark" => Inject(n, run[r].seen)
                          /\ x.pc = "return" => UNCHANGED inbox
  <2>1. CASE run[r].plain
    <3>1. Goto(r, "mark") /\ Inject(n, run[r].seen)
      BY <2>1 DEF Answer
    <3> QED BY <3>1, GotoUpdate DEF Looping
  <2>2. CASE ~run[r].plain
    <3>1. Goto(r, "return") /\ UNCHANGED inbox
      BY <2>2 DEF Answer
    <3> QED BY <3>1, GotoUpdate DEF Looping
  <2> QED BY <2>1, <2>2
<1>3. /\ run' \in Seq(RunRec) /\ Len(run') = Len(run) /\ Spawned' = Spawned /\ run'[r] = x
      /\ \A q \in Spawned : q # r => run'[q] = run[q]
      /\ \A q \in Spawned : Name(q)' = Name(q)
  BY <1>2, RunUpdate
<1>4. approved' = approved \cup {r} /\ UNCHANGED <<member, active, asked, restarts, stranded>>
  BY DEF Answer
<1>5. /\ inbox' \in [Names -> Seq(Message)]
      /\ \A m \in Names : Len(inbox'[m]) = Len(inbox[m])
      /\ \A m \in Names : \A i \in 1..Len(inbox[m]) :
            /\ inbox'[m][i].kind = inbox[m][i].kind
            /\ inbox'[m][i].read = inbox[m][i].read
            /\ inbox'[m][i].raced = inbox[m][i].raced
            /\ inbox[m][i].injected => inbox'[m][i].injected
            /\ inbox'[m][i].injected => inbox[m][i].injected \/ inbox[m][i].kind = "plain"
  BY <1>1, <1>2, Types, InjectUpdate
<1>6. x.pc = "mark" => \A i \in 1..Len(inbox[n]) :
         inbox[n][i].kind = "plain" /\ ~inbox[n][i].read /\ i <= run[r].seen
            => inbox'[n][i].injected
  BY <1>1, <1>2, InjectUpdate
<1>7. /\ \A m \in Names : DOMAIN inbox'[m] = 1..Len(inbox[m])
      /\ \A m \in Names : \A i \in DOMAIN inbox'[m] :
            inbox'[m][i].injected => inbox'[m][i].kind = "plain"
  BY <1>5, InboxTypes
<1>8. TypeOK'
  BY <1>3, <1>4, <1>5, <1>7 DEF IInv, TypeOK
<1>9. LoopShape'
  BY <1>1, <1>2, <1>3, <1>4, Types DEF IInv, LoopShape, Looping
<1>10. SeenShape'
  <2>1. \A q \in Spawned : run'[q].seen <= Len(inbox[Name(q)])
    BY <1>2, <1>3 DEF IInv, SeenShape
  <2>2. \A q \in Spawned' : run'[q].seen <= Len(inbox'[Name(q)'])
    BY <1>3, <1>5, <2>1, Types
  <2>3. \A m \in Names : Len(inbox'[m]) <= MaxMessages
    BY <1>5 DEF IInv, SeenShape
  <2> QED BY <2>2, <2>3 DEF SeenShape
<1>11. MarkFacts'
  <2> SUFFICES ASSUME NEW q \in Spawned, run'[q].pc = "mark", NEW i \in 1..Len(inbox[Name(q)]),
                      i <= run'[q].seen, inbox'[Name(q)][i].kind = "plain",
                      ~inbox'[Name(q)][i].read
               PROVE  inbox'[Name(q)][i].injected
    BY <1>3, <1>5, Types DEF MarkFacts
  <2>1. CASE q = r
    BY <1>2, <1>3, <1>5, <1>6, <2>1, Types
  <2>2. CASE q # r
    BY <1>3, <1>5, <2>2, Types DEF IInv, MarkFacts
  <2> QED BY <2>1, <2>2
<1>12. StopFacts' /\ ApprovalIsFinal'
  BY <1>1, <1>2, <1>3, <1>4 DEF IInv, StopFacts, ApprovalIsFinal, TypeOK
<1>13. FreeNameCanBeSpawned'
  BY <1>4 DEF IInv, FreeNameCanBeSpawned
<1>14. ReadMeansInjected'
  BY <1>5, <1>7, Types DEF IInv, ReadMeansInjected
<1> QED BY <1>8, <1>9, <1>10, <1>11, <1>12, <1>13, <1>14 DEF IInv

\* What the mark takes with it was read and injected, or came in between.
LEMMA MarkStep ==
    ASSUME IInv, NEW r \in Spawned, Mark(r)
    PROVE  IInv'
<1> DEFINE n == Name(r)
<1>1. run[r].pc = "mark" /\ active[n] = r /\ n \in Names /\ run[r].seen \in Nat
  BY Types DEF Mark, At, IInv, LoopShape, Looping
<1>2. PICK x \in RunRec : /\ run' = [run EXCEPT ![r] = x] /\ x.pc = "return" /\ x.name = n
                          /\ x.seen = run[r].seen /\ x.stop = run[r].stop
  BY GotoUpdate DEF Mark, Looping
<1>3. /\ run' \in Seq(RunRec) /\ Len(run') = Len(run) /\ Spawned' = Spawned /\ run'[r] = x
      /\ \A q \in Spawned : q # r => run'[q] = run[q]
      /\ \A q \in Spawned : Name(q)' = Name(q)
  BY <1>2, RunUpdate
<1>4. UNCHANGED <<member, active, asked, restarts, stranded, approved>>
  BY DEF Mark
<1>5. /\ inbox' \in [Names -> Seq(Message)]
      /\ \A m \in Names : Len(inbox'[m]) = Len(inbox[m])
      /\ \A m \in Names : \A i \in 1..Len(inbox[m]) :
            /\ inbox'[m][i].kind = inbox[m][i].kind
            /\ inbox'[m][i].injected = inbox[m][i].injected
            /\ m # n => inbox'[m][i] = inbox[m][i]
            /\ m = n => /\ inbox'[m][i].read
                        /\ inbox[m][i].raced => inbox'[m][i].raced
                        /\ i > run[r].seen /\ ~inbox[m][i].read => inbox'[m][i].raced
  BY MarkUpdate DEF Mark
<1>6. /\ \A m \in Names : DOMAIN inbox'[m] = 1..Len(inbox[m])
      /\ \A m \in Names : \A i \in DOMAIN inbox'[m] :
            inbox'[m][i].injected => inbox'[m][i].kind = "plain"
  BY <1>5, InboxTypes
<1>7. TypeOK'
  BY <1>3, <1>4, <1>5, <1>6 DEF IInv, TypeOK
<1>8. LoopShape'
  BY <1>1, <1>2, <1>3, <1>4, Types DEF IInv, LoopShape, Looping
<1>9. SeenShape'
  <2>1. \A q \in Spawned : run'[q].seen <= Len(inbox[Name(q)])
    BY <1>2, <1>3 DEF IInv, SeenShape
  <2>2. \A q \in Spawned' : run'[q].seen <= Len(inbox'[Name(q)'])
    BY <1>3, <1>5, <2>1, Types
  <2>3. \A m \in Names : Len(inbox'[m]) <= MaxMessages
    BY <1>5 DEF IInv, SeenShape
  <2> QED BY <2>2, <2>3 DEF SeenShape
<1>10. MarkFacts'
  <2> SUFFICES ASSUME NEW q \in Spawned, run'[q].pc = "mark", NEW i \in 1..Len(inbox[Name(q)]),
                      i <= run'[q].seen, inbox'[Name(q)][i].kind = "plain",
                      ~inbox'[Name(q)][i].read
               PROVE  inbox'[Name(q)][i].injected
    BY <1>3, <1>5, Types DEF MarkFacts
  <2>1. q # r /\ Name(q) # n
    BY <1>2, <1>3, <1>5, Types
  <2> QED BY <1>3, <1>5, <2>1, Types DEF IInv, MarkFacts
<1>11. StopFacts' /\ ApprovalIsFinal'
  BY <1>1, <1>2, <1>3, <1>4 DEF IInv, StopFacts, ApprovalIsFinal, TypeOK
<1>12. FreeNameCanBeSpawned'
  BY <1>4 DEF IInv, FreeNameCanBeSpawned
<1>13. ReadMeansInjected'
  <2> SUFFICES ASSUME NEW m \in Names, NEW i \in 1..Len(inbox[m]), inbox[m][i].kind = "plain",
                      inbox'[m][i].read
               PROVE  inbox'[m][i].injected \/ inbox'[m][i].raced
    BY <1>5, <1>6 DEF ReadMeansInjected
  <2>1. inbox[m][i].read => inbox[m][i].injected \/ inbox[m][i].raced
    BY Types DEF IInv, ReadMeansInjected
  <2>2. m = n /\ ~inbox[m][i].read /\ i <= run[r].seen => inbox[m][i].injected
    BY <1>1 DEF IInv, MarkFacts
  <2> QED BY <1>1, <1>5, <2>1, <2>2
<1> QED BY <1>7, <1>8, <1>9, <1>10, <1>11, <1>12, <1>13 DEF IInv

----------------------------------------------------------------------------
(* Steps of the lead and of the process.                                   *)

\* The file and the table are written before the loop has read anything.
LEMMA SpawnStep ==
    ASSUME IInv, NEW n \in Names, Spawn(n)
    PROVE  IInv'
<1> DEFINE x == [name |-> n, pc |-> "poll", idle |-> FALSE, seen |-> 0, stop |-> FALSE,
                 plain |-> FALSE]
<1>1. PICK k \in 1..MaxRuns : k = Len(run) + 1 /\ k \notin Spawned /\ active[n] = 0
  BY Types, TeamAssumption DEF Spawn, CanSpawn
<1>2. /\ run' = Append(run, x) /\ active' = [active EXCEPT ![n] = k]
      /\ member' = [member EXCEPT ![n] = TRUE]
      /\ UNCHANGED <<asked, inbox, restarts, stranded, approved>>
  BY <1>1 DEF Spawn
<1>3. x \in RunRec /\ x.name = n /\ x.pc = "poll" /\ x.seen = 0
  BY TeamAssumption DEF RunRec, Looping
<1> HIDE DEF x
<1>4. /\ run' \in Seq(RunRec) /\ Len(run') = k /\ run'[k] = x
      /\ \A q \in 1..Len(run) : run'[q] = run[q]
  BY <1>1, <1>2, <1>3, Types, AppendProperties
<1>5. Spawned' = Spawned \cup {k}
  <2>1. DOMAIN run' = 1..k
    BY <1>4, LenProperties
  <2> QED BY <1>1, <2>1, Types DEF Spawned
<1>6. run'[k].name = n /\ \A q \in Spawned : run'[q] = run[q] /\ Name(q)' = Name(q)
  BY <1>3, <1>4, Types DEF Name
<1>7. /\ active' \in [Names -> 0..MaxRuns] /\ active'[n] = k
      /\ \A m \in Names : m # n => active'[m] = active[m]
      /\ member' \in [Names -> BOOLEAN] /\ \A m \in Names : m # n => member'[m] = member[m]
  BY <1>1, <1>2, Types
<1>8. TypeOK'
  BY <1>1, <1>2, <1>4, <1>5, <1>7 DEF IInv, TypeOK
<1>9. LoopShape'
  <2>1. ASSUME NEW q \in Spawned' PROVE run'[q].pc \in Looping <=> active'[run'[q].name] = q
    <3>1. CASE q = k
      BY <1>3, <1>4, <1>6, <1>7, <3>1 DEF Looping
    <3>2. CASE q \in Spawned /\ Name(q) = n
      <4>1. run[q].pc \in Looping <=> active[n] = q
        BY <3>2 DEF IInv, LoopShape
      <4>2. q # 0 /\ q # k
        BY <1>1, <3>2, Types
      <4> QED BY <1>1, <1>6, <1>7, <3>2, <4>1, <4>2 DEF Name
    <3>3. CASE q \in Spawned /\ Name(q) # n
      <4>1. run[q].pc \in Looping <=> active[Name(q)] = q
        BY <3>3 DEF IInv, LoopShape
      <4> QED BY <1>6, <1>7, <3>3, <4>1, Types DEF Name
    <3> QED BY <1>5, <3>1, <3>2, <3>3
  <2>2. ASSUME NEW m \in Names, active'[m] # 0
        PROVE  active'[m] \in Spawned' /\ run'[active'[m]].name = m
    <3>1. CASE m = n
      BY <1>5, <1>6, <1>7, <3>1
    <3>2. CASE m # n
      BY <1>5, <1>6, <1>7, <2>2, <3>2 DEF IInv, LoopShape, Name
    <3> QED BY <3>1, <3>2
  <2> QED BY <2>1, <2>2 DEF LoopShape, Name
<1>10. SeenShape'
  <2>1. ASSUME NEW q \in Spawned' PROVE run'[q].seen <= Len(inbox[run'[q].name])
    <3>1. CASE q = k
      BY <1>3, <1>4, <3>1, Types
    <3>2. CASE q \in Spawned
      BY <1>6, <3>2 DEF IInv, SeenShape, Name
    <3> QED BY <1>5, <3>1, <3>2
  <2> QED BY <1>2, <2>1 DEF IInv, SeenShape, Name
<1>11. MarkFacts' /\ StopFacts' /\ ApprovalIsFinal'
  BY <1>1, <1>2, <1>3, <1>4, <1>5, <1>6, ZenonT(60) DEF IInv, MarkFacts, StopFacts, ApprovalIsFinal, TypeOK
<1>12. FreeNameCanBeSpawned'
  BY <1>1, <1>2, <1>7 DEF IInv, FreeNameCanBeSpawned
<1>13. ReadMeansInjected'
  BY <1>2 DEF IInv, ReadMeansInjected
<1> QED BY <1>8, <1>9, <1>10, <1>11, <1>12, <1>13 DEF IInv

\* A request is only under way.
LEMMA AskShutdownStep ==
    ASSUME IInv, NEW n \in Names, AskShutdown(n)
    PROVE  IInv'
<1>1. asked' = asked \cup {active[n]} /\ active[n] \in Spawned
  BY DEF AskShutdown, IInv, LoopShape
<1>2. UNCHANGED <<member, active, run, inbox, restarts, stranded, approved>>
  BY DEF AskShutdown
<1>3. Spawned' = Spawned /\ \A r \in Spawned : Name(r)' = Name(r)
  BY <1>2 DEF Spawned, Name
<1>4. TypeOK'
  BY <1>1, <1>2, <1>3 DEF IInv, TypeOK
<1>5. LoopShape' /\ SeenShape' /\ MarkFacts' /\ StopFacts' /\ ApprovalIsFinal'
  BY <1>2, <1>3 DEF IInv, LoopShape, SeenShape, MarkFacts, StopFacts, ApprovalIsFinal, Name
<1>6. FreeNameCanBeSpawned' /\ ReadMeansInjected'
  BY <1>2 DEF IInv, FreeNameCanBeSpawned, ReadMeansInjected
<1> QED BY <1>4, <1>5, <1>6 DEF IInv

\* A new message is unread, and behind whatever a dispatch has read.
LEMMA PostKeeps ==
    ASSUME IInv, NEW n \in Names, NEW kind \in {"plain", "shutdown"}, NEW k \in 0..MaxRuns,
           Post(n, kind, k), asked' \subseteq asked,
           UNCHANGED <<member, active, run, restarts, stranded, approved>>
    PROVE  IInv'
<1>1. /\ inbox' \in [Names -> Seq(Message)]
      /\ \A m \in Names : Len(inbox[m]) <= Len(inbox'[m]) /\ Len(inbox'[m]) <= MaxMessages
      /\ \A m \in Names : \A i \in 1..Len(inbox[m]) : inbox'[m][i] = inbox[m][i]
      /\ \A m \in Names : \A i \in 1..Len(inbox'[m]) :
            i \in 1..Len(inbox[m]) \/ inbox'[m][i] = NewMessage(kind, k)
  BY PostUpdate
<1>2. Spawned' = Spawned /\ \A r \in Spawned : Name(r)' = Name(r)
  BY DEF Spawned, Name
<1>3. \A m \in Names : DOMAIN inbox'[m] = 1..Len(inbox'[m]) /\ Len(inbox'[m]) \in Nat
  BY <1>1, LenProperties
<1>4. ~NewMessage(kind, k).injected /\ ~NewMessage(kind, k).read
  BY DEF NewMessage
<1>5. TypeOK'
  <2>1. ASSUME NEW m \in Names, NEW i \in DOMAIN inbox'[m], inbox'[m][i].injected
        PROVE  inbox'[m][i].kind = "plain"
    <3>1. i \in 1..Len(inbox[m]) /\ inbox'[m][i] = inbox[m][i]
      BY <1>1, <1>3, <1>4, <2>1
    <3> QED BY <2>1, <3>1, Types DEF IInv, TypeOK
  <2> QED BY <1>1, <1>2, <2>1 DEF IInv, TypeOK
<1>6. LoopShape' /\ StopFacts' /\ ApprovalIsFinal'
  BY <1>2 DEF IInv, LoopShape, StopFacts, ApprovalIsFinal, Name
<1>7. SeenShape'
  <2>1. ASSUME NEW q \in Spawned PROVE run[q].seen <= Len(inbox'[Name(q)])
    <3>1. run[q].seen <= Len(inbox[Name(q)]) /\ Name(q) \in Names /\ run[q].seen \in Nat
      BY Types DEF IInv, SeenShape
    <3> QED BY <1>1, <1>3, <3>1, Types
  <2> QED BY <1>1, <1>2, <2>1 DEF SeenShape
<1>8. MarkFacts'
  <2> SUFFICES ASSUME NEW q \in Spawned, run[q].pc = "mark", NEW i \in 1..Len(inbox'[Name(q)]),
                      i <= run[q].seen, inbox'[Name(q)][i].kind = "plain",
                      ~inbox'[Name(q)][i].read
               PROVE  inbox'[Name(q)][i].injected
    BY <1>2 DEF MarkFacts
  <2>1. run[q].seen <= Len(inbox[Name(q)]) /\ Name(q) \in Names /\ run[q].seen \in Nat
    BY Types DEF IInv, SeenShape
  <2>2. i \in 1..Len(inbox[Name(q)])
    BY <1>3, <2>1, Types
  <2> QED BY <1>1, <2>1, <2>2 DEF IInv, MarkFacts
<1>9. FreeNameCanBeSpawned'
  BY DEF IInv, FreeNameCanBeSpawned
<1>10. ReadMeansInjected'
  <2> SUFFICES ASSUME NEW m \in Names, NEW i \in 1..Len(inbox'[m]), inbox'[m][i].kind = "plain",
                      inbox'[m][i].read
               PROVE  inbox'[m][i].injected \/ inbox'[m][i].raced
    BY <1>3 DEF ReadMeansInjected
  <2>1. i \in 1..Len(inbox[m]) /\ inbox'[m][i] = inbox[m][i]
    BY <1>1, <1>4
  <2> QED BY <2>1, Types DEF IInv, ReadMeansInjected
<1> QED BY <1>5, <1>6, <1>7, <1>8, <1>9, <1>10 DEF IInv

\* Requests and messages reach the mailbox.
LEMMA SendingStep ==
    ASSUME IInv,
           (\E n \in Names : SendPlain(n)) \/ (\E r \in Spawned : PostShutdown(r))
    PROVE  IInv'
<1>1. ASSUME NEW n \in Names, SendPlain(n) PROVE IInv'
  BY <1>1, Types, PostKeeps DEF SendPlain
<1>2. ASSUME NEW r \in Spawned, PostShutdown(r) PROVE IInv'
  <2>1. r \in 0..MaxRuns /\ Name(r) \in Names
    BY Types, TeamAssumption
  <2> QED BY <1>2, <2>1, PostKeeps DEF PostShutdown
<1> QED BY <1>1, <1>2

\* A new process knows the team file and the mailboxes; the names that were in
\* the table are stranded.
LEMMA RestartStep ==
    ASSUME IInv, Restart
    PROVE  IInv'
<1> DEFINE x(r) == [name |-> Name(r), pc |-> "dead", idle |-> FALSE, seen |-> 0,
                    stop |-> FALSE, plain |-> FALSE]
<1>1. /\ run' = [r \in 1..Len(run) |-> x(r)] /\ active' = [n \in Names |-> 0]
      /\ stranded' = stranded \cup {n \in Names : active[n] # 0}
      /\ restarts' \in 0..MaxRestarts /\ asked' = {}
      /\ UNCHANGED <<member, inbox, approved>>
  BY Types, TeamAssumption DEF Restart, IInv, TypeOK
<1>2. \A r \in Spawned : x(r) \in RunRec /\ x(r).name = Name(r) /\ x(r).pc = "dead" /\ x(r).seen = 0
  BY Types, TeamAssumption DEF RunRec, Over
<1> HIDE DEF x
<1>3. /\ run' \in Seq(RunRec) /\ Len(run') = Len(run)
      /\ \A r \in Spawned : run'[r] = x(r)
  BY <1>1, <1>2, Types, FunctionIsSeq
<1>4. Spawned' = Spawned /\ \A r \in Spawned : Name(r)' = Name(r)
  BY <1>1, <1>2, <1>3, Types DEF Spawned, Name
<1>5. TypeOK'
  BY <1>1, <1>3, <1>4, Types, TeamAssumption DEF IInv, TypeOK
<1>6. LoopShape'
  <2>1. \A n \in Names : active'[n] = 0
    BY <1>1
  <2>2. \A r \in Spawned' : run'[r].pc \notin Looping /\ r # 0 /\ Name(r)' \in Names
    BY <1>2, <1>3, <1>4, Types DEF Looping
  <2> QED BY <2>1, <2>2 DEF LoopShape
<1>7. SeenShape'
  <2>1. \A r \in Spawned' : run'[r].seen = 0 /\ Name(r)' \in Names
    BY <1>2, <1>3, <1>4, Types
  <2>2. \A n \in Names : Len(inbox'[n]) \in Nat /\ Len(inbox'[n]) <= MaxMessages
    BY <1>1, Types DEF IInv, SeenShape
  <2> QED BY <2>1, <2>2 DEF SeenShape
<1>8. MarkFacts' /\ StopFacts' /\ ApprovalIsFinal'
  <2>1. \A r \in Spawned' : run'[r].pc = "dead"
    BY <1>2, <1>3, <1>4
  <2>2. approved' \subseteq Spawned'
    BY <1>5 DEF TypeOK
  <2> QED BY <2>1, <2>2 DEF MarkFacts, StopFacts, ApprovalIsFinal, Over
<1>9. FreeNameCanBeSpawned' /\ ReadMeansInjected'
  BY <1>1 DEF IInv, FreeNameCanBeSpawned, ReadMeansInjected
<1> QED BY <1>5, <1>6, <1>7, <1>8, <1>9 DEF IInv

----------------------------------------------------------------------------
(* The theorems.                                                           *)

\* Nobody has been spawned and nothing sent.
LEMMA InitIInv == Init => IInv
<1> SUFFICES ASSUME Init PROVE IInv
  OBVIOUS
<1>1. run \in Seq(RunRec) /\ Len(run) = 0 /\ Spawned = {}
  BY EmptySeq, LenProperties DEF Init, Spawned
<1>2. /\ inbox \in [Names -> Seq(Message)]
      /\ \A n \in Names : Len(inbox[n]) = 0 /\ DOMAIN inbox[n] = {}
  BY EmptySeq, LenProperties DEF Init
<1>3. TypeOK
  BY <1>1, <1>2, TeamAssumption DEF Init, TypeOK
<1>4. LoopShape /\ SeenShape /\ MarkFacts /\ StopFacts
  BY <1>1, <1>2, TeamAssumption DEF Init, LoopShape, SeenShape, MarkFacts, StopFacts
<1>5. FreeNameCanBeSpawned /\ ReadMeansInjected /\ ApprovalIsFinal
  BY <1>1, <1>2 DEF Init, FreeNameCanBeSpawned, ReadMeansInjected, ApprovalIsFinal
<1> QED BY <1>3, <1>4, <1>5 DEF IInv

\* Every step keeps the invariant.
LEMMA NextIInv ==
    ASSUME IInv, [Next]_vars
    PROVE  IInv'
<1>1. CASE Restart
  BY <1>1, RestartStep
<1>2. CASE \E n \in Names : Spawn(n) \/ AskShutdown(n) \/ SendPlain(n)
  BY <1>2, SpawnStep, AskShutdownStep, SendingStep
<1>3. CASE \E r \in Spawned : PostShutdown(r)
  BY <1>3, SendingStep
<1>4. CASE \E r \in Spawned : Advance(r)
  BY <1>4, PollStep, AnswerStep, MarkStep, ReturnStep, WorkingStep, EndingStep, BroadcastStep
     DEF Advance
<1>5. CASE UNCHANGED vars
  <2>1. Spawned' = Spawned /\ \A r \in Spawned : Name(r)' = Name(r)
    BY <1>5 DEF vars, Spawned, Name
  <2> QED BY <1>5, <2>1 DEF vars, IInv, TypeOK, LoopShape, SeenShape, MarkFacts, StopFacts,
          FreeNameCanBeSpawned, ReadMeansInjected, ApprovalIsFinal, Name
<1> QED BY <1>1, <1>2, <1>3, <1>4, <1>5 DEF Next

\* The tables, the mailboxes and the dispatches under way stay related.
THEOREM Invariance == Spec => []IInv
<1>1. Init => IInv
  BY InitIInv
<1>2. IInv /\ [Next]_vars => IInv'
  BY NextIInv
<1> QED BY <1>1, <1>2, PTL DEF Spec

\* ensureTeammateForSpawn: whatever spawns, ends, errors and restarts came
\* before, a loop runs exactly as long as the table names it, and no name has two.
THEOREM LoopsAreUnique == Spec => []OneLoopPerName
<1>1. IInv => OneLoopPerName
  BY Types DEF IInv, LoopShape, OneLoopPerName
<1> QED BY <1>1, Invariance, PTL

\* finishTeammate: however a run ends, its name is free again, unless the whole
\* process ended under it.
THEOREM NamesAreFreed == Spec => []FreeNameCanBeSpawned
<1>1. IInv => FreeNameCanBeSpawned
  BY DEF IInv
<1> QED BY <1>1, Invariance, PTL

\* markMessagesAsRead: no plain message is marked that a model has not seen,
\* except one that came between the read and the mark.
THEOREM MessagesAreSeen == Spec => []ReadMeansInjected
<1>1. IInv => ReadMeansInjected
  BY DEF IInv
<1> QED BY <1>1, Invariance, PTL

\* handleShutdownRequest: a teammate that has approved its shutdown works no more.
THEOREM ApprovedRunsEnd == Spec => []ApprovalIsFinal
<1>1. IInv => ApprovalIsFinal
  BY DEF IInv
<1> QED BY <1>1, Invariance, PTL


\* Tables, team files, mailboxes and coroutines keep their shape, for any number
\* of names, runs, messages and restarts.
THEOREM TypeCorrect == Spec => []TypeOK
<1>1. IInv => TypeOK
  BY DEF IInv
<1> QED BY <1>1, Invariance, PTL

=============================================================================
