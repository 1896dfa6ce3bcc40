---------------------------- MODULE LeadInbox_proofs ----------------------------
(***************************************************************************)
(* Proofs about LeadInbox, for any workers, messages, overlapping polls    *)
(* and teams.  A poll, a queue and the agent loop all hold places of a     *)
(* mailbox across steps of the others; this is sound because a mailbox     *)
(* only grows, and because a place is taken before anybody who holds it    *)
(* for marking can reach its mark.                                         *)
(***************************************************************************)
EXTENDS LeadInbox, TLAPS, FiniteSetTheorems, WellFoundedInduction, SequenceTheorems

----------------------------------------------------------------------------
(* The inductive invariant.                                                *)

EntryRec  == [kind: {"plain", "notice", "request"}, req: Requests \cup {NoReq},
              read: BOOLEAN, taken: BOOLEAN]
PollRec   == [pc: {"none", "route", "mark", "batch"}, team: Teams,
              todo: SUBSET Nat, batch: SUBSET Nat]
ItemRec   == [req: Requests, index: Nat, team: Teams]
LeadRec   == [pc: {"free", "ask", "mark"}, team: Teams, items: Seq(ItemRec)]
WorkerRec == [n: 0..MaxRequests, waits: BOOLEAN]
MailRec   == [req: Requests, answer: {"approved", "rejected"}]

StateShape ==
    /\ team \in Teams
    /\ inbox \in [Teams -> Seq(EntryRec)]
    /\ polls \in [Polls -> PollRec]
    /\ queue \in Seq(ItemRec)
    /\ lead \in LeadRec
    /\ worker \in [Workers -> WorkerRec]
    /\ verdict \in [Requests -> {"none", "approved", "rejected", "timeout"}]
    /\ mail \in [Workers -> Seq(MailRec)]
    /\ said \in [Requests -> SUBSET {"approved", "rejected"}]

\* A request is an entry of its own kind.
EntryFacts ==
    \A t \in Teams : \A i \in DOMAIN inbox[t] :
        inbox[t][i].kind = "request" <=> inbox[t][i].req \in Requests

\* A poll holds places of one mailbox.  What it is about to mark is taken.
PollFacts ==
    \A k \in Polls :
        /\ polls[k].todo \cup polls[k].batch \subseteq DOMAIN inbox[polls[k].team]
        /\ polls[k].pc = "mark" =>
              polls[k].todo # {} /\ inbox[polls[k].team][Current(k)].taken
        /\ polls[k].pc = "batch" =>
              /\ polls[k].batch # {}
              /\ \A i \in polls[k].batch : inbox[polls[k].team][i].taken

\* An item of the queue, or of the turn, names the place of its own request,
\* which is taken.
Valid(item) ==
    /\ item.index \in DOMAIN inbox[item.team]
    /\ inbox[item.team][item.index].req = item.req
    /\ inbox[item.team][item.index].taken

QueueFacts ==
    /\ \A i \in DOMAIN queue : Valid(queue[i])
    /\ \A i \in DOMAIN lead.items : Valid(lead.items[i])
    /\ lead.pc # "free" => lead.items # <<>>

\* What waits in a worker's mailbox was said by the user about that request.
MailFacts ==
    /\ \A w \in Workers : \A i \in DOMAIN mail[w] : mail[w][i].answer \in said[mail[w][i].req]
    /\ \A w \in Workers : worker[w].waits => worker[w].n > 0

IInv ==
    /\ StateShape /\ EntryFacts /\ PollFacts /\ QueueFacts /\ MailFacts
    /\ ReadMeansTaken /\ OwnVerdict

----------------------------------------------------------------------------
(* Lemmas about data.                                                      *)

\* The least element of a set of places is one of them.
LEMMA MinIn ==
    ASSUME NEW T \in SUBSET Nat, T # {}
    PROVE  Min(T) \in T
<1> DEFINE R == {ss \in Nat \X Nat : ss[1] < ss[2]}
<1>1. IsWellFoundedOn(R, Nat)
  BY NatLessThanWellFounded DEF OpToRel
<1> HIDE DEF R
<1>2. PICK x \in T : \A y \in T : ~ (<<y, x>> \in R)
  BY <1>1, WFMin
<1>3. \A y \in T : ~(y < x)
  BY <1>2 DEF R
<1>4. \A y \in T : x <= y
  BY <1>3
<1> QED BY <1>4 DEF Min

\* A function on the first numbers is a sequence.
LEMMA FunctionIsSeq ==
    ASSUME NEW S, NEW k \in Nat, NEW f \in [1..k -> S]
    PROVE  f \in Seq(S) /\ Len(f) = k
<1>1. f \in Seq(S)
  BY SeqDef
<1>2. DOMAIN f = 1..Len(f) /\ Len(f) \in Nat /\ DOMAIN f = 1..k
  BY <1>1, LenProperties
<1> QED BY <1>1, <1>2

\* The types of the state.
LEMMA Types ==
    ASSUME IInv
    PROVE  /\ team \in Teams
           /\ \A t \in Teams : /\ inbox[t] \in Seq(EntryRec) /\ Len(inbox[t]) \in Nat
                               /\ DOMAIN inbox[t] = 1..Len(inbox[t])
                               /\ \A i \in DOMAIN inbox[t] : inbox[t][i] \in EntryRec
           /\ \A k \in Polls : polls[k] \in PollRec /\ polls[k].team \in Teams
                               /\ polls[k].todo \in SUBSET Nat /\ polls[k].batch \in SUBSET Nat
           /\ Len(queue) \in Nat /\ DOMAIN queue = 1..Len(queue)
           /\ \A i \in DOMAIN queue : queue[i] \in ItemRec
           /\ lead.team \in Teams /\ lead.items \in Seq(ItemRec)
           /\ \A w \in Workers : /\ mail[w] \in Seq(MailRec) /\ Len(mail[w]) \in Nat
                                 /\ DOMAIN mail[w] = 1..Len(mail[w])
                                 /\ \A i \in DOMAIN mail[w] : mail[w][i] \in MailRec
<1>1. \A t \in Teams : /\ inbox[t] \in Seq(EntryRec) /\ Len(inbox[t]) \in Nat
                       /\ DOMAIN inbox[t] = 1..Len(inbox[t])
                       /\ \A i \in DOMAIN inbox[t] : inbox[t][i] \in EntryRec
  BY LenProperties, ElementOfSeq DEF IInv, StateShape
<1>2. \A k \in Polls : polls[k] \in PollRec /\ polls[k].team \in Teams
                       /\ polls[k].todo \in SUBSET Nat /\ polls[k].batch \in SUBSET Nat
  BY DEF IInv, StateShape, PollRec
<1>3. /\ Len(queue) \in Nat /\ DOMAIN queue = 1..Len(queue)
      /\ \A i \in DOMAIN queue : queue[i] \in ItemRec
  BY LenProperties, ElementOfSeq DEF IInv, StateShape
<1>4. lead.team \in Teams /\ lead.items \in Seq(ItemRec)
  BY DEF IInv, StateShape, LeadRec
<1>5. \A w \in Workers : /\ mail[w] \in Seq(MailRec) /\ Len(mail[w]) \in Nat
                         /\ DOMAIN mail[w] = 1..Len(mail[w])
                         /\ \A i \in DOMAIN mail[w] : mail[w][i] \in MailRec
  BY LenProperties, ElementOfSeq DEF IInv, StateShape
<1> QED BY <1>1, <1>2, <1>3, <1>4, <1>5 DEF IInv, StateShape

\* An entry for no request is none for a request.
LEMMA NoReqIsNone == NoReq \notin Requests
<1>1. \A r \in Requests : r = <<r[1], r[2]>>
  BY DEF Requests
<1>2. \A a, b : <<>> # <<a, b>>
  OBVIOUS
<1> QED BY <1>1, <1>2 DEF NoReq

----------------------------------------------------------------------------
(* Steps of the lead's mailboxes.                                          *)

\* Mailboxes grow: places keep their entries, and what is taken stays taken.
Grown ==
    /\ inbox' \in [Teams -> Seq(EntryRec)]
    /\ \A t \in Teams : \A i \in DOMAIN inbox[t] :
          /\ i \in DOMAIN inbox'[t]
          /\ inbox'[t][i].kind = inbox[t][i].kind /\ inbox'[t][i].req = inbox[t][i].req
          /\ inbox[t][i].taken => inbox'[t][i].taken

BoxFacts == Grown /\ EntryFacts' /\ ReadMeansTaken'

\* One mailbox is replaced by a grown one, in which only what is taken, or was
\* misfiled, is read.
LEMMA BoxStep ==
    ASSUME IInv, NEW t \in Teams, NEW box \in Seq(EntryRec),
           inbox' = [inbox EXCEPT ![t] = box], misfiled \subseteq misfiled',
           \A i \in DOMAIN inbox[t] :
              /\ i \in DOMAIN box
              /\ box[i].kind = inbox[t][i].kind /\ box[i].req = inbox[t][i].req
              /\ inbox[t][i].taken => box[i].taken,
           \A i \in DOMAIN box :
              /\ box[i].kind = "request" <=> box[i].req \in Requests
              /\ box[i].read => box[i].taken \/ <<t, i>> \in misfiled'
    PROVE  BoxFacts
<1>1. /\ inbox' \in [Teams -> Seq(EntryRec)] /\ inbox'[t] = box
      /\ \A u \in Teams : u # t => inbox'[u] = inbox[u]
  BY DEF IInv, StateShape
<1>2. Grown
  BY <1>1 DEF Grown
<1>3. EntryFacts'
  BY <1>1 DEF IInv, EntryFacts
<1>4. ReadMeansTaken'
  BY <1>1 DEF IInv, ReadMeansTaken
<1> QED BY <1>2, <1>3, <1>4 DEF BoxFacts

\* No mailbox is written to.
LEMMA SameBoxes == ASSUME IInv, UNCHANGED <<inbox, misfiled>> PROVE BoxFacts
BY DEF BoxFacts, Grown, IInv, StateShape, EntryFacts, ReadMeansTaken

\* A message is appended, unread.
LEMMA PostStep ==
    ASSUME IInv, NEW t \in Teams, NEW kind \in {"plain", "notice", "request"},
           NEW req \in Requests \cup {NoReq}, kind = "request" <=> req \in Requests,
           Post(t, kind, req), UNCHANGED misfiled
    PROVE  BoxFacts
<1> DEFINE e == [kind |-> kind, req |-> req, read |-> FALSE, taken |-> FALSE]
           box == Append(inbox[t], e)
<1>1. e \in EntryRec /\ e.kind = kind /\ e.req = req /\ e.read = FALSE
  BY DEF EntryRec
<1>2. inbox' = [inbox EXCEPT ![t] = box]
  BY DEF Post
<1> HIDE DEF e
<1>3. /\ inbox[t] \in Seq(EntryRec) /\ Len(inbox[t]) \in Nat
      /\ DOMAIN inbox[t] = 1..Len(inbox[t])
  BY Types
<1>4. /\ box \in Seq(EntryRec) /\ DOMAIN box = 1..Len(inbox[t]) + 1
      /\ \A i \in DOMAIN inbox[t] : box[i] = inbox[t][i]
      /\ box[Len(inbox[t]) + 1] = e
  BY <1>1, <1>3, AppendProperties, LenProperties
<1> HIDE DEF box
<1>5. \A i \in DOMAIN box :
         /\ box[i].kind = "request" <=> box[i].req \in Requests
         /\ box[i].read => box[i].taken \/ <<t, i>> \in misfiled'
  <2> TAKE i \in DOMAIN box
  <2>1. CASE i \in DOMAIN inbox[t]
    BY <1>4, <2>1 DEF IInv, EntryFacts, ReadMeansTaken
  <2>2. CASE i \notin DOMAIN inbox[t]
    <3>1. i = Len(inbox[t]) + 1
      BY <1>3, <1>4, <2>2
    <3> QED BY <1>1, <1>4, <3>1
  <2> QED BY <2>1, <2>2
<1>6. \A i \in DOMAIN inbox[t] : i \in DOMAIN box
  BY <1>3, <1>4
<1> QED BY <1>2, <1>4, <1>5, <1>6, BoxStep

\* A place is marked as read, which is taken, or misfiled.
LEMMA MarkStep ==
    ASSUME IInv, NEW t \in Teams, NEW i, inbox' = MarkedRead(t, i), misfiled \subseteq misfiled',
           i \in DOMAIN inbox[t] => inbox[t][i].taken \/ <<t, i>> \in misfiled'
    PROVE  BoxFacts
<1>1. CASE i \notin DOMAIN inbox[t]
  <2>1. UNCHANGED inbox
    BY <1>1 DEF MarkedRead
  <2> QED BY <2>1 DEF BoxFacts, Grown, IInv, StateShape, EntryFacts, ReadMeansTaken
<1>2. CASE i \in DOMAIN inbox[t]
  <2>1. PICK old : old = inbox[t][i] /\ old \in EntryRec
    BY <1>2, Types
  <2> DEFINE e == [old EXCEPT !.read = TRUE]
             box == [inbox[t] EXCEPT ![i] = e]
  <2>2. e \in EntryRec /\ e.kind = old.kind /\ e.req = old.req /\ e.taken = old.taken
    BY <2>1 DEF EntryRec
  <2>3. inbox' = [inbox EXCEPT ![t] = box]
    BY <1>2, <2>1 DEF MarkedRead
  <2> HIDE DEF e
  <2>4. /\ box \in Seq(EntryRec) /\ DOMAIN box = DOMAIN inbox[t] /\ box[i] = e
        /\ \A j \in DOMAIN inbox[t] : j # i => box[j] = inbox[t][j]
    BY <1>2, <2>2, Types, ExceptSeq, LenProperties
  <2> HIDE DEF box
  <2>5. \A j \in DOMAIN inbox[t] :
           /\ j \in DOMAIN box
           /\ box[j].kind = inbox[t][j].kind /\ box[j].req = inbox[t][j].req
           /\ inbox[t][j].taken => box[j].taken
    BY <2>1, <2>2, <2>4
  <2>6. \A j \in DOMAIN box :
           /\ box[j].kind = "request" <=> box[j].req \in Requests
           /\ box[j].read => box[j].taken \/ <<t, j>> \in misfiled'
    BY <1>2, <2>1, <2>2, <2>4 DEF IInv, EntryFacts, ReadMeansTaken
  <2> QED BY <2>3, <2>4, <2>5, <2>6, BoxStep
<1> QED BY <1>1, <1>2

\* Places are taken.
LEMMA TakeStep ==
    ASSUME IInv, NEW t \in Teams, NEW S, inbox' = Take(t, S), UNCHANGED misfiled
    PROVE  BoxFacts /\ \A i \in S \cap DOMAIN inbox[t] : inbox'[t][i].taken
<1>1. PICK old \in Seq(EntryRec) : old = inbox[t] /\ Len(old) \in Nat /\ DOMAIN old = 1..Len(old)
  BY Types
<1> DEFINE box == [i \in DOMAIN old |-> [old[i] EXCEPT !.taken = old[i].taken \/ i \in S]]
<1>2. inbox' = [inbox EXCEPT ![t] = box] /\ inbox'[t] = box
  BY <1>1 DEF Take, IInv, StateShape
<1>3. \A i \in DOMAIN old : /\ box[i] \in EntryRec /\ box[i].kind = old[i].kind
                            /\ box[i].req = old[i].req /\ box[i].read = old[i].read
                            /\ box[i].taken = (old[i].taken \/ i \in S)
  <2> TAKE i \in DOMAIN old
  <2>1. PICK e, b : e = old[i] /\ e \in EntryRec /\ b = (old[i].taken \/ i \in S) /\ b \in BOOLEAN
    BY <1>1, Types
  <2>2. box[i] = [e EXCEPT !.taken = b]
    BY <2>1
  <2> HIDE DEF box
  <2> QED BY <2>1, <2>2 DEF EntryRec
<1>4. DOMAIN box = DOMAIN old /\ box \in [1..Len(old) -> EntryRec]
  BY <1>1, <1>3
<1> HIDE DEF box
<1>5. box \in Seq(EntryRec)
  BY <1>1, <1>4, FunctionIsSeq
<1>6. \A i \in DOMAIN inbox[t] :
         /\ i \in DOMAIN box
         /\ box[i].kind = inbox[t][i].kind /\ box[i].req = inbox[t][i].req
         /\ inbox[t][i].taken => box[i].taken
  BY <1>1, <1>3, <1>4
<1>7. \A i \in DOMAIN box :
         /\ box[i].kind = "request" <=> box[i].req \in Requests
         /\ box[i].read => box[i].taken \/ <<t, i>> \in misfiled'
  BY <1>1, <1>3, <1>4 DEF IInv, EntryFacts, ReadMeansTaken
<1>8. BoxFacts
  BY <1>2, <1>5, <1>6, <1>7, BoxStep
<1> QED BY <1>1, <1>2, <1>3, <1>8

----------------------------------------------------------------------------
(* The polls.                                                              *)

\* An item names the place of its request after the step.
ValidNext(item) ==
    /\ item.index \in DOMAIN inbox'[item.team]
    /\ inbox'[item.team][item.index].req = item.req
    /\ inbox'[item.team][item.index].taken

\* A place of a request stays one while the mailbox grows.
LEMMA ValidKept ==
    ASSUME IInv, Grown, NEW item \in ItemRec, Valid(item)
    PROVE  ValidNext(item)
BY DEF Valid, ValidNext, Grown, ItemRec

LEMMA QueueKept ==
    ASSUME IInv, Grown, UNCHANGED <<queue, lead>>
    PROVE  QueueFacts'
<1>1. \A i \in DOMAIN queue : ValidNext(queue[i])
  BY Types, ValidKept DEF IInv, QueueFacts
<1>2. \A i \in DOMAIN lead.items : lead.items[i] \in ItemRec
  BY Types, ElementOfSeq, LenProperties
<1>3. \A i \in DOMAIN lead.items : ValidNext(lead.items[i])
  BY <1>2, ValidKept DEF IInv, QueueFacts
<1> QED BY <1>1, <1>3 DEF IInv, QueueFacts, Valid, ValidNext

\* The other polls keep what they hold while the mailboxes grow.
LEMMA PollStep ==
    ASSUME IInv, Grown, NEW k \in Polls, NEW x \in PollRec, polls' = [polls EXCEPT ![k] = x],
           x.todo \cup x.batch \subseteq DOMAIN inbox'[x.team],
           x.pc = "mark" => x.todo # {} /\ inbox'[x.team][Min(x.todo)].taken,
           x.pc = "batch" => x.batch # {} /\ \A i \in x.batch : inbox'[x.team][i].taken
    PROVE  PollFacts' /\ polls' \in [Polls -> PollRec]
<1>1. /\ polls' \in [Polls -> PollRec] /\ polls'[k] = x
      /\ \A j \in Polls : j # k => polls'[j] = polls[j]
  BY DEF IInv, StateShape
<1>2. \A j \in Polls : polls[j].todo # {} => Current(j) \in polls[j].todo
  BY Types, MinIn DEF Current
<1>3. PollFacts'
  <2> SUFFICES ASSUME NEW j \in Polls
               PROVE  /\ polls'[j].todo \cup polls'[j].batch \subseteq DOMAIN inbox'[polls'[j].team]
                      /\ polls'[j].pc = "mark" =>
                            polls'[j].todo # {} /\ inbox'[polls'[j].team][Min(polls'[j].todo)].taken
                      /\ polls'[j].pc = "batch" =>
                            /\ polls'[j].batch # {}
                            /\ \A i \in polls'[j].batch : inbox'[polls'[j].team][i].taken
    BY DEF PollFacts, Current
  <2>1. CASE j = k
    BY <1>1, <2>1
  <2>2. CASE j # k
    <3>1. polls[j].team \in Teams /\ polls[j].todo \cup polls[j].batch \subseteq DOMAIN inbox[polls[j].team]
      BY Types DEF IInv, PollFacts
    <3>2. \A i \in DOMAIN inbox[polls[j].team] :
             /\ i \in DOMAIN inbox'[polls[j].team]
             /\ inbox[polls[j].team][i].taken => inbox'[polls[j].team][i].taken
      BY <3>1 DEF Grown
    <3> QED BY <1>1, <1>2, <2>2, <3>1, <3>2 DEF IInv, PollFacts, Current
  <2> QED BY <2>1, <2>2
<1> QED BY <1>1, <1>3

LEMMA PollsKept ==
    ASSUME IInv, Grown, UNCHANGED polls
    PROVE  PollFacts' /\ polls' \in [Polls -> PollRec]
<1>1. \A j \in Polls : polls[j].todo # {} => Current(j) \in polls[j].todo
  BY Types, MinIn DEF Current
<1>2. \A j \in Polls : /\ polls[j].team \in Teams
                       /\ polls[j].todo \cup polls[j].batch \subseteq DOMAIN inbox[polls[j].team]
  BY Types DEF IInv, PollFacts
<1> QED BY <1>1, <1>2 DEF IInv, StateShape, PollFacts, Current, Grown

\* A step of a poll that keeps to its mailbox.
LEMMA PollRest ==
    ASSUME IInv, BoxFacts, PollFacts', polls' \in [Polls -> PollRec],
           UNCHANGED <<team, queue, lead, worker, verdict, mail, said>>
    PROVE  IInv'
<1>1. QueueFacts'
  BY QueueKept DEF BoxFacts
<1>2. StateShape'
  BY DEF IInv, StateShape, BoxFacts, Grown
<1>3. MailFacts' /\ OwnVerdict'
  BY DEF IInv, MailFacts, OwnVerdict
<1> QED BY <1>1, <1>2, <1>3 DEF IInv, BoxFacts

\* What a poll holds, before a step of it.
LEMMA PollHolds ==
    ASSUME IInv, NEW k \in Polls, NEW r, r = polls[k]
    PROVE  /\ r \in PollRec /\ r.team \in Teams /\ r.todo \in SUBSET Nat /\ r.batch \in SUBSET Nat
           /\ r.todo \cup r.batch \subseteq DOMAIN inbox[r.team]
           /\ r.todo # {} => Current(k) \in r.todo /\ Current(k) = Min(r.todo)
           /\ r.batch # {} => Min(r.batch) \in r.batch
           /\ Grown => DOMAIN inbox[r.team] \subseteq DOMAIN inbox'[r.team]
BY Types, MinIn DEF Current, IInv, PollFacts, Grown

\* No poll is under way.
LEMMA NoPollStep ==
    ASSUME IInv, BoxFacts, NEW k \in Polls, polls' = [polls EXCEPT ![k] = NoPoll],
           UNCHANGED <<team, queue, lead, worker, verdict, mail, said>>
    PROVE  IInv'
<1>1. /\ NoPoll \in PollRec /\ NoPoll.todo = {} /\ NoPoll.batch = {} /\ NoPoll.pc = "none"
  BY LeadAssumption DEF NoPoll, PollRec, Teams
<1> QED BY <1>1, PollStep, PollRest DEF BoxFacts

LEMMA StartPollStep == ASSUME IInv, NEW k \in Polls, StartPoll(k) PROVE IInv'
<1> DEFINE x == [pc |-> "route", team |-> team, todo |-> Unread(team), batch |-> {}]
<1>1. polls' = [polls EXCEPT ![k] = x] /\ UNCHANGED <<inbox, misfiled>>
      /\ UNCHANGED <<team, queue, lead, worker, verdict, mail, said>>
  BY DEF StartPoll
<1>2. Unread(team) \subseteq DOMAIN inbox[team] /\ Unread(team) \in SUBSET Nat /\ team \in Teams
  BY Types DEF Unread
<1>3. x \in PollRec /\ x.pc = "route" /\ x.team = team /\ x.todo = Unread(team) /\ x.batch = {}
  BY <1>2 DEF PollRec
<1> HIDE DEF x
<1>4. BoxFacts
  BY <1>1, SameBoxes
<1> QED BY <1>1, <1>2, <1>3, <1>4, PollStep, PollRest DEF BoxFacts

LEMMA RoutePlainStep == ASSUME IInv, NEW k \in Polls, RoutePlain(k) PROVE IInv'
<1>1. PICK r, c : r = polls[k] /\ c = Current(k)
  OBVIOUS
<1> DEFINE x == [r EXCEPT !.todo = r.todo \ {c}, !.batch = r.batch \cup {c}]
<1>2. polls' = [polls EXCEPT ![k] = x] /\ UNCHANGED <<inbox, misfiled>> /\ r.todo # {}
      /\ r.pc = "route" /\ UNCHANGED <<team, queue, lead, worker, verdict, mail, said>>
  BY <1>1 DEF RoutePlain, Routing
<1>a. /\ r \in PollRec /\ r.todo \ {c} \in SUBSET Nat /\ r.batch \cup {c} \in SUBSET Nat
  BY <1>1, <1>2, PollHolds
<1>3. /\ x \in PollRec /\ x.pc = "route" /\ x.team = r.team /\ x.todo = r.todo \ {c}
      /\ x.batch = r.batch \cup {c}
  BY <1>2, <1>a DEF PollRec
<1> HIDE DEF x
<1>4. BoxFacts
  BY <1>2, SameBoxes
<1>5. x.todo \cup x.batch \subseteq DOMAIN inbox'[x.team]
  BY <1>1, <1>2, <1>3, PollHolds
<1> QED BY <1>2, <1>3, <1>4, <1>5, PollStep, PollRest DEF BoxFacts

LEMMA RouteNoticeStep == ASSUME IInv, NEW k \in Polls, RouteNotice(k) PROVE IInv'
<1>1. PICK r, c : r = polls[k] /\ c = Current(k)
  OBVIOUS
<1> DEFINE x == [r EXCEPT !.pc = "mark"]
<1>2. /\ polls' = [polls EXCEPT ![k] = x] /\ inbox' = Take(r.team, {c}) /\ UNCHANGED misfiled
      /\ r.todo # {} /\ UNCHANGED <<team, queue, lead, worker, verdict, mail, said>>
  BY <1>1 DEF RouteNotice, Routing
<1>3. x \in PollRec /\ x.pc = "mark" /\ x.team = r.team /\ x.todo = r.todo /\ x.batch = r.batch
  BY <1>1, PollHolds DEF PollRec
<1> HIDE DEF x
<1>4. BoxFacts /\ inbox'[r.team][c].taken /\ c = Min(r.todo)
  BY <1>1, <1>2, PollHolds, TakeStep
<1>5. x.todo \cup x.batch \subseteq DOMAIN inbox'[x.team]
  BY <1>1, <1>3, <1>4, PollHolds DEF BoxFacts
<1> QED BY <1>2, <1>3, <1>4, <1>5, PollStep, PollRest DEF BoxFacts

LEMMA MarkNoticeStep == ASSUME IInv, NEW k \in Polls, MarkNotice(k) PROVE IInv'
<1>1. PICK r, c : r = polls[k] /\ c = Current(k)
  OBVIOUS
<1> DEFINE x == [r EXCEPT !.pc = "route", !.todo = r.todo \ {c}]
<1>2. /\ polls' = [polls EXCEPT ![k] = x] /\ inbox' = MarkedRead(r.team, c) /\ UNCHANGED misfiled
      /\ r.pc = "mark" /\ UNCHANGED <<team, queue, lead, worker, verdict, mail, said>>
  BY <1>1 DEF MarkNotice
<1>a. r \in PollRec /\ r.todo \ {c} \in SUBSET Nat
  BY <1>1, PollHolds
<1>3. /\ x \in PollRec /\ x.pc = "route" /\ x.team = r.team /\ x.todo = r.todo \ {c}
      /\ x.batch = r.batch
  BY <1>a DEF PollRec
<1> HIDE DEF x
<1>4. inbox[r.team][c].taken
  BY <1>1, <1>2 DEF IInv, PollFacts
<1>5. BoxFacts
  BY <1>1, <1>2, <1>4, PollHolds, MarkStep
<1>6. x.todo \cup x.batch \subseteq DOMAIN inbox'[x.team]
  BY <1>1, <1>3, <1>5, PollHolds DEF BoxFacts
<1> QED BY <1>2, <1>3, <1>5, <1>6, PollStep, PollRest DEF BoxFacts

LEMMA RouteRequestStep == ASSUME IInv, NEW k \in Polls, RouteRequest(k) PROVE IInv'
<1>1. PICK r, c, t : r = polls[k] /\ c = Current(k) /\ t = r.team
  <2>1. polls[k] = polls[k] /\ Current(k) = Current(k) /\ polls[k].team = polls[k].team
    OBVIOUS
  <2> QED BY <2>1
<1> DEFINE x == [r EXCEPT !.todo = r.todo \ {c}]
<1>2. /\ polls' = [polls EXCEPT ![k] = x] /\ r.todo # {} /\ r.pc = "route"
      /\ inbox[t][c].kind = "request"
      /\ UNCHANGED <<team, lead, worker, verdict, mail, said, misfiled>>
  BY <1>1 DEF RouteRequest, Routing
<1>3. /\ r \in PollRec /\ r.todo \ {c} \in SUBSET Nat /\ t \in Teams
      /\ c \in DOMAIN inbox[t] /\ c \in Nat
  BY <1>1, <1>2, PollHolds
<1>4. /\ x \in PollRec /\ x.pc = "route" /\ x.team = t /\ x.todo = r.todo \ {c}
      /\ x.batch = r.batch
  BY <1>1, <1>2, <1>3 DEF PollRec
<1> HIDE DEF x
<1>5. PICK q : q = inbox[t][c].req /\ q \in Requests
  BY <1>2, <1>3 DEF IInv, EntryFacts
<1>6. \/ UNCHANGED <<queue, inbox>>
      \/ /\ queue' = Append(queue, [req |-> q, index |-> c, team |-> t])
         /\ inbox' = Take(t, {c})
  BY <1>1, <1>5 DEF RouteRequest, Index
<1>7. BoxFacts /\ QueueFacts' /\ queue' \in Seq(ItemRec)
  <2>1. CASE UNCHANGED <<queue, inbox>>
    <3>1. BoxFacts
      BY <1>2, <2>1, SameBoxes
    <3> QED BY <1>2, <2>1, <3>1, QueueKept DEF BoxFacts, IInv, StateShape
  <2>2. CASE /\ queue' = Append(queue, [req |-> q, index |-> c, team |-> t])
             /\ inbox' = Take(t, {c})
    <3>1. BoxFacts /\ inbox'[t][c].taken
      BY <1>2, <1>3, <2>2, TakeStep
    <3> DEFINE item == [req |-> q, index |-> c, team |-> t]
    <3>2. item \in ItemRec /\ item.req = q /\ item.index = c /\ item.team = t
      BY <1>3, <1>5 DEF ItemRec
    <3>3. queue' = Append(queue, item)
      BY <2>2
    <3> HIDE DEF item
    <3>4. ValidNext(item)
      BY <1>3, <1>5, <3>1, <3>2 DEF ValidNext, BoxFacts, Grown
    <3>5. queue \in Seq(ItemRec) /\ Len(queue) \in Nat /\ DOMAIN queue = 1..Len(queue)
      BY Types DEF IInv, StateShape
    <3>6. /\ queue' \in Seq(ItemRec) /\ DOMAIN queue' = 1..Len(queue) + 1
          /\ \A i \in DOMAIN queue : queue'[i] = queue[i]
          /\ queue'[Len(queue) + 1] = item
      BY <3>2, <3>3, <3>5, AppendProperties, LenProperties
    <3>7. \A i \in DOMAIN queue : ValidNext(queue[i])
      BY <3>1, Types, ValidKept DEF IInv, QueueFacts, BoxFacts
    <3>8. \A i \in DOMAIN lead.items : ValidNext(lead.items[i])
      <4>1. \A i \in DOMAIN lead.items : lead.items[i] \in ItemRec
        BY Types, ElementOfSeq, LenProperties
      <4> QED BY <3>1, <4>1, ValidKept DEF IInv, QueueFacts, BoxFacts
    <3>9. \A i \in DOMAIN queue' : ValidNext(queue'[i])
      <4> SUFFICES ASSUME NEW i \in DOMAIN queue' PROVE ValidNext(queue'[i])
        OBVIOUS
      <4>1. CASE i \in DOMAIN queue
        BY <3>6, <3>7, <4>1
      <4>2. CASE i \notin DOMAIN queue
        <5>1. i = Len(queue) + 1
          BY <3>5, <3>6, <4>2
        <5> QED BY <3>4, <3>6, <5>1
      <4> QED BY <4>1, <4>2
    <3> QED BY <1>2, <3>1, <3>6, <3>8, <3>9 DEF IInv, QueueFacts, Valid, ValidNext
  <2> QED BY <1>6, <2>1, <2>2
<1>8. x.todo \cup x.batch \subseteq DOMAIN inbox'[x.team]
  BY <1>1, <1>2, <1>4, <1>7, PollHolds DEF BoxFacts
<1>9. PollFacts' /\ polls' \in [Polls -> PollRec]
  BY <1>2, <1>4, <1>7, <1>8, PollStep DEF BoxFacts
<1>10. StateShape' /\ MailFacts' /\ OwnVerdict'
  BY <1>2, <1>7, <1>9 DEF IInv, StateShape, MailFacts, OwnVerdict, BoxFacts, Grown
<1> QED BY <1>7, <1>9, <1>10 DEF IInv, BoxFacts

LEMMA InjectStep == ASSUME IInv, NEW k \in Polls, Inject(k) PROVE IInv'
<1>1. PICK r : r = polls[k]
  OBVIOUS
<1>2. /\ polls' = [polls EXCEPT ![k] = IF r.batch = {} THEN NoPoll ELSE [r EXCEPT !.pc = "batch"]]
      /\ inbox' = Take(r.team, r.batch) /\ UNCHANGED misfiled /\ r.todo = {}
      /\ UNCHANGED <<team, queue, lead, worker, verdict, mail, said>>
  BY <1>1 DEF Inject, IInv, StateShape
<1>3. r \in PollRec /\ r.team \in Teams /\ r.batch \subseteq DOMAIN inbox[r.team]
  BY <1>1, PollHolds
<1>4. BoxFacts /\ \A i \in r.batch : inbox'[r.team][i].taken
  BY <1>2, <1>3, TakeStep
<1>5. CASE r.batch = {}
  BY <1>2, <1>4, <1>5, NoPollStep
<1>6. CASE r.batch # {}
  <2> DEFINE x == [r EXCEPT !.pc = "batch"]
  <2>1. polls' = [polls EXCEPT ![k] = x]
    BY <1>2, <1>6
  <2>2. x \in PollRec /\ x.pc = "batch" /\ x.team = r.team /\ x.todo = {} /\ x.batch = r.batch
    BY <1>2, <1>3 DEF PollRec
  <2> HIDE DEF x
  <2>3. x.todo \cup x.batch \subseteq DOMAIN inbox'[x.team]
    BY <1>1, <1>4, <2>2, PollHolds DEF BoxFacts
  <2> QED BY <1>2, <1>4, <1>6, <2>1, <2>2, <2>3, PollStep, PollRest DEF BoxFacts
<1> QED BY <1>5, <1>6

LEMMA MarkBatchStep == ASSUME IInv, NEW k \in Polls, MarkBatch(k) PROVE IInv'
<1>1. PICK r, c : r = polls[k] /\ c = Min(r.batch)
  OBVIOUS
<1>2. /\ polls' = [polls EXCEPT ![k] = IF Cardinality(r.batch) = 1 THEN NoPoll
                                       ELSE [r EXCEPT !.batch = r.batch \ {c}]]
      /\ inbox' = MarkedRead(r.team, c) /\ UNCHANGED misfiled /\ r.pc = "batch"
      /\ UNCHANGED <<team, queue, lead, worker, verdict, mail, said>>
  BY <1>1 DEF MarkBatch, NextMark, IInv, StateShape
<1>3. /\ r \in PollRec /\ r.team \in Teams /\ r.batch # {} /\ c \in r.batch
      /\ r.batch \ {c} \in SUBSET Nat
      /\ \A i \in r.batch : inbox[r.team][i].taken
  BY <1>1, <1>2, PollHolds DEF IInv, PollFacts
<1>4. BoxFacts
  BY <1>2, <1>3, MarkStep
<1>5. CASE Cardinality(r.batch) = 1
  BY <1>2, <1>4, <1>5, NoPollStep
<1>6. CASE Cardinality(r.batch) # 1
  <2> DEFINE x == [r EXCEPT !.batch = r.batch \ {c}]
  <2>1. polls' = [polls EXCEPT ![k] = x]
    BY <1>2, <1>6
  <2>2. /\ x \in PollRec /\ x.pc = "batch" /\ x.team = r.team /\ x.todo = r.todo
        /\ x.batch = r.batch \ {c}
    BY <1>2, <1>3 DEF PollRec
  <2> HIDE DEF x
  <2>3. r.batch \ {c} # {}
    <3>1. Cardinality({c}) = 1
      BY FS_Singleton
    <3> QED BY <1>3, <1>6, <3>1
  <2>4. x.todo \cup x.batch \subseteq DOMAIN inbox'[x.team]
    BY <1>1, <1>4, <2>2, PollHolds DEF BoxFacts
  <2>5. \A i \in r.batch : inbox'[r.team][i].taken
    <3>1. r.batch \subseteq DOMAIN inbox[r.team]
      BY <1>1, PollHolds
    <3> QED BY <1>3, <1>4, <3>1 DEF BoxFacts, Grown
  <2> QED BY <1>2, <1>4, <2>1, <2>2, <2>3, <2>4, <2>5, PollStep, PollRest DEF BoxFacts
<1> QED BY <1>5, <1>6

LEMMA FailPollStep == ASSUME IInv, NEW k \in Polls, FailPoll(k) PROVE IInv'
<1>1. BoxFacts
  BY SameBoxes DEF FailPoll
<1> QED BY <1>1, NoPollStep DEF FailPoll

----------------------------------------------------------------------------
(* The agent loop and the workers.                                         *)

LEMMA SendStep ==
    ASSUME IInv, NEW t \in Teams, NEW kind \in {"plain", "notice"}, Send(t, kind)
    PROVE  IInv'
<1>1. /\ Post(t, kind, NoReq) /\ UNCHANGED misfiled /\ UNCHANGED polls
      /\ UNCHANGED <<team, queue, lead, worker, verdict, mail, said>>
  BY DEF Send
<1>2. kind = "request" <=> NoReq \in Requests
  BY NoReqIsNone
<1>3. BoxFacts
  BY <1>1, <1>2, PostStep
<1> QED BY <1>1, <1>3, PollsKept, PollRest DEF BoxFacts

LEMMA RequestStep == ASSUME IInv, NEW w \in Workers, Request(w) PROVE IInv'
<1>1. PICK n : n = worker[w].n /\ n \in Nat /\ n < MaxRequests
  BY LeadAssumption DEF Request, IInv, StateShape, WorkerRec
<1> DEFINE x == [n |-> n + 1, waits |-> TRUE]
           q == <<w, n + 1>>
<1>2. x \in WorkerRec /\ x.n = n + 1 /\ q \in Requests
  BY <1>1, LeadAssumption DEF WorkerRec, Requests
<1>3. worker' = [worker EXCEPT ![w] = x] /\ Post(1, "request", q) /\ UNCHANGED misfiled
      /\ UNCHANGED <<team, polls, queue, lead, verdict, mail, said>>
  BY <1>1 DEF Request, IInv, StateShape
<1> HIDE DEF x, q
<1>4. /\ worker' \in [Workers -> WorkerRec] /\ worker'[w] = x
      /\ \A v \in Workers : v # w => worker'[v] = worker[v]
  BY <1>2, <1>3 DEF IInv, StateShape
<1>5. 1 \in Teams
  BY LeadAssumption DEF Teams
<1>6. BoxFacts
  BY <1>2, <1>3, <1>5, PostStep
<1>7. PollFacts' /\ QueueFacts'
  BY <1>3, <1>6, PollsKept, QueueKept DEF BoxFacts
<1>8. MailFacts'
  BY <1>1, <1>2, <1>3, <1>4 DEF IInv, MailFacts
<1>9. StateShape' /\ OwnVerdict'
  BY <1>3, <1>4, <1>6 DEF IInv, StateShape, OwnVerdict, BoxFacts, Grown
<1> QED BY <1>6, <1>7, <1>8, <1>9 DEF IInv, BoxFacts

\* The loop that is free has no items.
LEMMA FreeIsLead ==
    /\ Free \in LeadRec /\ Free.pc = "free" /\ Free.items = <<>>
    /\ DOMAIN Free.items = {}
<1>1. <<>> \in Seq(ItemRec) /\ DOMAIN <<>> = {}
  BY EmptySeq
<1> QED BY <1>1, LeadAssumption DEF Free, LeadRec, Teams

\* A step of the agent loop that sends no answer.
LEMMA LeadRest ==
    ASSUME IInv, BoxFacts, lead' \in LeadRec, queue' \in Seq(ItemRec), QueueFacts',
           UNCHANGED <<team, polls, worker, verdict, mail, said>>
    PROVE  IInv'
<1>1. PollFacts'
  BY PollsKept DEF BoxFacts
<1>2. StateShape' /\ MailFacts' /\ OwnVerdict'
  BY DEF IInv, StateShape, MailFacts, OwnVerdict, BoxFacts, Grown
<1> QED BY <1>1, <1>2 DEF IInv, BoxFacts

LEMMA TurnStep == ASSUME IInv, Turn PROVE IInv'
<1> DEFINE x == [Free EXCEPT !.pc = "ask", !.team = team, !.items = queue]
<1>1. /\ lead' = x /\ queue' = <<>> /\ queue # <<>>
      /\ UNCHANGED <<inbox, misfiled>> /\ UNCHANGED <<team, polls, worker, verdict, mail, said>>
  BY DEF Turn
<1>2. x \in LeadRec /\ x.items = queue
  BY DEF IInv, StateShape, Free, LeadRec
<1> HIDE DEF x
<1>3. queue' \in Seq(ItemRec) /\ DOMAIN queue' = {}
  BY <1>1, EmptySeq
<1>4. QueueFacts'
  BY <1>1, <1>2, <1>3 DEF IInv, QueueFacts, Valid
<1> QED BY <1>1, <1>2, <1>3, <1>4, SameBoxes, LeadRest

\* What the loop works on.
LEMMA ItemHolds ==
    ASSUME IInv, lead.pc # "free"
    PROVE  /\ Item \in ItemRec /\ Item.req \in Requests /\ Item.req[1] \in Workers
           /\ Valid(Item) /\ lead.team \in Teams
           /\ lead.items # <<>> /\ Len(lead.items) \in Nat /\ lead.items \in Seq(ItemRec)
<1>1. lead.items # <<>> /\ lead.items \in Seq(ItemRec) /\ lead.team \in Teams
  BY Types DEF IInv, QueueFacts
<1>2. /\ Item \in ItemRec /\ Len(lead.items) \in Nat \ {0}
      /\ DOMAIN lead.items = 1..Len(lead.items)
  BY <1>1, HeadTailProperties, EmptySeq, LenProperties DEF Item
<1>3. Item = lead.items[1] /\ 1 \in DOMAIN lead.items
  BY <1>1, <1>2 DEF Item
<1>4. Valid(Item)
  BY <1>3 DEF IInv, QueueFacts
<1>5. Item.req \in Requests
  BY <1>2 DEF ItemRec
<1>6. Item.req[1] \in Workers
  BY <1>5 DEF Requests
<1> QED BY <1>1, <1>2, <1>4, <1>5, <1>6

\* The loop goes on to the next item.
LEMMA ProceedStep ==
    ASSUME IInv, BoxFacts, lead.pc = "mark", Proceed, UNCHANGED queue,
           UNCHANGED <<team, polls, worker, verdict, mail, said>>
    PROVE  IInv'
<1>1. PICK s \in Seq(ItemRec) : s = lead.items /\ s # <<>> /\ Len(s) \in Nat
  BY ItemHolds
<1>2. queue' \in Seq(ItemRec)
  BY DEF IInv, StateShape
<1>3. \A i \in DOMAIN queue : ValidNext(queue[i])
  BY Types, ValidKept DEF IInv, QueueFacts, BoxFacts
<1>4. CASE Len(s) = 1
  <2>1. lead' = Free
    BY <1>1, <1>4 DEF Proceed
  <2>2. QueueFacts'
    BY <1>3, <2>1, FreeIsLead DEF QueueFacts, Valid, ValidNext
  <2> QED BY <1>2, <2>1, <2>2, FreeIsLead, LeadRest
<1>5. CASE Len(s) # 1
  <2>1. PICK u : u = Tail(s)
    OBVIOUS
  <2>2. /\ u \in Seq(ItemRec) /\ Len(u) = Len(s) - 1 /\ Len(s) \in Nat \ {0}
        /\ \A i \in 1..Len(u) : u[i] = s[i + 1]
        /\ DOMAIN u = 1..Len(u) /\ DOMAIN s = 1..Len(s)
    BY <1>1, <2>1, HeadTailProperties, LenProperties, EmptySeq
  <2>3. u # <<>>
    <3>1. Len(u) # 0
      BY <1>5, <2>2
    <3>2. Len(<<>>) = 0
      BY EmptySeq
    <3> QED BY <3>1, <3>2
  <2> DEFINE x == [lead EXCEPT !.pc = "ask", !.items = u]
  <2>4. lead' = x
    BY <1>1, <1>5, <2>1 DEF Proceed
  <2>5. x \in LeadRec /\ x.items = u
    <3>1. lead \in LeadRec /\ u \in Seq(ItemRec)
      BY <2>2 DEF IInv, StateShape
    <3> QED BY <3>1 DEF LeadRec
  <2> HIDE DEF x
  <2>6. \A i \in DOMAIN s : ValidNext(s[i])
    <3>1. \A i \in DOMAIN s : s[i] \in ItemRec /\ Valid(s[i])
      BY <1>1, <2>2, ElementOfSeq DEF IInv, QueueFacts
    <3> QED BY <3>1, ValidKept DEF BoxFacts
  <2>7. \A i \in DOMAIN u : ValidNext(u[i])
    <3> TAKE i \in DOMAIN u
    <3>1. i + 1 \in DOMAIN s /\ u[i] = s[i + 1]
      BY <1>1, <2>2
    <3> QED BY <2>6, <3>1
  <2>8. QueueFacts'
    BY <1>3, <2>3, <2>4, <2>5, <2>7 DEF QueueFacts, Valid, ValidNext
  <2> QED BY <1>2, <2>4, <2>5, <2>8, LeadRest
<1> QED BY <1>4, <1>5

LEMMA MarkItemStep == ASSUME IInv, MarkItem PROVE IInv'
<1>1. PICK it, t : it = Item /\ t = lead.team
  OBVIOUS
<1>2. /\ inbox' = MarkedRead(t, it.index) /\ Proceed /\ lead.pc = "mark"
      /\ misfiled' = IF t # it.team /\ it.index \in DOMAIN inbox[t]
                     THEN misfiled \cup {<<t, it.index>>} ELSE misfiled
      /\ UNCHANGED queue /\ UNCHANGED <<team, polls, worker, verdict, mail, said>>
  BY <1>1 DEF MarkItem
<1>3. t \in Teams /\ Valid(it)
  BY <1>1, <1>2, ItemHolds
<1>4. it.index \in DOMAIN inbox[t] => inbox[t][it.index].taken \/ <<t, it.index>> \in misfiled'
  BY <1>2, <1>3 DEF Valid
<1>5. misfiled \subseteq misfiled'
  BY <1>2
<1>6. BoxFacts
  BY <1>2, <1>3, <1>4, <1>5, MarkStep
<1> QED BY <1>2, <1>6, ProceedStep

LEMMA FailItemStep == ASSUME IInv, FailItem PROVE IInv'
<1>1. /\ lead' = Free /\ UNCHANGED queue /\ UNCHANGED <<inbox, misfiled>>
      /\ UNCHANGED <<team, polls, worker, verdict, mail, said>>
  BY DEF FailItem
<1>2. QueueFacts'
  BY <1>1, FreeIsLead DEF IInv, QueueFacts, Valid
<1>3. queue' \in Seq(ItemRec) /\ BoxFacts
  BY <1>1, SameBoxes DEF IInv, StateShape
<1> QED BY <1>1, <1>2, <1>3, FreeIsLead, LeadRest

LEMMA CreateTeamStep == ASSUME IInv, CreateTeam PROVE IInv'
<1>1. /\ team' = team + 1 /\ team < MaxTeams
      /\ UNCHANGED <<inbox, polls, queue, lead, worker, verdict, mail, said, misfiled>>
  BY DEF CreateTeam
<1>2. team' \in Teams
  BY <1>1, LeadAssumption DEF IInv, StateShape, Teams
<1>3. StateShape'
  BY <1>1, <1>2 DEF IInv, StateShape
<1>4. BoxFacts
  BY <1>1, SameBoxes
<1>5. PollFacts' /\ QueueFacts'
  BY <1>1, <1>4, PollsKept, QueueKept DEF BoxFacts
<1>6. MailFacts' /\ OwnVerdict'
  BY <1>1 DEF IInv, MailFacts, OwnVerdict
<1> QED BY <1>3, <1>4, <1>5, <1>6 DEF IInv, BoxFacts

LEMMA AnswerStep ==
    ASSUME IInv, NEW answer \in {"approved", "rejected"}, Answer(answer)
    PROVE  IInv'
<1>1. PICK it, q, w : it = Item /\ q = it.req /\ w = it.req[1]
  <2>1. Item = Item /\ Item.req = Item.req /\ Item.req[1] = Item.req[1]
    OBVIOUS
  <2> QED BY <2>1
<1> DEFINE x == [lead EXCEPT !.pc = "mark"]
           m == [req |-> q, answer |-> answer]
<1>2. /\ lead.pc = "ask" /\ lead' = x
      /\ said' = [said EXCEPT ![q] = said[q] \cup {answer}]
      /\ mail' = [mail EXCEPT ![w] = Append(mail[w], m)] \/ UNCHANGED mail
      /\ UNCHANGED <<team, inbox, polls, queue, worker, verdict, misfiled>>
  BY <1>1 DEF Answer, IInv, StateShape
<1>3. q \in Requests /\ w \in Workers /\ lead.items # <<>>
  BY <1>1, <1>2, ItemHolds
<1>4. m \in MailRec /\ m.req = q /\ m.answer = answer
  BY <1>3 DEF MailRec
<1>5. x \in LeadRec /\ x.items = lead.items
  <2>1. lead \in LeadRec
    BY DEF IInv, StateShape
  <2> QED BY <2>1 DEF LeadRec
<1> HIDE DEF x, m
<1>6. /\ said' \in [Requests -> SUBSET {"approved", "rejected"}] /\ answer \in said'[q]
      /\ \A r \in Requests : said[r] \subseteq said'[r]
  BY <1>2, <1>3 DEF IInv, StateShape
<1>7. /\ mail' \in [Workers -> Seq(MailRec)]
      /\ \A v \in Workers : \A i \in DOMAIN mail'[v] :
            mail'[v][i].answer \in said'[mail'[v][i].req]
  <2>1. \A v \in Workers : \A i \in DOMAIN mail[v] :
           /\ mail[v][i].req \in Requests /\ mail[v][i].answer \in said[mail[v][i].req]
    BY Types DEF IInv, MailFacts, MailRec
  <2>2. CASE UNCHANGED mail
    BY <1>6, <2>1, <2>2 DEF IInv, StateShape
  <2>3. CASE mail' = [mail EXCEPT ![w] = Append(mail[w], m)]
    <3>1. mail[w] \in Seq(MailRec) /\ Len(mail[w]) \in Nat /\ DOMAIN mail[w] = 1..Len(mail[w])
      BY <1>3, Types
    <3>2. PICK box : box = Append(mail[w], m)
      OBVIOUS
    <3>3. /\ box \in Seq(MailRec) /\ DOMAIN box = 1..Len(mail[w]) + 1
          /\ \A i \in DOMAIN mail[w] : box[i] = mail[w][i]
          /\ box[Len(mail[w]) + 1] = m
      BY <1>4, <3>1, <3>2, AppendProperties, LenProperties
    <3>4. /\ mail' \in [Workers -> Seq(MailRec)] /\ mail'[w] = box
          /\ \A v \in Workers : v # w => mail'[v] = mail[v]
      BY <1>3, <2>3, <3>2, <3>3 DEF IInv, StateShape
    <3>5. \A i \in DOMAIN box : box[i].answer \in said'[box[i].req]
      <4> TAKE i \in DOMAIN box
      <4>1. CASE i \in DOMAIN mail[w]
        BY <1>3, <1>6, <2>1, <3>3, <4>1
      <4>2. CASE i \notin DOMAIN mail[w]
        <5>1. i = Len(mail[w]) + 1
          BY <3>1, <3>3, <4>2
        <5> QED BY <1>4, <1>6, <3>3, <5>1
      <4> QED BY <4>1, <4>2
    <3> QED BY <1>6, <2>1, <3>4, <3>5
  <2> QED BY <1>2, <2>2, <2>3
<1>8. BoxFacts
  BY <1>2, SameBoxes
<1>9. PollFacts'
  BY <1>2, <1>8, PollsKept DEF BoxFacts
<1>10. QueueFacts'
  BY <1>2, <1>3, <1>5 DEF IInv, QueueFacts, Valid
<1>11. StateShape'
  BY <1>2, <1>5, <1>6, <1>7 DEF IInv, StateShape
<1>12. MailFacts' /\ OwnVerdict'
  BY <1>2, <1>6, <1>7 DEF IInv, MailFacts, OwnVerdict
<1> QED BY <1>8, <1>9, <1>10, <1>11, <1>12 DEF IInv, BoxFacts

\* What is left when one message is removed was there before.
LEMMA RemoveIsPart ==
    ASSUME NEW S, NEW s \in Seq(S), NEW i \in DOMAIN s
    PROVE  /\ RemoveAt(s, i) \in Seq(S)
           /\ \A j \in DOMAIN RemoveAt(s, i) : \E l \in DOMAIN s : RemoveAt(s, i)[j] = s[l]
<1>1. Len(s) \in Nat /\ DOMAIN s = 1..Len(s) /\ i \in 1..Len(s) /\ \A l \in 1..Len(s) : s[l] \in S
  BY LenProperties, ElementOfSeq
<1> DEFINE a == SubSeq(s, 1, i - 1)
           b == SubSeq(s, i + 1, Len(s))
<1>2. /\ a \in Seq(S) /\ Len(a) = i - 1 /\ \A j \in 1..i - 1 : a[j] = s[j]
  <2>1. \A l \in 1..i - 1 : s[l] \in S
    BY <1>1
  <2>2. i - 1 \in Int /\ i - 1 >= 0
    BY <1>1
  <2>3. /\ a \in Seq(S) /\ Len(a) = IF 1 <= i - 1 THEN i - 1 - 1 + 1 ELSE 0
        /\ \A j \in 1..i - 1 - 1 + 1 : a[j] = s[1 + j - 1]
    BY <2>1, <2>2, SubSeqProperties
  <2> QED BY <1>1, <2>2, <2>3
<1>3. /\ b \in Seq(S) /\ Len(b) = Len(s) - i /\ \A j \in 1..Len(s) - i : b[j] = s[i + j]
  <2>1. \A l \in i + 1..Len(s) : s[l] \in S
    BY <1>1
  <2>2. i + 1 \in Int /\ Len(s) \in Int
    BY <1>1
  <2>3. /\ b \in Seq(S) /\ Len(b) = IF i + 1 <= Len(s) THEN Len(s) - (i + 1) + 1 ELSE 0
        /\ \A j \in 1..Len(s) - (i + 1) + 1 : b[j] = s[i + 1 + j - 1]
    BY <2>1, <2>2, SubSeqProperties
  <2> QED BY <1>1, <2>2, <2>3, SMTT(30)
<1>4. RemoveAt(s, i) = a \o b
  BY DEF RemoveAt
<1> HIDE DEF a, b
<1>5. PICK c : c = a \o b
  OBVIOUS
<1>6. /\ c \in Seq(S) /\ Len(c) = Len(s) - 1 /\ DOMAIN c = 1..Len(c)
      /\ \A j \in 1..Len(s) - 1 : c[j] = IF j <= i - 1 THEN a[j] ELSE b[j - (i - 1)]
  <2>1. /\ c \in Seq(S) /\ Len(c) = Len(a) + Len(b)
        /\ \A j \in 1..Len(a) + Len(b) : c[j] = IF j <= Len(a) THEN a[j] ELSE b[j - Len(a)]
    BY <1>2, <1>3, <1>5, ConcatProperties
  <2>2. Len(a) + Len(b) = Len(s) - 1
    BY <1>1, <1>2, <1>3
  <2>3. DOMAIN c = 1..Len(c)
    BY <2>1, LenProperties
  <2> QED BY <1>2, <2>1, <2>2, <2>3
<1>7. \A j \in DOMAIN c : \E l \in DOMAIN s : c[j] = s[l]
  <2> TAKE j \in DOMAIN c
  <2>0. j \in 1..Len(s) - 1
    BY <1>6
  <2>1. CASE j <= i - 1
    <3>1. c[j] = s[j] /\ j \in DOMAIN s
      BY <1>1, <1>2, <1>6, <2>0, <2>1
    <3> QED BY <3>1
  <2>2. CASE ~(j <= i - 1)
    <3>1. PICK h : h = j - (i - 1) /\ h \in 1..Len(s) - i /\ i + h = j + 1 /\ j + 1 \in DOMAIN s
      <4>1. j - (i - 1) \in 1..Len(s) - i /\ i + (j - (i - 1)) = j + 1 /\ j + 1 \in DOMAIN s
        BY <1>1, <2>0, <2>2
      <4> QED BY <4>1
    <3>2. c[j] = b[h]
      BY <1>6, <2>0, <2>2, <3>1
    <3>3. b[h] = s[i + h]
      BY <1>3, <3>1
    <3> QED BY <3>1, <3>2, <3>3
  <2> QED BY <2>1, <2>2
<1> QED BY <1>4, <1>5, <1>6, <1>7

\* A step of a worker that touches no mailbox of the lead.
LEMMA WorkerRest ==
    ASSUME IInv, StateShape', MailFacts', OwnVerdict',
           UNCHANGED <<team, inbox, polls, queue, lead, said, misfiled>>
    PROVE  IInv'
<1>1. BoxFacts
  BY SameBoxes
<1>2. PollFacts' /\ QueueFacts'
  BY <1>1, PollsKept, QueueKept DEF BoxFacts
<1> QED BY <1>1, <1>2 DEF IInv, BoxFacts

\* A worker's call ends with a verdict.
LEMMA EndStep ==
    ASSUME IInv, NEW w \in Workers, NEW v \in {"approved", "rejected", "timeout"}, End(w, v),
           worker[w].waits, v # "timeout" => v \in said[Mine(w)], UNCHANGED said
    PROVE  /\ worker' \in [Workers -> WorkerRec]
           /\ \A u \in Workers : worker'[u].waits => worker'[u].n > 0
           /\ verdict' \in [Requests -> {"none", "approved", "rejected", "timeout"}]
           /\ OwnVerdict'
<1>1. PICK old \in WorkerRec : old = worker[w] /\ old.n > 0
  BY DEF IInv, StateShape, MailFacts
<1> DEFINE x == [old EXCEPT !.waits = FALSE]
<1>2. x \in WorkerRec /\ x.n = old.n
  BY <1>1 DEF WorkerRec
<1>3. worker' = [worker EXCEPT ![w] = x]
  BY <1>1 DEF End
<1> HIDE DEF x
<1>4. /\ worker' \in [Workers -> WorkerRec]
      /\ \A u \in Workers : worker'[u].waits => worker'[u].n > 0
  BY <1>1, <1>2, <1>3 DEF IInv, StateShape, MailFacts
<1>5. Mine(w) \in Requests
  BY <1>1, LeadAssumption DEF Mine, Requests, WorkerRec
<1>6. verdict' = [verdict EXCEPT ![Mine(w)] = v]
  BY DEF End
<1>7. verdict' \in [Requests -> {"none", "approved", "rejected", "timeout"}] /\ OwnVerdict'
  BY <1>5, <1>6 DEF IInv, StateShape, OwnVerdict
<1> QED BY <1>4, <1>7

LEMMA ReceiveStep == ASSUME IInv, NEW w \in Workers, Receive(w) PROVE IInv'
<1>1. Answers(w) \in SUBSET Nat /\ Answers(w) # {} /\ Answers(w) \subseteq DOMAIN mail[w]
  BY Types DEF Receive, Answers
<1>2. PICK i : i = Min(Answers(w)) /\ i \in Answers(w)
  BY <1>1, MinIn
<1>3. PICK m, rest : m = mail[w][i] /\ rest = RemoveAt(mail[w], i)
  OBVIOUS
<1>4. /\ mail[w] \in Seq(MailRec) /\ i \in DOMAIN mail[w] /\ m \in MailRec
      /\ m.req = Mine(w) /\ m.answer \in said[m.req]
  BY <1>1, <1>2, <1>3, Types DEF Answers, IInv, MailFacts
<1>5. /\ mail' = [mail EXCEPT ![w] = rest] /\ End(w, m.answer) /\ worker[w].waits
      /\ UNCHANGED <<team, inbox, polls, queue, lead, said, misfiled>>
  BY <1>2, <1>3 DEF Receive
<1>6. m.answer \in {"approved", "rejected"}
  BY <1>4 DEF MailRec
<1>7. /\ worker' \in [Workers -> WorkerRec]
      /\ \A u \in Workers : worker'[u].waits => worker'[u].n > 0
      /\ verdict' \in [Requests -> {"none", "approved", "rejected", "timeout"}]
      /\ OwnVerdict'
  BY <1>4, <1>5, <1>6, EndStep
<1>8. /\ rest \in Seq(MailRec)
      /\ \A j \in DOMAIN rest : \E l \in DOMAIN mail[w] : rest[j] = mail[w][l]
  BY <1>3, <1>4, RemoveIsPart
<1>9. StateShape'
  BY <1>5, <1>7, <1>8 DEF IInv, StateShape
<1>10. MailFacts'
  <2>1. /\ mail'[w] = rest /\ \A u \in Workers : u # w => mail'[u] = mail[u]
    BY <1>5 DEF IInv, StateShape
  <2>2. \A j \in DOMAIN rest : rest[j].answer \in said[rest[j].req]
    BY <1>8 DEF IInv, MailFacts
  <2> QED BY <1>5, <1>7, <2>1, <2>2 DEF IInv, MailFacts
<1> QED BY <1>5, <1>7, <1>9, <1>10, WorkerRest

LEMMA GiveUpStep == ASSUME IInv, NEW w \in Workers, GiveUp(w) PROVE IInv'
<1>1. /\ End(w, "timeout") /\ worker[w].waits
      /\ UNCHANGED <<team, inbox, polls, queue, lead, mail, said, misfiled>>
  BY DEF GiveUp
<1>2. /\ worker' \in [Workers -> WorkerRec]
      /\ \A u \in Workers : worker'[u].waits => worker'[u].n > 0
      /\ verdict' \in [Requests -> {"none", "approved", "rejected", "timeout"}]
      /\ OwnVerdict'
  BY <1>1, EndStep
<1>3. StateShape' /\ MailFacts'
  BY <1>1, <1>2 DEF IInv, StateShape, MailFacts
<1> QED BY <1>1, <1>2, <1>3, WorkerRest

LEMMA DispatchStep == ASSUME IInv, NEW w \in Workers, Dispatch(w) PROVE IInv'
<1>1. /\ mail' = [mail EXCEPT ![w] = <<>>]
      /\ UNCHANGED <<team, inbox, polls, queue, lead, worker, verdict, said, misfiled>>
  BY DEF Dispatch
<1>2. <<>> \in Seq(MailRec) /\ DOMAIN <<>> = {}
  BY EmptySeq
<1>3. StateShape' /\ MailFacts' /\ OwnVerdict'
  BY <1>1, <1>2 DEF IInv, StateShape, MailFacts, OwnVerdict
<1> QED BY <1>1, <1>3, WorkerRest

----------------------------------------------------------------------------
(* The theorems.                                                           *)

LEMMA InitIInv == Init => IInv
<1> SUFFICES ASSUME Init PROVE IInv
  OBVIOUS
<1>1. 1 \in Teams /\ \A S : <<>> \in Seq(S) /\ DOMAIN <<>> = {}
  BY EmptySeq, LeadAssumption DEF Teams
<1>2. /\ NoPoll \in PollRec /\ NoPoll.todo = {} /\ NoPoll.batch = {} /\ NoPoll.pc = "none"
  BY LeadAssumption DEF NoPoll, PollRec, Teams
<1>3. [n |-> 0, waits |-> FALSE] \in WorkerRec
  BY LeadAssumption DEF WorkerRec
<1>4. StateShape
  BY <1>1, <1>2, <1>3, FreeIsLead DEF Init, StateShape
<1>5. PollFacts
  BY <1>2 DEF Init, PollFacts
<1>6. QueueFacts
  BY <1>1, FreeIsLead DEF Init, QueueFacts
<1>7. EntryFacts /\ ReadMeansTaken
  BY <1>1 DEF Init, EntryFacts, ReadMeansTaken
<1>8. MailFacts /\ OwnVerdict
  BY <1>1 DEF Init, MailFacts, OwnVerdict
<1> QED BY <1>4, <1>5, <1>6, <1>7, <1>8 DEF IInv

LEMMA NextIInv == IInv /\ [Next]_vars => IInv'
<1> SUFFICES ASSUME IInv, [Next]_vars PROVE IInv'
  OBVIOUS
<1>1. CASE UNCHANGED vars
  <2>1. BoxFacts
    BY <1>1, SameBoxes DEF vars
  <2> QED BY <1>1, <2>1, PollsKept, PollRest DEF vars, BoxFacts
<1>2. CASE \E t \in Teams : Send(t, "plain") \/ Send(t, "notice")
  BY <1>2, SendStep
<1>3. CASE \E k \in Polls : StartPoll(k) \/ Advance(k) \/ FailPoll(k)
  BY <1>3, StartPollStep, RoutePlainStep, RouteNoticeStep, MarkNoticeStep, RouteRequestStep,
     InjectStep, MarkBatchStep, FailPollStep DEF Advance
<1>4. CASE Turn \/ MarkItem \/ FailItem \/ CreateTeam
  BY <1>4, TurnStep, MarkItemStep, FailItemStep, CreateTeamStep
<1>5. CASE \E answer \in {"approved", "rejected"} : Answer(answer)
  BY <1>5, AnswerStep
<1>6. CASE \E w \in Workers : Request(w) \/ Receive(w) \/ GiveUp(w) \/ Dispatch(w)
  BY <1>6, RequestStep, ReceiveStep, GiveUpStep, DispatchStep
<1> QED BY <1>1, <1>2, <1>3, <1>4, <1>5, <1>6 DEF Next

\* Every reachable state satisfies the inductive invariant: the places that
\* polls, the queue and the agent loop hold stay those of their own entries.
THEOREM Invariance == Spec => []IInv
BY InitIInv, NextIInv, PTL DEF Spec

\* Mailboxes, queues and polls keep the shape their readers rely on, for any
\* number of polls under way.
THEOREM TypeCorrect == Spec => []TypeOK
<1>1. IInv => TypeOK
  <2> SUFFICES ASSUME IInv PROVE TypeOK
    OBVIOUS
  <2>1. \A t \in Teams : \A i \in DOMAIN inbox[t] : Entry(inbox[t][i])
    BY Types DEF IInv, EntryFacts, Entry, EntryRec
  <2>2. \A k \in Polls : /\ polls[k].pc \in {"none", "route", "mark", "batch"}
                         /\ polls[k].team \in Teams
                         /\ polls[k].todo \cup polls[k].batch \subseteq DOMAIN inbox[polls[k].team]
    BY Types DEF IInv, PollFacts, PollRec
  <2>3. \A i \in DOMAIN queue :
           /\ queue[i].index \in DOMAIN inbox[queue[i].team]
           /\ inbox[queue[i].team][queue[i].index].req = queue[i].req
    BY DEF IInv, QueueFacts, Valid
  <2>4. /\ team \in Teams /\ lead.pc \in {"free", "ask", "mark"}
        /\ worker \in [Workers -> [n: 0..MaxRequests, waits: BOOLEAN]]
        /\ verdict \in [Requests -> {"none", "approved", "rejected", "timeout"}]
    BY DEF IInv, StateShape, LeadRec, WorkerRec
  <2> QED BY <2>1, <2>2, <2>3, <2>4 DEF TypeOK
<1> QED BY <1>1, Invariance, PTL

\* pollOnce and resolvePermissionItem: however polls overlap, fail and race with
\* the agent loop, no message is marked as read that was neither taken nor the
\* victim of a mark made in another team.
THEOREM NothingReadUntaken == Spec => []ReadMeansTaken
<1>1. IInv => ReadMeansTaken
  BY DEF IInv
<1> QED BY <1>1, Invariance, PTL

\* pollForPermissionResponse: a verdict a worker acts on is one the user gave on
\* that very request, however late, repeated or overtaken the answers are.
THEOREM OwnVerdicts == Spec => []OwnVerdict
<1>1. IInv => OwnVerdict
  BY DEF IInv
<1> QED BY <1>1, Invariance, PTL

=============================================================================
