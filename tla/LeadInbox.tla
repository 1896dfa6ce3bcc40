----------------------------- MODULE LeadInbox -----------------------------
(***************************************************************************)
(* The lead's mailbox and the permission requests of its teammates:        *)
(* src/teammates/poller.ts and src/permission-sync.ts.                     *)
(*                                                                         *)
(* A timer starts a poll every second, whether or not the one before has   *)
(* ended.  A poll reads the mailbox once, then goes through what was       *)
(* unread; each mark waits for a file lock.  Permission requests go to a   *)
(* queue the lead's agent loop empties at the start of a turn: it asks the *)
(* user, answers through the worker's mailbox, and only then marks the     *)
(* request as read.  The worker polls its own mailbox until a time limit.  *)
(*                                                                         *)
(* Workers belong to the lead's first team; create_team moves the lead to  *)
(* another one, and the timer with it.  Messages are numbered by their     *)
(* place in a mailbox, which only grows.                                   *)
(***************************************************************************)
EXTENDS Integers, Sequences, FiniteSetsExt, SequencesExt

CONSTANTS
    Workers,     \* teammates whose calls may need a permission
    MaxRequests, \* requests a worker makes, one after the other
    MaxMessages, \* other messages to the lead
    MaxPolls,    \* polls under way at once
    MaxTeams,    \* teams the lead is moved through
    MaxAnswers   \* answers that wait in a worker's mailbox

Teams    == 1..MaxTeams
Polls    == 1..MaxPolls
Requests == Workers \X (1..MaxRequests)
Places   == 1..MaxMessages + Cardinality(Requests)

ASSUME LeadAssumption ==
    /\ MaxRequests \in Nat /\ MaxMessages \in Nat /\ MaxAnswers \in Nat
    /\ MaxPolls \in Nat \ {0} /\ MaxTeams \in Nat \ {0}

VARIABLES
    team,     \* the lead's team, whose mailbox the timer polls
    inbox,    \* the lead's mailbox in each team
    polls,    \* the polls under way
    queue,    \* pendingPermissionRequests
    lead,     \* the agent loop in processPendingLeadPermissions
    worker,   \* number of the worker's request, and whether it waits
    verdict,  \* what came of a request
    mail,     \* unread permission_response messages of the workers
    said,     \* what the user answered, by request
    misfiled  \* entries marked in a team they were not queued from

vars == <<team, inbox, polls, queue, lead, worker, verdict, mail, said, misfiled>>

\* A notice is a structured message other than a permission request.  taken: it
\* was injected, queued for the user, or is of a type routeMessage only marks.
Entry(m) ==
    /\ m.kind \in {"plain", "notice", "request"}
    /\ m.kind = "request" <=> m.req \in Requests
    /\ m.read \in BOOLEAN /\ m.taken \in BOOLEAN

NoPoll == [pc |-> "none", team |-> 1, todo |-> {}, batch |-> {}]
Free   == [pc |-> "free", team |-> 1, items |-> <<>>]

Init ==
    /\ team = 1
    /\ inbox = [t \in Teams |-> <<>>]
    /\ polls = [k \in Polls |-> NoPoll]
    /\ queue = <<>>
    /\ lead = Free
    /\ worker = [w \in Workers |-> [n |-> 0, waits |-> FALSE]]
    /\ verdict = [r \in Requests |-> "none"]
    /\ mail = [w \in Workers |-> <<>>]
    /\ said = [r \in Requests |-> {}]
    /\ misfiled = {}

----------------------------------------------------------------------------
(* Mailboxes.                                                              *)

NoReq == <<>>

Posted == {e \in Teams \X Places :
              e[2] \in DOMAIN inbox[e[1]] /\ inbox[e[1]][e[2]].kind # "request"}

Post(t, kind, req) ==
    inbox' = [inbox EXCEPT ![t] =
                 Append(@, [kind |-> kind, req |-> req, read |-> FALSE, taken |-> FALSE])]

\* markMessageAsReadByIndex, which ignores an index beyond the mailbox.
MarkedRead(t, i) ==
    IF i \in DOMAIN inbox[t] THEN [inbox EXCEPT ![t][i].read = TRUE] ELSE inbox

Take(t, S) ==
    LET box == inbox[t]
    IN [inbox EXCEPT ![t] =
           [i \in DOMAIN box |-> [box[i] EXCEPT !.taken = box[i].taken \/ i \in S]]]

Unread(t) == {i \in DOMAIN inbox[t] : ~inbox[t][i].read}

\* A teammate's report or idle notification.
Send(t, kind) ==
    /\ t <= team /\ Cardinality(Posted) < MaxMessages
    /\ Post(t, kind, NoReq)
    /\ UNCHANGED <<team, polls, queue, lead, worker, verdict, mail, said, misfiled>>

----------------------------------------------------------------------------
(* pollOnce.                                                               *)

\* Mutant: no poll while the user has something to decide.
Due_NothingQueued(k) == polls[k] = NoPoll /\ queue = <<>>

\* The timer does not wait for the previous poll.
Due(k) == polls[k] = NoPoll

StartPoll(k) ==
    /\ Due(k) /\ Unread(team) # {}
    /\ polls' = [polls EXCEPT ![k] = [pc |-> "route", team |-> team,
                                      todo |-> Unread(team), batch |-> {}]]
    /\ UNCHANGED <<team, inbox, queue, lead, worker, verdict, mail, said, misfiled>>

Current(k) == Min(polls[k].todo)
Routing(k, kind) ==
    /\ polls[k].pc = "route" /\ polls[k].todo # {}
    /\ inbox[polls[k].team][Current(k)].kind = kind

RoutePlain(k) ==
    /\ Routing(k, "plain")
    /\ polls' = [polls EXCEPT ![k].todo = @ \ {Current(k)}, ![k].batch = @ \cup {Current(k)}]
    /\ UNCHANGED <<team, inbox, queue, lead, worker, verdict, mail, said, misfiled>>

\* Taken first (an idle notification is queued, a plan injected), then marked.
RouteNotice(k) ==
    /\ Routing(k, "notice")
    /\ inbox' = Take(polls[k].team, {Current(k)})
    /\ polls' = [polls EXCEPT ![k].pc = "mark"]
    /\ UNCHANGED <<team, queue, lead, worker, verdict, mail, said, misfiled>>

MarkNotice(k) ==
    /\ polls[k].pc = "mark"
    /\ inbox' = MarkedRead(polls[k].team, Current(k))
    /\ polls' = [polls EXCEPT ![k].pc = "route", ![k].todo = @ \ {Current(k)}]
    /\ UNCHANGED <<team, queue, lead, worker, verdict, mail, said, misfiled>>

\* The place in the mailbox.
Index(k) == Current(k)

\* Queued unless the queue has the same request; not marked.
RouteRequest(k) ==
    /\ Routing(k, "request")
    /\ LET t == polls[k].team
           r == inbox[t][Current(k)].req
       IN IF \E i \in DOMAIN queue : queue[i].req = r
          THEN UNCHANGED <<queue, inbox>>
          ELSE /\ queue' = Append(queue, [req |-> r, index |-> Index(k), team |-> t])
               /\ inbox' = Take(t, {Current(k)})
    /\ polls' = [polls EXCEPT ![k].todo = @ \ {Current(k)}]
    /\ UNCHANGED <<team, lead, worker, verdict, mail, said, misfiled>>

\* Everything is routed: the plain messages are injected as one.
Inject(k) ==
    /\ polls[k].pc = "route" /\ polls[k].todo = {}
    /\ inbox' = Take(polls[k].team, polls[k].batch)
    /\ polls' = [polls EXCEPT ![k] = IF @.batch = {} THEN NoPoll ELSE [@ EXCEPT !.pc = "batch"]]
    /\ UNCHANGED <<team, queue, lead, worker, verdict, mail, said, misfiled>>

\* Mutant: places counted from one, not from zero.
NextMark_OffByOne(k) == Min(polls[k].batch) + 1

NextMark(k) == Min(polls[k].batch)

MarkBatch(k) ==
    /\ polls[k].pc = "batch"
    /\ inbox' = MarkedRead(polls[k].team, NextMark(k))
    /\ polls' = [polls EXCEPT ![k] =
          IF Cardinality(@.batch) = 1 THEN NoPoll
          ELSE [@ EXCEPT !.batch = polls[k].batch \ {Min(polls[k].batch)}]]
    /\ UNCHANGED <<team, queue, lead, worker, verdict, mail, said, misfiled>>

\* A mark throws: the rest of the poll is given up.
FailPoll(k) ==
    /\ polls[k].pc \in {"mark", "batch"}
    /\ polls' = [polls EXCEPT ![k] = NoPoll]
    /\ UNCHANGED <<team, inbox, queue, lead, worker, verdict, mail, said, misfiled>>

----------------------------------------------------------------------------
(* The lead's agent loop.                                                  *)

\* processPendingLeadPermissions takes the queue, under the team of this turn.
Turn ==
    /\ lead.pc = "free" /\ queue # <<>>
    /\ lead' = [Free EXCEPT !.pc = "ask", !.team = team, !.items = queue]
    /\ queue' = <<>>
    /\ UNCHANGED <<team, inbox, polls, worker, verdict, mail, said, misfiled>>

Item == Head(lead.items)

\* Items that are done are dropped; the last one frees the loop.
Proceed == lead' = IF Len(lead.items) = 1 THEN Free
                   ELSE [lead EXCEPT !.pc = "ask", !.items = Tail(@)]

\* resolvePermissionItem up to its mark: the user decides, and the answer goes to
\* the worker's name in the team of the turn.  An error in sending is logged and
\* forgotten.
Answer(answer) ==
    /\ lead.pc = "ask" /\ Len(mail[Item.req[1]]) < MaxAnswers
    /\ said' = [said EXCEPT ![Item.req] = @ \cup {answer}]
    /\ lead' = [lead EXCEPT !.pc = "mark"]
    /\ \/ /\ lead.team = Item.team
          /\ mail' = [mail EXCEPT ![Item.req[1]] =
                         Append(@, [req |-> Item.req, answer |-> answer])]
       \/ UNCHANGED mail
    /\ UNCHANGED <<team, inbox, polls, queue, worker, verdict, misfiled>>

\* The item's index is used in the mailbox of the team of the turn.
MarkItem ==
    /\ lead.pc = "mark"
    /\ inbox' = MarkedRead(lead.team, Item.index)
    /\ misfiled' = IF lead.team # Item.team /\ Item.index \in DOMAIN inbox[lead.team]
                   THEN misfiled \cup {<<lead.team, Item.index>>}
                   ELSE misfiled
    /\ Proceed
    /\ UNCHANGED <<team, polls, queue, worker, verdict, mail, said>>

\* The mark throws, and with it the turn.
FailItem ==
    /\ lead.pc = "mark"
    /\ lead' = Free
    /\ UNCHANGED <<team, inbox, polls, queue, worker, verdict, mail, said, misfiled>>

\* create_team, a tool call of the lead.
CreateTeam ==
    /\ lead.pc = "free" /\ team < MaxTeams
    /\ team' = team + 1
    /\ UNCHANGED <<inbox, polls, queue, lead, worker, verdict, mail, said, misfiled>>

----------------------------------------------------------------------------
(* The worker.                                                             *)

Mine(w) == <<w, worker[w].n>>

\* bubbleTeammatePermission
Request(w) ==
    /\ ~worker[w].waits /\ worker[w].n < MaxRequests
    /\ worker' = [worker EXCEPT ![w] = [n |-> @.n + 1, waits |-> TRUE]]
    /\ Post(1, "request", <<w, worker[w].n + 1>>)
    /\ UNCHANGED <<team, polls, queue, lead, verdict, mail, said, misfiled>>

End(w, v) ==
    /\ worker' = [worker EXCEPT ![w].waits = FALSE]
    /\ verdict' = [verdict EXCEPT ![Mine(w)] = v]

\* Mutant: any answer will do.
Answers_Any(w) == DOMAIN mail[w]

Answers(w) == {i \in DOMAIN mail[w] : mail[w][i].req = Mine(w)}

\* pollForPermissionResponse
Receive(w) ==
    /\ worker[w].waits /\ Answers(w) # {}
    /\ mail' = [mail EXCEPT ![w] = RemoveAt(@, Min(Answers(w)))]
    /\ End(w, mail[w][Min(Answers(w))].answer)
    /\ UNCHANGED <<team, inbox, polls, queue, lead, said, misfiled>>

\* The time limit; or the mark of the answer throws, and the call fails.
GiveUp(w) ==
    /\ worker[w].waits
    /\ End(w, "timeout")
    /\ UNCHANGED <<team, inbox, polls, queue, lead, mail, said, misfiled>>

\* dispatchInboxBatch, between two calls: a plain message marks the whole
\* mailbox, late answers with it.
Dispatch(w) ==
    /\ ~worker[w].waits /\ mail[w] # <<>>
    /\ mail' = [mail EXCEPT ![w] = <<>>]
    /\ UNCHANGED <<team, inbox, polls, queue, lead, worker, verdict, said, misfiled>>

----------------------------------------------------------------------------
(* Next.                                                                   *)

\* A poll under way goes on.
Advance(k) ==
    \/ RoutePlain(k) \/ RouteNotice(k) \/ MarkNotice(k) \/ RouteRequest(k)
    \/ Inject(k) \/ MarkBatch(k)

Next ==
    \/ \E t \in Teams : Send(t, "plain") \/ Send(t, "notice")
    \/ \E k \in Polls : StartPoll(k) \/ Advance(k) \/ FailPoll(k)
    \/ Turn \/ MarkItem \/ FailItem \/ CreateTeam
    \/ \E answer \in {"approved", "rejected"} : Answer(answer)
    \/ \E w \in Workers : Request(w) \/ Receive(w) \/ GiveUp(w) \/ Dispatch(w)

Spec == Init /\ [][Next]_vars

\* The timer ticks as long as the process lives, and a mark is not refused for
\* ever: file locks are held for the time of one write.
FairSpec == Spec /\ \A k \in Polls : /\ WF_vars(StartPoll(k)) /\ WF_vars(Advance(k))
                                     /\ SF_vars(MarkNotice(k)) /\ SF_vars(MarkBatch(k))

----------------------------------------------------------------------------
(* Properties.                                                             *)

\* Mailboxes, queues and polls have the shape their readers rely on, and an item
\* of the queue names the place of its request.
TypeOK ==
    /\ team \in Teams
    /\ \A t \in Teams : \A i \in DOMAIN inbox[t] : Entry(inbox[t][i])
    /\ \A k \in Polls : /\ polls[k].pc \in {"none", "route", "mark", "batch"}
                        /\ polls[k].team \in Teams
                        /\ polls[k].todo \cup polls[k].batch \subseteq DOMAIN inbox[polls[k].team]
    /\ \A i \in DOMAIN queue :
          /\ queue[i].index \in DOMAIN inbox[queue[i].team]
          /\ inbox[queue[i].team][queue[i].index].req = queue[i].req
    /\ lead.pc \in {"free", "ask", "mark"}
    /\ worker \in [Workers -> [n: 0..MaxRequests, waits: BOOLEAN]]
    /\ verdict \in [Requests -> {"none", "approved", "rejected", "timeout"}]

\* Requests that time out, are asked twice or are answered late: what a worker
\* takes for the answer to a request the user has said about that request.
OwnVerdict ==
    \A r \in Requests : verdict[r] \in {"approved", "rejected"} =>
        verdict[r] \in said[r]

\* Polls overlap, fail, and race with the lead's marks: nothing is marked as
\* read that was not taken, except where a mark went to another team.
ReadMeansTaken ==
    \A t \in Teams : \A i \in DOMAIN inbox[t] :
        inbox[t][i].read => inbox[t][i].taken \/ <<t, i>> \in misfiled

\* A message to the lead's team is taken, whatever polls fail.
EveryMessageTaken ==
    \A t \in Teams, i \in Places :
        LET Waiting == i \in DOMAIN inbox[t] /\ ~inbox[t][i].taken /\ team = t
                       /\ <<t, i>> \notin misfiled
        IN Waiting ~> ~Waiting

=============================================================================
