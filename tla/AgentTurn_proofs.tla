---------------------------- MODULE AgentTurn_proofs ----------------------------
(***************************************************************************)
(* Proofs about AgentTurn, for any number of agents, any limits and any     *)
(* number of tool calls in an answer: the budget's books, and the pairing   *)
(* of tool calls and results in the session.  Then proofs about Conversation, *)
(* which the turns of a session make up, for logs of any length, with any    *)
(* window and tail: what the log makes of its entries, what a turn has in   *)
(* memory of them, what compaction does to them, and the list of /tree.      *)
(***************************************************************************)
EXTENDS AgentTurn, Conversation, TLAPS, FiniteSetTheorems, SequenceTheorems, WellFoundedInduction

----------------------------------------------------------------------------
(* The inductive invariant.                                                *)

\* A list that n more results make one the protocol allows.
Wanting(msgs, n) ==
    /\ \A i \in DOMAIN msgs :
          /\ i + msgs[i].calls <= Len(msgs) + n
          /\ \A k \in 1..msgs[i].calls : i + k <= Len(msgs) => msgs[i + k].role = "tool"
          /\ msgs[i].role = "tool" => \E j \in 1..(i - 1) : i <= j + msgs[j].calls
    /\ n > 0 => \E j \in DOMAIN msgs : j + msgs[j].calls = Len(msgs) + n

\* A run between two messages.
Between(r) == r \in Run /\ Wanting(r.log, 0)

\* A run, wherever it stands: the log lacks the results of the calls that are still
\* to be made, and only the head of a turn can be behind the turn limit.
InTools(r) == r.pc \in {"tools", "tool"}
InTurn(r) == r.pc \notin {"idle", "head", "done"}

Sound(r) ==
    /\ r \in Run
    /\ Wanting(r.log, IF InTools(r) THEN r.calls ELSE 0)
    /\ r.pc = "tool" => r.calls > 0
    /\ InTurn(r) => r.turn < MaxTurn

\* What is settled was reserved.
BudgetFacts ==
    /\ usage.active <= usage.requests
    /\ usage.tokens + usage.reserved <= Tokens + (usage.requests - usage.active)
    /\ usage.tokens > Tokens => Aborted

IInv == TypeOK /\ BudgetFacts /\ \A a \in Agents : Sound(run[a])

----------------------------------------------------------------------------
(* Lists of messages.                                                      *)

LEMMA MessageTypes ==
    /\ User \in Message /\ User.role = "user" /\ User.calls = 0
    /\ ToolResult \in Message /\ ToolResult.role = "tool" /\ ToolResult.calls = 0
    /\ \A n \in Nat : Answer(n) \in Message /\ Answer(n).role = "assistant" /\ Answer(n).calls = n
BY DEF User, ToolResult, Answer, Message

\* The lists put together.
LEMMA ConcatFacts ==
    ASSUME NEW s \in Seq(Message), NEW t \in Seq(Message)
    PROVE  /\ s \o t \in Seq(Message) /\ Len(s \o t) = Len(s) + Len(t)
           /\ Len(s) \in Nat /\ Len(t) \in Nat
           /\ DOMAIN s = 1..Len(s) /\ DOMAIN t = 1..Len(t) /\ DOMAIN (s \o t) = 1..(Len(s) + Len(t))
           /\ \A i \in 1..Len(s) : (s \o t)[i] = s[i] /\ s[i].calls \in Nat
           /\ \A i \in 1..Len(t) : (s \o t)[Len(s) + i] = t[i] /\ t[i].calls \in Nat
<1>1. /\ s \o t \in Seq(Message) /\ Len(s \o t) = Len(s) + Len(t)
      /\ Len(s) \in Nat /\ Len(t) \in Nat
      /\ DOMAIN s = 1..Len(s) /\ DOMAIN t = 1..Len(t)
  OBVIOUS
<1>2. DOMAIN (s \o t) = 1..(Len(s) + Len(t))
  BY <1>1
<1>3. \A i \in 1..Len(s) : (s \o t)[i] = s[i]
  OBVIOUS
<1>4. \A i \in 1..Len(t) : (s \o t)[Len(s) + i] = t[i]
  OBVIOUS
<1>5. (\A i \in 1..Len(s) : s[i] \in Message) /\ (\A i \in 1..Len(t) : t[i] \in Message)
  OBVIOUS
<1>6. \A m \in Message : m.calls \in Nat
  BY DEF Message
<1> QED BY <1>1, <1>2, <1>3, <1>4, <1>5, <1>6

\* The same message, over and over.
LEMMA TimesFacts ==
    ASSUME NEW n \in Nat, NEW m \in Message
    PROVE  /\ Times(n, m) \in Seq(Message) /\ Len(Times(n, m)) = n
           /\ \A i \in 1..n : Times(n, m)[i] = m
BY DEF Times

\* A list of one message.
LEMMA OneFacts ==
    ASSUME NEW m \in Message
    PROVE  <<m>> \in Seq(Message) /\ Len(<<m>>) = 1 /\ <<m>>[1] = m
OBVIOUS

\* A message that is no result, behind a list that wants none.
LEMMA WantSaid ==
    ASSUME NEW s \in Seq(Message), Wanting(s, 0), NEW m \in Message, m.role # "tool"
    PROVE  Wanting(s \o <<m>>, m.calls)
<1> DEFINE t == s \o <<m>>
<1>1. /\ t \in Seq(Message) /\ Len(t) = Len(s) + 1 /\ Len(s) \in Nat
      /\ DOMAIN s = 1..Len(s) /\ DOMAIN t = 1..(Len(s) + 1)
      /\ \A i \in 1..Len(s) : t[i] = s[i] /\ s[i].calls \in Nat
      /\ t[Len(s) + 1] = m /\ m.calls \in Nat
  BY ConcatFacts, OneFacts DEF Message
<1> HIDE DEF t
<1>2. \A i \in 1..Len(s) :
         /\ i + s[i].calls <= Len(s)
         /\ \A k \in 1..s[i].calls : i + k <= Len(s) => s[i + k].role = "tool"
         /\ s[i].role = "tool" => \E j \in 1..(i - 1) : i <= j + s[j].calls
  BY <1>1 DEF Wanting
<1>3. ASSUME NEW i \in DOMAIN t
      PROVE  /\ i + t[i].calls <= Len(t) + m.calls
             /\ \A k \in 1..t[i].calls : i + k <= Len(t) => t[i + k].role = "tool"
             /\ t[i].role = "tool" => \E j \in 1..(i - 1) : i <= j + t[j].calls
  <2>1. CASE i = Len(s) + 1
    BY <1>1, <2>1
  <2>2. CASE i \in 1..Len(s)
    <3>1. t[i] = s[i] /\ s[i].calls \in Nat /\ i + s[i].calls <= Len(s)
      BY <1>1, <1>2, <2>2
    <3>2. i + t[i].calls <= Len(t) + m.calls
      BY <1>1, <3>1
    <3>3. ASSUME NEW k \in 1..t[i].calls PROVE t[i + k].role = "tool"
      <4>1. i + k \in 1..Len(s) /\ k \in 1..s[i].calls
        BY <1>1, <2>2, <3>1
      <4> QED BY <1>1, <1>2, <2>2, <4>1
    <3>4. t[i].role = "tool" => \E j \in 1..(i - 1) : i <= j + t[j].calls
      BY <1>1, <1>2, <2>2
    <3> QED BY <3>2, <3>3, <3>4
  <2> QED BY <1>1, <2>1, <2>2
<1>4. \E j \in DOMAIN t : j + t[j].calls = Len(t) + m.calls
  BY <1>1
<1> QED BY <1>3, <1>4 DEF Wanting, t

\* A result that is wanted.
LEMMA WantResult ==
    ASSUME NEW s \in Seq(Message), NEW n \in Nat, n > 0, Wanting(s, n),
           NEW m \in Message, m.role = "tool", m.calls = 0
    PROVE  Wanting(s \o <<m>>, n - 1)
<1> DEFINE t == s \o <<m>>
<1>1. /\ t \in Seq(Message) /\ Len(t) = Len(s) + 1 /\ Len(s) \in Nat
      /\ DOMAIN s = 1..Len(s) /\ DOMAIN t = 1..(Len(s) + 1)
      /\ \A i \in 1..Len(s) : t[i] = s[i] /\ s[i].calls \in Nat
      /\ t[Len(s) + 1] = m
  BY ConcatFacts, OneFacts
<1> HIDE DEF t
<1>2. \A i \in 1..Len(s) :
         /\ i + s[i].calls <= Len(s) + n
         /\ \A k \in 1..s[i].calls : i + k <= Len(s) => s[i + k].role = "tool"
         /\ s[i].role = "tool" => \E j \in 1..(i - 1) : i <= j + s[j].calls
  BY <1>1 DEF Wanting
<1>3. PICK j0 \in 1..Len(s) : j0 + s[j0].calls = Len(s) + n
  BY <1>1 DEF Wanting
<1>4. ASSUME NEW i \in DOMAIN t
      PROVE  /\ i + t[i].calls <= Len(t) + (n - 1)
             /\ \A k \in 1..t[i].calls : i + k <= Len(t) => t[i + k].role = "tool"
             /\ t[i].role = "tool" => \E j \in 1..(i - 1) : i <= j + t[j].calls
  <2>1. CASE i = Len(s) + 1
    <3>1. i <= j0 + t[j0].calls /\ j0 \in 1..(i - 1)
      BY <1>1, <1>3, <2>1
    <3> QED BY <1>1, <2>1, <3>1
  <2>2. CASE i \in 1..Len(s)
    <3>1. t[i] = s[i] /\ s[i].calls \in Nat /\ i + s[i].calls <= Len(s) + n
      BY <1>1, <1>2, <2>2
    <3>2. i + t[i].calls <= Len(t) + (n - 1)
      BY <1>1, <3>1
    <3>3. ASSUME NEW k \in 1..t[i].calls, i + k <= Len(t) PROVE t[i + k].role = "tool"
      <4>1. CASE i + k = Len(s) + 1
        BY <1>1, <4>1
      <4>2. CASE i + k # Len(s) + 1
        <5>1. Len(s) \in Nat /\ Len(t) = Len(s) + 1 /\ i \in Nat /\ k \in Nat /\ i > 0 /\ k > 0
          BY <1>1, <2>2, <3>1
        <5>2. i + k \in 1..Len(s)
          BY <3>3, <4>2, <5>1
        <5>3. k \in 1..s[i].calls
          BY <3>1
        <5> QED BY <1>1, <1>2, <2>2, <5>2, <5>3
      <4> QED BY <4>1, <4>2
    <3>4. t[i].role = "tool" => \E j \in 1..(i - 1) : i <= j + t[j].calls
      <4>1. \A j \in 1..(i - 1) : t[j] = s[j]
        BY <1>1, <2>2
      <4> QED BY <1>2, <2>2, <3>1, <4>1
    <3> QED BY <3>2, <3>3, <3>4
  <2> QED BY <1>1, <2>1, <2>2
<1>5. \E j \in DOMAIN t : j + t[j].calls = Len(t) + (n - 1)
  BY <1>1, <1>3
<1> QED BY <1>4, <1>5 DEF Wanting, t

\* All the results that are wanted, at once.
LEMMA WantResults ==
    ASSUME NEW s \in Seq(Message), NEW n \in Nat, Wanting(s, n)
    PROVE  Wanting(s \o Times(n, ToolResult), 0)
<1> DEFINE t == s \o Times(n, ToolResult)
<1>1. /\ t \in Seq(Message) /\ Len(t) = Len(s) + n /\ Len(s) \in Nat
      /\ DOMAIN s = 1..Len(s) /\ DOMAIN t = 1..(Len(s) + n)
      /\ \A i \in 1..Len(s) : t[i] = s[i] /\ s[i].calls \in Nat
      /\ \A i \in 1..n : t[Len(s) + i] = ToolResult
  <2> DEFINE u == Times(n, ToolResult)
  <2>1. u \in Seq(Message) /\ Len(u) = n /\ \A i \in 1..n : u[i] = ToolResult
    BY TimesFacts, MessageTypes
  <2> HIDE DEF u
  <2>2. /\ s \o u \in Seq(Message) /\ Len(s \o u) = Len(s) + n /\ Len(s) \in Nat
        /\ DOMAIN s = 1..Len(s) /\ DOMAIN (s \o u) = 1..(Len(s) + n)
        /\ \A i \in 1..Len(s) : (s \o u)[i] = s[i] /\ s[i].calls \in Nat
        /\ \A i \in 1..n : (s \o u)[Len(s) + i] = u[i]
    BY <2>1, ConcatFacts
  <2> QED BY <2>1, <2>2 DEF u
<1> HIDE DEF t
<1>2. \A i \in 1..Len(s) :
         /\ i + s[i].calls <= Len(s) + n
         /\ \A k \in 1..s[i].calls : i + k <= Len(s) => s[i + k].role = "tool"
         /\ s[i].role = "tool" => \E j \in 1..(i - 1) : i <= j + s[j].calls
  BY <1>1 DEF Wanting
<1>3. \A i \in (Len(s) + 1)..(Len(s) + n) : t[i] = ToolResult
  <2>1. \A i \in (Len(s) + 1)..(Len(s) + n) : i - Len(s) \in 1..n /\ i = Len(s) + (i - Len(s))
    BY <1>1
  <2> QED BY <1>1, <2>1
<1>4. ASSUME NEW i \in DOMAIN t
      PROVE  /\ i + t[i].calls <= Len(t) + 0
             /\ \A k \in 1..t[i].calls : i + k <= Len(t) => t[i + k].role = "tool"
             /\ t[i].role = "tool" => \E j \in 1..(i - 1) : i <= j + t[j].calls
  <2>1. CASE i \in (Len(s) + 1)..(Len(s) + n)
    <3>1. PICK j0 \in 1..Len(s) : j0 + s[j0].calls = Len(s) + n
      <4>1. n > 0
        BY <1>1, <2>1
      <4> QED BY <1>1, <4>1 DEF Wanting
    <3>2. i <= j0 + t[j0].calls /\ j0 \in 1..(i - 1)
      BY <1>1, <2>1, <3>1
    <3>3. t[i].calls = 0
      BY <1>3, <2>1, MessageTypes
    <3> QED BY <1>1, <3>2, <3>3
  <2>2. CASE i \in 1..Len(s)
    <3>1. t[i] = s[i] /\ s[i].calls \in Nat /\ i + s[i].calls <= Len(s) + n
      BY <1>1, <1>2, <2>2
    <3>2. i + t[i].calls <= Len(t) + 0
      BY <1>1, <3>1
    <3>3. ASSUME NEW k \in 1..t[i].calls, i + k <= Len(t) PROVE t[i + k].role = "tool"
      <4>1. CASE i + k > Len(s)
        <5>1. i + k \in (Len(s) + 1)..(Len(s) + n)
          BY <1>1, <2>2, <3>1, <3>3, <4>1
        <5> QED BY <1>3, <5>1, MessageTypes
      <4>2. CASE ~(i + k > Len(s))
        <5>1. i + k \in 1..Len(s) /\ k \in 1..s[i].calls
          BY <1>1, <2>2, <3>1, <3>3, <4>2
        <5> QED BY <1>1, <1>2, <2>2, <5>1
      <4> QED BY <4>1, <4>2
    <3>4. t[i].role = "tool" => \E j \in 1..(i - 1) : i <= j + t[j].calls
      BY <1>1, <1>2, <2>2
    <3> QED BY <3>2, <3>3, <3>4
  <2>3. i \in 1..Len(s) \/ i \in (Len(s) + 1)..(Len(s) + n)
    BY <1>1
  <2> QED BY <2>1, <2>2, <2>3
<1> QED BY <1>4 DEF Wanting, t

\* User messages, behind a list that wants no result.
LEMMA WantUsers ==
    ASSUME NEW s \in Seq(Message), NEW n \in Nat, Wanting(s, 0)
    PROVE  Wanting(s \o Times(n, User), 0)
<1> DEFINE t == s \o Times(n, User)
<1>1. /\ t \in Seq(Message) /\ Len(t) = Len(s) + n /\ Len(s) \in Nat
      /\ DOMAIN s = 1..Len(s) /\ DOMAIN t = 1..(Len(s) + n)
      /\ \A i \in 1..Len(s) : t[i] = s[i] /\ s[i].calls \in Nat
      /\ \A i \in 1..n : t[Len(s) + i] = User
  <2> DEFINE u == Times(n, User)
  <2>1. u \in Seq(Message) /\ Len(u) = n /\ \A i \in 1..n : u[i] = User
    BY TimesFacts, MessageTypes
  <2> HIDE DEF u
  <2>2. /\ s \o u \in Seq(Message) /\ Len(s \o u) = Len(s) + n /\ Len(s) \in Nat
        /\ DOMAIN s = 1..Len(s) /\ DOMAIN (s \o u) = 1..(Len(s) + n)
        /\ \A i \in 1..Len(s) : (s \o u)[i] = s[i] /\ s[i].calls \in Nat
        /\ \A i \in 1..n : (s \o u)[Len(s) + i] = u[i]
    BY <2>1, ConcatFacts
  <2> QED BY <2>1, <2>2 DEF u
<1> HIDE DEF t
<1>2. \A i \in 1..Len(s) :
         /\ i + s[i].calls <= Len(s)
         /\ \A k \in 1..s[i].calls : i + k <= Len(s) => s[i + k].role = "tool"
         /\ s[i].role = "tool" => \E j \in 1..(i - 1) : i <= j + s[j].calls
  <2> TAKE i \in 1..Len(s)
  <2>1. i \in DOMAIN s /\ Len(s) + 0 = Len(s)
    BY <1>1
  <2> QED BY <2>1 DEF Wanting
<1>3. \A i \in (Len(s) + 1)..(Len(s) + n) : t[i] = User
  <2>1. \A i \in (Len(s) + 1)..(Len(s) + n) : i - Len(s) \in 1..n /\ i = Len(s) + (i - Len(s))
    BY <1>1
  <2> QED BY <1>1, <2>1
<1>4. ASSUME NEW i \in DOMAIN t
      PROVE  /\ i + t[i].calls <= Len(t) + 0
             /\ \A k \in 1..t[i].calls : i + k <= Len(t) => t[i + k].role = "tool"
             /\ t[i].role = "tool" => \E j \in 1..(i - 1) : i <= j + t[j].calls
  <2>1. CASE i \in (Len(s) + 1)..(Len(s) + n)
    <3>1. t[i].calls = 0 /\ t[i].role # "tool"
      BY <1>3, <2>1, MessageTypes
    <3> QED BY <1>1, <2>1, <3>1
  <2>2. CASE i \in 1..Len(s)
    <3>1. t[i] = s[i] /\ s[i].calls \in Nat /\ i + s[i].calls <= Len(s)
      BY <1>1, <1>2, <2>2
    <3>2. i + t[i].calls <= Len(t) + 0
      BY <1>1, <3>1
    <3>3. ASSUME NEW k \in 1..t[i].calls PROVE t[i + k].role = "tool"
      <4>1. i + k \in 1..Len(s) /\ k \in 1..s[i].calls
        BY <1>1, <2>2, <3>1
      <4> QED BY <1>1, <1>2, <2>2, <4>1
    <3>4. t[i].role = "tool" => \E j \in 1..(i - 1) : i <= j + t[j].calls
      BY <1>1, <1>2, <2>2
    <3> QED BY <3>2, <3>3, <3>4
  <2>3. i \in 1..Len(s) \/ i \in (Len(s) + 1)..(Len(s) + n)
    BY <1>1
  <2> QED BY <2>1, <2>2, <2>3
<1> QED BY <1>4 DEF Wanting, t

\* The lists a run starts and continues with.
LEMMA WantFirst ==
    /\ Wanting(<<>>, 0) /\ <<>> \in Seq(Message)
    /\ Wanting(<<User>>, 0) /\ <<User>> \in Seq(Message)
<1>1. Len(<<User>>) = 1 /\ DOMAIN <<User>> = 1..1 /\ <<User>>[1] = User /\ <<User>> \in Seq(Message)
  BY MessageTypes
<1>2. Wanting(<<User>>, 0)
  BY <1>1, MessageTypes DEF Wanting
<1>3. Wanting(<<>>, 0)
  BY DEF Wanting
<1> QED BY <1>1, <1>2, <1>3

\* A list that wants no result is one the protocol allows.
LEMMA WantPaired ==
    ASSUME NEW s \in Seq(Message), Wanting(s, 0)
    PROVE  Paired(s)
<1>1. DOMAIN s = 1..Len(s) /\ Len(s) \in Nat /\ \A i \in 1..Len(s) : s[i] \in Message
  OBVIOUS
<1>2. \A i \in 1..Len(s) : s[i].calls \in Nat
  BY <1>1 DEF Message
<1> SUFFICES ASSUME NEW i \in 1..Len(s)
             PROVE  /\ \A k \in 1..s[i].calls : i + k \in DOMAIN s /\ s[i + k].role = "tool"
                    /\ s[i].role = "tool" => \E j \in 1..(i - 1) : i <= j + s[j].calls
  BY <1>1 DEF Paired
<1>3. /\ i + s[i].calls <= Len(s)
      /\ \A k \in 1..s[i].calls : i + k <= Len(s) => s[i + k].role = "tool"
      /\ s[i].role = "tool" => \E j \in 1..(i - 1) : i <= j + s[j].calls
  <2>1. i \in DOMAIN s /\ Len(s) + 0 = Len(s)
    BY <1>1
  <2> QED BY <2>1 DEF Wanting
<1> QED BY <1>1, <1>2, <1>3


----------------------------------------------------------------------------
(* Runs.                                                                   *)

\* The limits are numbers.
LEMMA Limits ==
    /\ MaxTurn \in Nat /\ MaxTurn > 0 /\ Requests \in Nat /\ Tools \in Nat /\ Tokens \in Nat
    /\ Reserve \in Nat /\ Concurrency \in Nat /\ Concurrency > 0
    /\ MaxRetries \in Nat /\ MaxContinuations \in Nat /\ MaxNotices \in Nat
    /\ IsFiniteSet(Agents) /\ Root \in Agents
BY LimitsAssumption

\* More messages for the model and the session.
LEMMA SaidAll ==
    ASSUME NEW r \in Run, NEW added \in Seq(Message)
    PROVE  /\ SayAll(r, added) \in Run /\ SayAll(r, added).log = r.log \o added
           /\ SayAll(r, added).pc = r.pc /\ SayAll(r, added).turn = r.turn
           /\ SayAll(r, added).calls = r.calls
<1>1. r.log \in Seq(Message) /\ r.msgs \in Seq(Message)
  BY DEF Run
<1>2. r.log \o added \in Seq(Message) /\ r.msgs \o added \in Seq(Message)
  BY <1>1
<1> QED BY <1>2 DEF SayAll, Run

\* A message without calls.
LEMMA Said ==
    ASSUME NEW r, Between(r), NEW m \in Message, m.role # "tool", m.calls = 0
    PROVE  Between(Say(r, m)) /\ Say(r, m).pc = r.pc /\ Say(r, m).turn = r.turn
<1>1. <<m>> \in Seq(Message) /\ r \in Run /\ Wanting(r.log, 0) /\ r.log \in Seq(Message)
  BY OneFacts DEF Between, Run
<1>2. Wanting(r.log \o <<m>>, 0)
  BY <1>1, WantSaid
<1> QED BY <1>1, <1>2, SaidAll DEF Say, Between

\* A message for the model only.
LEMMA Prompted ==
    ASSUME NEW r, Between(r), NEW m \in Message
    PROVE  Between(Prompt(r, m)) /\ Prompt(r, m).pc = r.pc /\ Prompt(r, m).turn = r.turn
           /\ Prompt(r, m).continued = r.continued
<1>1. r \in Run /\ Wanting(r.log, 0) /\ Append(r.msgs, m) \in Seq(Message)
  BY DEF Between, Run
<1>2. Prompt(r, m) \in Run /\ Prompt(r, m).log = r.log /\ Prompt(r, m).pc = r.pc
      /\ Prompt(r, m).turn = r.turn /\ Prompt(r, m).continued = r.continued
  BY <1>1 DEF Prompt, Run
<1> QED BY <1>1, <1>2 DEF Between

\* The end of a run.
LEMMA Finished ==
    ASSUME NEW r, Between(r), NEW status \in Statuses
    PROVE  Sound(Finish(r, status)) /\ Finish(r, status).pc = "done"
<1>1. r \in Run /\ Wanting(r.log, 0) /\ Append(r.ends, status) \in Seq(Statuses)
  BY DEF Between, Run
<1>2. Finish(r, status) \in Run /\ Finish(r, status).log = r.log /\ Finish(r, status).pc = "done"
  BY <1>1 DEF Finish, Run
<1> QED BY <1>1, <1>2 DEF Sound, InTools, InTurn

\* A run that fails between messages is over, and leaves a list that is paired.
LEMMA FailedEnds ==
    ASSUME NEW r, Between(r), NEW status \in Statuses
    PROVE  Sound(Failed(r, status)) /\ Failed(r, status).pc = "done"
<1>1. Between(Say(r, Answer(0)))
  BY Said, MessageTypes
<1> QED BY <1>1, Finished DEF Failed

\* Below the turn limit a run that is between messages goes on.
LEMMA NextTurnSound ==
    ASSUME NEW r, Between(r), r.turn < MaxTurn
    PROVE  Sound(NextTurn(r)) /\ NextTurn(r).pc = "head"
<1>1. r \in Run /\ Wanting(r.log, 0) /\ r.turn + 1 \in 0..MaxTurn /\ 0 \in 0..MaxRetries
  BY Limits DEF Between, Run
<1>2. NextTurn(r) \in Run /\ NextTurn(r).log = r.log /\ NextTurn(r).pc = "head"
  BY <1>1 DEF NextTurn, Run
<1> QED BY <1>1, <1>2 DEF Sound, InTools, InTurn

\* A run that goes on in its turn, with no calls to make.
LEMMA GoneOn ==
    ASSUME NEW r, Between(r), r.turn < MaxTurn,
           NEW pc \in {"compact", "split", "ask", "stop"} \cup Asked
    PROVE  Sound([r EXCEPT !.pc = pc]) /\ [r EXCEPT !.pc = pc].pc = pc
<1>1. r \in Run /\ Wanting(r.log, 0)
  BY DEF Between
<1> DEFINE s == [r EXCEPT !.pc = pc]
<1>2. s \in Run /\ s.log = r.log /\ s.pc = pc /\ s.turn = r.turn /\ pc \notin {"tools", "tool"}
  BY <1>1 DEF Run, Asked
<1> HIDE DEF s
<1>3. Sound(s) /\ s.pc = pc
  BY <1>1, <1>2 DEF Sound, InTools
<1> QED BY <1>3 DEF s

\* A run that is in none of its tool calls is between two messages.
LEMMA SoundBetween ==
    ASSUME NEW r, Sound(r), ~InTools(r)
    PROVE  Between(r) /\ (InTurn(r) => r.turn < MaxTurn)
BY DEF Sound, Between

\* A new run, and one that has not started.
LEMMA NewRunSound ==
    Sound(NewRun) /\ NewRun.pc = "head" /\ Sound(Idle) /\ Idle.pc = "idle"
<1>1. NewRun \in Run /\ NewRun.log = <<User>> /\ NewRun.pc = "head"
  BY WantFirst, Limits DEF NewRun, Run
<1>2. Idle \in Run /\ Idle.log = <<>> /\ Idle.pc = "idle"
  BY <1>1, WantFirst DEF Idle, Run
<1> QED BY <1>1, <1>2, WantFirst DEF Sound, InTools, InTurn

\* What compaction leaves.
LEMMA CompactedSound ==
    ASSUME NEW r, Between(r), r.turn < MaxTurn
    PROVE  Sound(CompactedRun(r)) /\ CompactedRun(r).pc \in {"ask", "head"}
<1> DEFINE c == [r EXCEPT !.msgs = <<User>>, !.log = <<User>>, !.reason = "auto"]
<1>1. r \in Run
  BY DEF Between
<1>2. c \in Run /\ c.log = <<User>> /\ c.turn = r.turn
  BY <1>1, WantFirst DEF Run
<1>3. CompactedRun(r) = IF r.reason = "auto" THEN [c EXCEPT !.pc = "ask"] ELSE NextTurn(c)
  BY DEF CompactedRun
<1> HIDE DEF c
<1>4. Between(c) /\ c.turn < MaxTurn
  BY <1>2, WantFirst DEF Between
<1>5. Sound([c EXCEPT !.pc = "ask"]) /\ [c EXCEPT !.pc = "ask"].pc = "ask"
  BY <1>4, GoneOn
<1>6. Sound(NextTurn(c)) /\ NextTurn(c).pc = "head"
  BY <1>4, NextTurnSound
<1> QED BY <1>3, <1>5, <1>6

\* What a failed compaction leaves.
LEMMA NotCompactedSound ==
    ASSUME NEW r, Between(r), r.turn < MaxTurn
    PROVE  Sound(NotCompacted(r)) /\ NotCompacted(r).pc \in {"ask", "done"}
<1>1. Sound([r EXCEPT !.pc = "ask"]) /\ [r EXCEPT !.pc = "ask"].pc = "ask"
  BY GoneOn
<1>2. Sound(Failed(r, "error")) /\ Failed(r, "error").pc = "done"
  BY FailedEnds DEF Statuses
<1>3. /\ Sound(Finish(r, "budget_exceeded")) /\ Finish(r, "budget_exceeded").pc = "done"
      /\ Sound(Finish(r, "cancelled")) /\ Finish(r, "cancelled").pc = "done"
  BY Finished DEF Statuses
<1> QED BY <1>1, <1>2, <1>3 DEF NotCompacted

\* The answer or failure of the model.
LEMMA OutcomesSound ==
    ASSUME NEW a \in Agents, NEW r, Sound(r), r.pc = "wait", NEW s \in Outcomes(a, r)
    PROVE  Sound(s) /\ s.pc \notin Asked
<1> USE DEF Asked
<1>1. Between(r) /\ r.turn < MaxTurn /\ r \in Run
  BY SoundBetween DEF InTools, InTurn, Between
<1>2. ASSUME NEW n \in Nat PROVE Sound(WithTools(r, n)) /\ WithTools(r, n).pc = "tools"
  <2> DEFINE b == Say(r, Answer(n))
  <2>1. Answer(n) \in Message /\ Answer(n).role # "tool" /\ Answer(n).calls = n
    BY MessageTypes
  <2>2. r.log \in Seq(Message) /\ Wanting(r.log, 0)
    BY <1>1 DEF Between, Run
  <2>3. Wanting(r.log \o <<Answer(n)>>, n)
    BY <2>1, <2>2, WantSaid
  <2>4. b \in Run /\ b.log = r.log \o <<Answer(n)>> /\ b.turn = r.turn
    BY <1>1, <2>1, SaidAll, OneFacts DEF Say
  <2>5. WithTools(r, n) = [b EXCEPT !.pc = "tools", !.calls = n]
    BY DEF WithTools
  <2> HIDE DEF b
  <2>6. WithTools(r, n) \in Run /\ WithTools(r, n).log = b.log /\ WithTools(r, n).pc = "tools"
        /\ WithTools(r, n).calls = n /\ WithTools(r, n).turn = b.turn
    BY <2>4, <2>5 DEF Run
  <2> QED BY <1>1, <2>3, <2>4, <2>6 DEF Sound, InTools
<1>3. Between(Say(r, Answer(0))) /\ Say(r, Answer(0)).turn < MaxTurn
  BY <1>1, Said, MessageTypes
<1>4. Sound(Final(a, r)) /\ Final(a, r).pc \in {"stop", "done"}
  <2>1. Sound([Say(r, Answer(0)) EXCEPT !.pc = "stop"]) /\ [Say(r, Answer(0)) EXCEPT !.pc = "stop"].pc = "stop"
    BY <1>3, GoneOn
  <2>2. Sound(Finish(Say(r, Answer(0)), "success")) /\ Finish(Say(r, Answer(0)), "success").pc = "done"
    BY <1>3, Finished DEF Statuses
  <2> QED BY <2>1, <2>2 DEF Final
<1>5. Sound(Empty(a, r)) /\ Empty(a, r).pc \in {"stop", "done"}
  <2>1. Sound([r EXCEPT !.pc = "stop"]) /\ [r EXCEPT !.pc = "stop"].pc = "stop"
    BY <1>1, GoneOn
  <2>2. Sound(Finish(r, "error")) /\ Finish(r, "error").pc = "done"
    BY <1>1, Finished DEF Statuses
  <2> QED BY <2>1, <2>2 DEF Empty
<1>6. ASSUME NEW n \in Nat PROVE Sound(Truncated(r, n)) /\ Truncated(r, n).pc \in {"head", "done"}
  <2> DEFINE partial == Prompt(r, Answer(n))
             b == Prompt(partial, User)
             c == [b EXCEPT !.continued = @ + 1]
             d == [r EXCEPT !.escalated = TRUE]
  <2>1. Between(partial) /\ partial.turn = r.turn /\ partial.continued = r.continued
    BY <1>1, Prompted, MessageTypes
  <2>2. Sound(Finish(partial, "error")) /\ Finish(partial, "error").pc = "done"
    BY <2>1, Finished DEF Statuses
  <2>3. Sound(NextTurn(d)) /\ NextTurn(d).pc = "head"
    <3>1. d \in Run /\ d.log = r.log /\ d.turn = r.turn
      BY <1>1 DEF Run
    <3> HIDE DEF d
    <3> QED BY <1>1, <3>1, NextTurnSound DEF Between
  <2>4. ASSUME r.continued < MaxContinuations PROVE Sound(NextTurn(c)) /\ NextTurn(c).pc = "head"
    <3>1. Between(b) /\ b.turn = r.turn /\ b.continued = r.continued
      <4> HIDE DEF partial
      <4> QED BY <2>1, Prompted, MessageTypes
    <3> HIDE DEF b
    <3>2. b \in Run /\ b.continued + 1 \in 0..MaxContinuations /\ Wanting(b.log, 0)
      BY <2>4, <3>1, Limits DEF Between, Run
    <3>3. c \in Run /\ c.log = b.log /\ c.turn = b.turn
      BY <3>2 DEF Run
    <3> HIDE DEF c
    <3> QED BY <1>1, <3>1, <3>2, <3>3, NextTurnSound DEF Between
  <2>5. Truncated(r, n) = NextTurn(d) \/ (r.continued < MaxContinuations /\ Truncated(r, n) = NextTurn(c))
        \/ Truncated(r, n) = Finish(partial, "error")
    <3>1. CASE ~r.escalated
      BY <3>1 DEF Truncated
    <3>2. CASE r.escalated /\ r.continued < MaxContinuations
      BY <3>2 DEF Truncated
    <3>3. CASE r.escalated /\ ~(r.continued < MaxContinuations)
      BY <3>3 DEF Truncated
    <3> QED BY <3>1, <3>2, <3>3
  <2> HIDE DEF partial, c, d
  <2> QED BY <2>2, <2>3, <2>4, <2>5
<1>7. Sound(Failed(r, "error")) /\ Failed(r, "error").pc = "done"
      /\ Sound(Failed(r, "timeout")) /\ Failed(r, "timeout").pc = "done"
  BY <1>1, FailedEnds DEF Statuses
<1>8. Sound(Overflown(r)) /\ Overflown(r).pc \in {"compact", "done"}
  <2> DEFINE b == [r EXCEPT !.compacted = TRUE, !.reason = "reactive", !.pc = "compact"]
  <2>1. b \in Run /\ b.log = r.log /\ b.turn = r.turn /\ b.pc = "compact"
    BY <1>1 DEF Run
  <2> HIDE DEF b
  <2>2. Sound(b)
    BY <1>1, <2>1 DEF Sound, Between, InTools
  <2> QED BY <1>7, <2>1, <2>2 DEF Overflown, b
<1>9. Sound(Transport(r)) /\ Transport(r).pc \in {"ask", "done"}
  <2> DEFINE b == [r EXCEPT !.pc = "ask", !.attempt = @ + 1]
  <2>1. ASSUME r.attempt < MaxRetries PROVE Sound(b) /\ b.pc = "ask"
    <3>1. r.attempt + 1 \in 0..MaxRetries
      BY <1>1, <2>1, Limits DEF Run
    <3>2. b \in Run /\ b.log = r.log /\ b.turn = r.turn /\ b.pc = "ask"
      BY <1>1, <3>1 DEF Run
    <3> HIDE DEF b
    <3> QED BY <1>1, <3>2 DEF Sound, Between, InTools
  <2> QED BY <1>7, <2>1 DEF Transport
<1>10. \/ \E n \in Nat : s = WithTools(r, n)
       \/ s = Final(a, r) \/ s = Empty(a, r)
       \/ \E n \in Nat : s = Truncated(r, n)
       \/ s = Overflown(r) \/ s = Transport(r)
       \/ s = Failed(r, "timeout") \/ s = Failed(r, "error")
  BY DEF Outcomes
<1> QED BY <1>2, <1>4, <1>5, <1>6, <1>7, <1>8, <1>9, <1>10


----------------------------------------------------------------------------
(* What the steps of a run do to it and to the budget.                     *)

Reasons == {"none", "user", "budget"}

Becomes(a) ==
    /\ run' = [run EXCEPT ![a] = run'[a]] /\ Sound(run'[a])
    /\ abort' \in Reasons /\ (Aborted => abort' = abort)
    /\ notices' \in Notices

\* No request starts or ends; a tool call may be charged.
Quiet(a) ==
    /\ run'[a].pc \in Asked <=> run[a].pc \in Asked
    /\ \/ UNCHANGED usage
       \/ usage.tools < Tools /\ usage' = [usage EXCEPT !.tools = @ + 1]

\* A request starts.
Reserves(a) ==
    /\ run[a].pc \notin Asked /\ run'[a].pc \in Asked
    /\ ~OverLimit /\ usage' = Reserved(usage) /\ UNCHANGED abort

\* A request ends.
Settles(a) ==
    /\ run[a].pc \in Asked /\ run'[a].pc \notin Asked
    /\ \E used \in 0..(Reserve + 1) : Settle(used)

\* A step changes the run of its agent only.
LEMMA BecomesRun ==
    ASSUME TypeOK, NEW a \in Agents, NEW s, Become(a, s)
    PROVE  run'[a] = s /\ run' = [run EXCEPT ![a] = run'[a]]
<1>1. run \in [Agents -> Run]
  BY DEF TypeOK
<1> QED BY <1>1 DEF Become

\* The budget is stopped once, for one reason.
LEMMA AbortTypes ==
    ASSUME TypeOK, NEW reason \in Reasons, AbortWith(reason)
    PROVE  abort' \in Reasons /\ (Aborted => abort' = abort) /\ (reason # "none" => abort' # "none")
BY DEF TypeOK, AbortWith, Aborted, Reasons

\* So it is by the settlement of a request.
LEMMA SettleAborts ==
    ASSUME TypeOK, NEW used \in 0..(Reserve + 1), Settle(used)
    PROVE  abort' \in Reasons /\ (Aborted => abort' = abort)
BY AbortTypes DEF TypeOK, Settle, AbortWith, Reasons

\* The head of a turn, its limit, and the Stop hooks.
LEMMA TurnEffect ==
    ASSUME IInv, NEW a \in Agents, StartTurn(a) \/ TurnLimit(a) \/ Stop(a) \/ ToolsDone(a) \/ Spawn(a)
    PROVE  Becomes(a) /\ Quiet(a)
<1> USE DEF Asked
<1>1. /\ TypeOK /\ run[a] \in Run /\ Sound(run[a]) /\ abort \in Reasons
      /\ notices \in Notices
  BY DEF IInv, Sound, TypeOK, Reasons
<1> DEFINE r == run[a]
<1>2. InterruptStatus \in Statuses
  BY DEF InterruptStatus, Statuses
<1>3. ASSUME NEW s, Become(a, s), Sound(s), s.pc \notin Asked, r.pc \notin Asked,
             UNCHANGED <<usage, abort>>,
             notices' \in Notices
      PROVE  Becomes(a) /\ Quiet(a)
  BY <1>1, <1>3, BecomesRun DEF Becomes, Quiet, Aborted
<1>4. CASE StartTurn(a)
  <2>1. r.pc = "head" /\ r.turn < MaxTurn /\ UNCHANGED <<usage, abort>>
    BY <1>4 DEF StartTurn
  <2>2. Between(r)
    BY <1>1, <2>1, SoundBetween DEF InTools
  <2>3. CASE Aborted
    <3>1. Become(a, Finish(r, InterruptStatus)) /\ UNCHANGED notices
      BY <1>4, <2>3 DEF StartTurn
    <3>2. Sound(Finish(r, InterruptStatus)) /\ Finish(r, InterruptStatus).pc = "done"
      BY <1>2, <2>2, Finished
    <3> HIDE DEF r
    <3> QED BY <1>1, <1>3, <2>1, <3>1, <3>2
  <2>4. CASE ~Aborted
    <3> DEFINE told == IF a = Root THEN notices.pending ELSE 0
               b == SayAll(r, Times(told, User))
    <3>1. Become(a, [b EXCEPT !.pc = "compact"])
          /\ notices' = [notices EXCEPT !.pending = @ - told]
      BY <1>4, <2>4 DEF StartTurn
    <3>2. told \in Nat /\ notices.pending - told \in 0..notices.pending
      BY <1>1, Limits DEF Notices
    <3> HIDE DEF told
    <3>3. notices' \in Notices
      BY <1>1, <3>1, <3>2, Limits DEF Notices
    <3>4. Between(b) /\ b.turn = r.turn
      <4>1. Times(told, User) \in Seq(Message)
        BY <3>2, TimesFacts, MessageTypes
      <4>2. r.log \in Seq(Message) /\ Wanting(r.log, 0) /\ r \in Run
        BY <2>2 DEF Between, Run
      <4>3. b \in Run /\ b.log = r.log \o Times(told, User) /\ b.turn = r.turn
        BY <4>1, <4>2, SaidAll
      <4>4. Wanting(r.log \o Times(told, User), 0)
        BY <3>2, <4>2, WantUsers
      <4> QED BY <4>3, <4>4 DEF Between
    <3> HIDE DEF b
    <3>5. Sound([b EXCEPT !.pc = "compact"]) /\ [b EXCEPT !.pc = "compact"].pc = "compact"
      BY <2>1, <3>4, GoneOn
    <3> HIDE DEF r
    <3> QED BY <1>3, <2>1, <3>1, <3>3, <3>5
  <2> QED BY <2>3, <2>4
<1>5. CASE TurnLimit(a)
  <2>1. r.pc = "head" /\ UNCHANGED <<usage, abort, notices>>
    BY <1>5 DEF TurnLimit
  <2> DEFINE b == IF a = Root THEN Say(r, Answer(0)) ELSE r
  <2>2. Become(a, Finish(b, "budget_exceeded"))
    BY <1>5 DEF TurnLimit
  <2>3. Between(b)
    <3>1. Between(r)
      BY <1>1, <2>1, SoundBetween DEF InTools
    <3> HIDE DEF r
    <3> QED BY <3>1, Said, MessageTypes
  <2> HIDE DEF b
  <2>4. Sound(Finish(b, "budget_exceeded")) /\ Finish(b, "budget_exceeded").pc = "done"
    BY <2>3, Finished DEF Statuses
  <2> HIDE DEF r
  <2> QED BY <1>1, <1>3, <2>1, <2>2, <2>4
<1>6. CASE Stop(a)
  <2>1. r.pc = "stop" /\ UNCHANGED <<usage, abort, notices>>
    BY <1>6 DEF Stop
  <2>2. Between(r) /\ r.turn < MaxTurn
    BY <1>1, <2>1, SoundBetween DEF InTools, InTurn
  <2>3. \/ Become(a, Finish(r, InterruptStatus)) \/ Become(a, Finish(r, "success"))
        \/ Become(a, NextTurn(Say(r, User)))
    BY <1>6 DEF Stop
  <2> HIDE DEF r
  <2>4. /\ Sound(Finish(r, InterruptStatus)) /\ Finish(r, InterruptStatus).pc = "done"
        /\ Sound(Finish(r, "success")) /\ Finish(r, "success").pc = "done"
    BY <1>2, <2>2, Finished DEF Statuses
  <2>5. Between(Say(r, User)) /\ Say(r, User).turn = r.turn
    BY <2>2, Said, MessageTypes
  <2>6. Sound(NextTurn(Say(r, User))) /\ NextTurn(Say(r, User)).pc = "head"
    BY <2>2, <2>5, NextTurnSound
  <2> QED BY <1>1, <1>3, <2>1, <2>3, <2>4, <2>6
<1>7. CASE ToolsDone(a)
  <2>1. /\ r.pc = "tools" /\ r.calls = 0 /\ UNCHANGED <<usage, abort, notices>>
        /\ Become(a, NextTurn(r))
    BY <1>7 DEF ToolsDone
  <2>2. Between(r) /\ r.turn < MaxTurn
    BY <1>1, <2>1 DEF Sound, InTools, InTurn, Between
  <2> HIDE DEF r
  <2> QED BY <1>1, <1>3, <2>1, <2>2, NextTurnSound
<1>8. CASE Spawn(a)
  <2>1. r.pc = "idle" /\ UNCHANGED <<usage, abort, notices>> /\ Become(a, NewRun)
    BY <1>8 DEF Spawn
  <2> HIDE DEF r
  <2> QED BY <1>1, <1>3, <2>1, NewRunSound
<1> QED BY <1>4, <1>5, <1>6, <1>7, <1>8

\* Tool calls.
LEMMA ToolEffect ==
    ASSUME IInv, NEW a \in Agents, StartTool(a) \/ EndTool(a)
    PROVE  Becomes(a) /\ Quiet(a)
<1> USE DEF Asked
<1>1. /\ TypeOK /\ run[a] \in Run /\ Sound(run[a]) /\ abort \in Reasons
      /\ notices \in Notices
  BY DEF IInv, Sound, TypeOK, Reasons
<1> DEFINE r == run[a]
           Back(s) == [s EXCEPT !.calls = @ - 1]
           Done(s) == [s EXCEPT !.pc = "tools", !.calls = @ - 1]
<1>2. r \in Run /\ r.log \in Seq(Message) /\ r.calls \in Nat
  BY <1>1 DEF Run
<1>3. r.pc \in {"tools", "tool"} /\ r.calls > 0 /\ Wanting(r.log, r.calls) /\ r.turn < MaxTurn
      /\ UNCHANGED notices
  BY <1>1 DEF StartTool, EndTool, Sound, InTools, InTurn
<1>4. InterruptStatus \in Statuses
  BY DEF InterruptStatus, Statuses
<1>5. ASSUME NEW s, Become(a, s), Sound(s), s.pc \notin Asked,
             abort' \in Reasons, Aborted => abort' = abort,
             UNCHANGED usage \/ (usage.tools < Tools /\ usage' = [usage EXCEPT !.tools = @ + 1])
      PROVE  Becomes(a) /\ Quiet(a)
  BY <1>1, <1>3, <1>5, BecomesRun DEF Becomes, Quiet
<1> HIDE DEF r
\* One result.
<1> DEFINE b == Say(r, ToolResult)
<1>6. /\ b \in Run /\ b.log = r.log \o <<ToolResult>> /\ b.calls = r.calls /\ b.pc = r.pc
      /\ b.turn = r.turn
  BY <1>2, SaidAll, OneFacts, MessageTypes DEF Say
<1>7. Wanting(b.log, r.calls - 1)
  <2>1. Wanting(r.log \o <<ToolResult>>, r.calls - 1)
    BY <1>2, <1>3, WantResult, MessageTypes
  <2> QED BY <1>6, <2>1
<1> HIDE DEF b
<1>8. Sound(Done(b)) /\ Done(b).pc = "tools"
  <2> DEFINE c == Done(b)
  <2>1. c \in Run /\ c.log = b.log /\ c.calls = r.calls - 1 /\ c.pc = "tools" /\ c.turn = r.turn
    <3>1. b \in Run /\ b.calls - 1 \in Nat
      BY <1>2, <1>3, <1>6
    <3>2. c \in Run /\ c.log = b.log /\ c.calls = b.calls - 1 /\ c.pc = "tools" /\ c.turn = b.turn
      BY <3>1 DEF Run
    <3> QED BY <1>6, <3>2
  <2> HIDE DEF c
  <2>2. Sound(c) /\ c.pc = "tools"
    BY <1>3, <1>7, <2>1 DEF Sound, InTools
  <2> QED BY <2>2 DEF c
<1>9. ASSUME r.pc = "tools" PROVE Sound(Back(b)) /\ Back(b).pc = "tools"
  <2> DEFINE c == Back(b)
  <2>1. c \in Run /\ c.log = b.log /\ c.calls = r.calls - 1 /\ c.pc = "tools" /\ c.turn = r.turn
    <3>1. b \in Run /\ b.calls - 1 \in Nat
      BY <1>2, <1>3, <1>6
    <3>2. c \in Run /\ c.log = b.log /\ c.calls = b.calls - 1 /\ c.pc = "tools" /\ c.turn = b.turn
      BY <3>1, <1>6, <1>9 DEF Run
    <3> QED BY <1>6, <3>2
  <2> HIDE DEF c
  <2>2. Sound(c) /\ c.pc = "tools"
    BY <1>3, <1>7, <2>1 DEF Sound, InTools
  <2> QED BY <2>2 DEF c
\* The results of all the calls that are left.
<1>10. Sound(CancelRest(r, InterruptStatus)) /\ CancelRest(r, InterruptStatus).pc = "done"
  <2> DEFINE u == Times(r.calls, ToolResult)
             c == SayAll(r, u)
             d == [c EXCEPT !.calls = 0]
  <2>1. Wanting(r.log \o u, 0) /\ u \in Seq(Message)
    BY <1>2, <1>3, WantResults, TimesFacts, MessageTypes
  <2> HIDE DEF u
  <2>2. c \in Run /\ c.log = r.log \o u
    BY <1>2, <2>1, SaidAll
  <2> HIDE DEF c
  <2>3. d \in Run /\ d.log = c.log
    BY <2>2 DEF Run
  <2> HIDE DEF d
  <2>4. Between(d)
    BY <2>1, <2>2, <2>3 DEF Between
  <2>5. CancelRest(r, InterruptStatus) = Finish(d, InterruptStatus)
    BY DEF CancelRest, d, c, u
  <2> QED BY <1>4, <2>4, <2>5, Finished
<1>11. CASE StartTool(a)
  <2>1. r.pc = "tools"
    BY <1>11 DEF StartTool, r
  <2>2. CASE Aborted
    <3>1. Become(a, CancelRest(r, InterruptStatus)) /\ UNCHANGED <<usage, abort>>
      BY <1>11, <2>2 DEF StartTool, r
    <3> QED BY <1>1, <1>5, <1>10, <3>1
  <2>3. CASE ~Aborted /\ usage.tools >= Tools
    <3>1. Become(a, Back(b)) /\ UNCHANGED usage /\ AbortWith("budget")
      BY <1>11, <2>3 DEF StartTool, r, b
    <3>2. abort' \in Reasons /\ (Aborted => abort' = abort)
      BY <1>1, <3>1, AbortTypes DEF Reasons
    <3> QED BY <1>5, <1>9, <2>1, <3>1, <3>2
  <2>4. CASE ~Aborted /\ ~(usage.tools >= Tools)
    <3>1. \/ /\ Become(a, [r EXCEPT !.pc = "tool"])
             /\ usage' = [usage EXCEPT !.tools = @ + 1] /\ UNCHANGED abort
          \/ Become(a, Back(b)) /\ UNCHANGED <<usage, abort>>
      BY <1>11, <2>4 DEF StartTool, r, b
    <3> DEFINE c == [r EXCEPT !.pc = "tool"]
    <3>2. c \in Run /\ c.log = r.log /\ c.calls = r.calls /\ c.pc = "tool" /\ c.turn = r.turn
      BY <1>2 DEF Run
    <3> HIDE DEF c
    <3>3. Sound(c)
      BY <1>3, <3>2 DEF Sound, InTools
    <3>4. usage.tools < Tools
      BY <1>1, <2>4, Limits DEF TypeOK, Usage
    <3>5. \/ Become(a, c) /\ usage' = [usage EXCEPT !.tools = @ + 1] /\ UNCHANGED abort
          \/ Become(a, Back(b)) /\ UNCHANGED <<usage, abort>>
      BY <3>1 DEF c
    <3> QED BY <1>1, <1>5, <1>9, <2>1, <3>2, <3>3, <3>4, <3>5
  <2> QED BY <2>2, <2>3, <2>4
<1>12. CASE EndTool(a)
  <2>1. Become(a, Done(b)) /\ UNCHANGED <<usage, abort>>
    BY <1>12 DEF EndTool, r, b
  <2> QED BY <1>1, <1>5, <1>8, <2>1
<1> QED BY <1>11, <1>12


\* Requests to the model.
LEMMA RequestEffect ==
    ASSUME IInv, NEW a \in Agents,
           NoSummary(a) \/ AskSummary(a) \/ EndSummary(a) \/ Ask(a) \/ Respond(a)
    PROVE  Becomes(a) /\ (Quiet(a) \/ Reserves(a) \/ Settles(a))
<1> USE DEF Asked
<1>1. /\ TypeOK /\ run[a] \in Run /\ Sound(run[a]) /\ abort \in Reasons
      /\ notices \in Notices
  BY DEF IInv, Sound, TypeOK, Reasons
<1> DEFINE r == run[a]
<1>2. UNCHANGED notices /\ r.pc \in {"compact", "split", "summary", "splitSummary", "ask", "wait"}
  BY DEF NoSummary, AskSummary, EndSummary, Ask, Respond
<1>3. Between(r) /\ r.turn < MaxTurn
  BY <1>1, <1>2, SoundBetween DEF InTools, InTurn
<1> DEFINE To(pc) == [r EXCEPT !.pc = pc]
<1>4. ASSUME NEW pc \in {"summary", "splitSummary", "wait", "split"}
      PROVE  Sound(To(pc)) /\ To(pc).pc = pc
  <2> HIDE DEF r
  <2> QED BY <1>3, GoneOn
<1>5. ASSUME NEW status \in Statuses
      PROVE  Sound(Finish(r, status)) /\ Finish(r, status).pc = "done"
  BY <1>3, Finished
<1>6. Sound(CompactedRun(r)) /\ CompactedRun(r).pc \in {"ask", "head"}
  BY <1>3, CompactedSound
<1>7. Sound(NotCompacted(r)) /\ NotCompacted(r).pc \in {"ask", "done"}
  BY <1>3, NotCompactedSound
<1>8. ASSUME NEW s, Become(a, s), Sound(s), abort' \in Reasons, Aborted => abort' = abort
      PROVE  Becomes(a) /\ run'[a] = s
  BY <1>1, <1>2, <1>8, BecomesRun DEF Becomes
<1>9. CASE NoSummary(a)
  <2>1. /\ r.pc = "compact" /\ UNCHANGED <<usage, abort>>
        /\ Become(a, NotCompacted(r)) \/ Become(a, CompactedRun(r))
    BY <1>9 DEF NoSummary
  <2>2. Becomes(a) /\ run'[a].pc \in {"ask", "done", "head"}
    BY <1>1, <1>6, <1>7, <1>8, <2>1
  <2> QED BY <2>1, <2>2 DEF Quiet
<1>10. CASE AskSummary(a)
  <2>1. r.pc \in {"compact", "split"}
    BY <1>10 DEF AskSummary
  <2>2. CASE Aborted \/ OverLimit
    <3>1. AbortWith("budget") /\ Become(a, NotCompacted(r)) /\ UNCHANGED usage
      BY <1>10, <2>2 DEF AskSummary
    <3>2. abort' \in Reasons /\ (Aborted => abort' = abort)
      BY <1>1, <3>1, AbortTypes DEF Reasons
    <3>3. Becomes(a) /\ run'[a].pc \in {"ask", "done"}
      BY <1>7, <1>8, <3>1, <3>2
    <3> QED BY <2>1, <3>1, <3>3 DEF Quiet
  <2>3. CASE ~(Aborted \/ OverLimit)
    <3> DEFINE next == IF r.pc = "compact" THEN "summary" ELSE "splitSummary"
    <3>1. Become(a, To(next)) /\ usage' = Reserved(usage) /\ UNCHANGED abort
      BY <1>10, <2>3 DEF AskSummary
    <3>2. next \in {"summary", "splitSummary"}
      OBVIOUS
    <3> HIDE DEF next, To
    <3>3. Becomes(a) /\ run'[a].pc \in {"summary", "splitSummary"}
      BY <1>1, <1>4, <1>8, <3>1, <3>2
    <3> QED BY <2>1, <2>3, <3>1, <3>3 DEF Reserves
  <2> QED BY <2>2, <2>3
<1>11. CASE EndSummary(a)
  <2>1. r.pc \in {"summary", "splitSummary"}
    BY <1>11 DEF EndSummary
  <2>2. PICK used \in 0..(Reserve + 1) : Settle(used)
    BY <1>11 DEF EndSummary
  <2>3. abort' \in Reasons /\ (Aborted => abort' = abort)
    BY <1>1, <2>2, SettleAborts
  <2>4. Become(a, NotCompacted(r)) \/ Become(a, CompactedRun(r)) \/ Become(a, To("split"))
    BY <1>11 DEF EndSummary
  <2> HIDE DEF To
  <2>5. Becomes(a) /\ run'[a].pc \in {"ask", "done", "head", "split"}
    BY <1>4, <1>6, <1>7, <1>8, <2>3, <2>4
  <2> QED BY <2>1, <2>2, <2>5 DEF Settles
<1>12. CASE Ask(a)
  <2>1. r.pc = "ask"
    BY <1>12 DEF Ask
  <2>2. CASE Aborted \/ OverLimit
    <3> DEFINE status == IF abort = "user" THEN "cancelled" ELSE "budget_exceeded"
    <3>1. AbortWith("budget") /\ Become(a, Finish(r, status)) /\ UNCHANGED usage
      BY <1>12, <2>2 DEF Ask
    <3>2. abort' \in Reasons /\ (Aborted => abort' = abort)
      BY <1>1, <3>1, AbortTypes DEF Reasons
    <3>3. status \in Statuses
      BY DEF Statuses
    <3> HIDE DEF status
    <3>4. Becomes(a) /\ run'[a].pc = "done"
      BY <1>5, <1>8, <3>1, <3>2, <3>3
    <3> QED BY <2>1, <3>1, <3>4 DEF Quiet
  <2>3. CASE ~(Aborted \/ OverLimit)
    <3>1. Become(a, To("wait")) /\ usage' = Reserved(usage) /\ UNCHANGED abort
      BY <1>12, <2>3 DEF Ask
    <3> HIDE DEF To
    <3>2. Becomes(a) /\ run'[a].pc = "wait"
      BY <1>1, <1>4, <1>8, <3>1
    <3> QED BY <2>1, <2>3, <3>1, <3>2 DEF Reserves
  <2> QED BY <2>2, <2>3
<1>13. CASE Respond(a)
  <2>1. r.pc = "wait"
    BY <1>13 DEF Respond
  <2>2. PICK used \in 0..(Reserve + 1) : Settle(used)
    BY <1>13 DEF Respond
  <2>3. abort' \in Reasons /\ (Aborted => abort' = abort)
    BY <1>1, <2>2, SettleAborts
  <2> DEFINE status == IF abort' = "budget" THEN "budget_exceeded" ELSE "cancelled"
  <2>4. Become(a, Finish(r, status)) \/ \E s \in Outcomes(a, r) : Become(a, s)
    BY <1>13 DEF Respond
  <2>5. status \in Statuses
    BY DEF Statuses
  <2> HIDE DEF status
  <2>6. \A s \in Outcomes(a, r) : Sound(s) /\ s.pc \notin Asked
    BY <1>1, <2>1, OutcomesSound
  <2>7. Becomes(a) /\ run'[a].pc \notin Asked
    BY <1>5, <1>8, <2>3, <2>4, <2>5, <2>6
  <2> QED BY <2>1, <2>2, <2>7 DEF Settles
<1> QED BY <1>9, <1>10, <1>11, <1>12, <1>13

----------------------------------------------------------------------------
(* The books.                                                              *)

\* The requests under way, after a step of one run.
LEMMA WaitingNext ==
    ASSUME TypeOK, NEW a \in Agents, Becomes(a)
    PROVE  /\ Cardinality(Waiting) \in Nat
           /\ (run'[a].pc \in Asked <=> run[a].pc \in Asked) => Waiting' = Waiting
           /\ run[a].pc \notin Asked /\ run'[a].pc \in Asked =>
                 Cardinality(Waiting') = Cardinality(Waiting) + 1
           /\ run[a].pc \in Asked /\ run'[a].pc \notin Asked =>
                 Cardinality(Waiting') = Cardinality(Waiting) - 1 /\ Cardinality(Waiting) >= 1
<1>1. run \in [Agents -> Run] /\ run' = [run EXCEPT ![a] = run'[a]]
  BY DEF TypeOK, Becomes
<1>2. \A b \in Agents : b # a => run'[b] = run[b]
  BY <1>1
<1>3. IsFiniteSet(Waiting) /\ Waiting \subseteq Agents
  BY Limits, FS_Subset DEF Waiting
<1>4. Cardinality(Waiting) \in Nat
  BY <1>3, FS_CardinalityType
<1>5. (run'[a].pc \in Asked <=> run[a].pc \in Asked) => Waiting' = Waiting
  BY <1>2 DEF Waiting
<1>6. ASSUME run[a].pc \notin Asked, run'[a].pc \in Asked
      PROVE  Cardinality(Waiting') = Cardinality(Waiting) + 1
  <2>1. Waiting' = Waiting \cup {a} /\ a \notin Waiting
    BY <1>2, <1>6 DEF Waiting
  <2> QED BY <1>3, <2>1, FS_AddElement
<1>7. ASSUME run[a].pc \in Asked, run'[a].pc \notin Asked
      PROVE  Cardinality(Waiting') = Cardinality(Waiting) - 1 /\ Cardinality(Waiting) >= 1
  <2>1. Waiting' = Waiting \ {a} /\ a \in Waiting
    BY <1>2, <1>7 DEF Waiting
  <2>2. Cardinality(Waiting') = Cardinality(Waiting) - 1
    BY <1>3, <2>1, FS_RemoveElement
  <2>3. Cardinality(Waiting) # 0
    BY <1>3, <2>1, FS_EmptySet
  <2> QED BY <1>4, <2>2, <2>3
<1> QED BY <1>4, <1>5, <1>6, <1>7


\* A request reserves its share.
LEMMA ReserveBooks ==
    ASSUME NEW u \in Usage, u.requests < Requests, u.active < Concurrency,
           u.reserved = Reserve * u.active
    PROVE  /\ Reserved(u) \in Usage
           /\ Reserved(u).active = u.active + 1 /\ Reserved(u).requests = u.requests + 1
           /\ Reserved(u).tokens = u.tokens /\ Reserved(u).reserved = u.reserved + Reserve
           /\ Reserved(u).reserved = Reserve * Reserved(u).active
<1>1. /\ u.requests + 1 \in 0..Requests /\ u.active + 1 \in Nat /\ u.reserved + Reserve \in Nat
      /\ u.active \in Nat
  BY Limits DEF Usage
<1>2. Reserve * (u.active + 1) = Reserve * u.active + Reserve
  BY <1>1, Limits
<1> QED BY <1>1, <1>2 DEF Reserved, Usage

\* A request that has ended is charged, and its share is free again.
LEMMA SettleBooks ==
    ASSUME NEW u \in Usage, u.active >= 1, u.reserved = Reserve * u.active,
           NEW used \in 0..(Reserve + 1)
    PROVE  /\ Settled(u, used) \in Usage
           /\ Settled(u, used).active = u.active - 1 /\ Settled(u, used).requests = u.requests
           /\ Settled(u, used).reserved = u.reserved - Reserve
           /\ Settled(u, used).tokens <= u.tokens + Reserve + 1
           /\ Settled(u, used).reserved = Reserve * Settled(u, used).active
<1> DEFINE charge == IF used = 0 THEN Reserve ELSE used
<1>1. charge \in Nat /\ charge <= Reserve + 1 /\ u.active \in Nat /\ u.tokens \in Nat
  BY Limits DEF Usage
<1>2. Reserve * (u.active - 1) = Reserve * u.active - Reserve
  BY <1>1, Limits
<1>3. Reserve * (u.active - 1) \in Nat
  <2>1. u.active - 1 \in Nat
    BY <1>1
  <2> QED BY <2>1, Limits
<1>4. Settled(u, used) = [u EXCEPT !.active = u.active - 1, !.reserved = u.reserved - Reserve,
                                   !.tokens = u.tokens + charge]
  BY DEF Settled
<1> HIDE DEF charge
<1>5. u.active - 1 \in Nat /\ u.reserved - Reserve \in Nat /\ u.tokens + charge \in Nat
  BY <1>1, <1>2, <1>3
<1>6. /\ Settled(u, used) \in Usage
      /\ Settled(u, used).active = u.active - 1 /\ Settled(u, used).requests = u.requests
      /\ Settled(u, used).reserved = u.reserved - Reserve
      /\ Settled(u, used).tokens = u.tokens + charge
  BY <1>4, <1>5 DEF Usage
<1> QED BY <1>1, <1>2, <1>6, Limits

Books ==
    /\ usage \in Usage
    /\ usage.active = Cardinality(Waiting) /\ usage.active <= Concurrency
    /\ usage.reserved = Reserve * usage.active

\* Every step keeps the books of the budget.
LEMMA BooksNext ==
    ASSUME IInv, NEW a \in Agents, Becomes(a), Quiet(a) \/ Reserves(a) \/ Settles(a)
    PROVE  Books' /\ BudgetFacts'
<1>1. TypeOK /\ Books /\ BudgetFacts /\ abort \in Reasons
  BY DEF IInv, TypeOK, Books, Reasons
<1>2. /\ usage \in Usage /\ usage.active \in Nat /\ usage.requests \in 0..Requests
      /\ usage.tools \in 0..Tools /\ usage.tokens \in Nat /\ usage.reserved \in Nat
  BY <1>1 DEF Books, Usage
<1>3. Aborted => Aborted'
  BY DEF Becomes, Aborted
<1>4. CASE Quiet(a)
  <2>1. Waiting' = Waiting
    BY <1>1, <1>4, WaitingNext DEF Quiet
  <2>2. /\ usage' \in Usage /\ usage'.active = usage.active /\ usage'.requests = usage.requests
        /\ usage'.tokens = usage.tokens /\ usage'.reserved = usage.reserved
    <3>1. CASE UNCHANGED usage
      BY <1>1, <3>1 DEF Books
    <3>2. CASE usage.tools < Tools /\ usage' = [usage EXCEPT !.tools = @ + 1]
      <4>1. usage.tools + 1 \in 0..Tools
        BY <1>2, <3>2, Limits
      <4> QED BY <1>2, <3>2, <4>1 DEF Usage
    <3> QED BY <1>4, <3>1, <3>2 DEF Quiet
  <2> QED BY <1>1, <1>3, <2>1, <2>2 DEF Books, BudgetFacts
<1>5. CASE Reserves(a)
  <2>1. Cardinality(Waiting') = Cardinality(Waiting) + 1
    BY <1>1, <1>5, WaitingNext DEF Reserves
  <2>2. /\ usage.requests < Requests /\ usage.active < Concurrency
        /\ usage.tokens + usage.reserved + Reserve <= Tokens
    BY <1>2, <1>5, Limits DEF Reserves, OverLimit
  <2>3. /\ usage' \in Usage /\ usage'.active = usage.active + 1
        /\ usage'.requests = usage.requests + 1
        /\ usage'.tokens = usage.tokens /\ usage'.reserved = usage.reserved + Reserve
        /\ usage'.reserved = Reserve * usage'.active
    BY <1>1, <1>2, <1>5, <2>2, ReserveBooks DEF Reserves, Books
  <2>4. usage'.active = Cardinality(Waiting') /\ usage'.active <= Concurrency
    BY <1>1, <1>2, <2>1, <2>2, <2>3, Limits DEF Books
  <2>5. Books'
    BY <2>3, <2>4 DEF Books
  <2>6. usage'.active <= usage'.requests
    BY <1>1, <1>2, <2>3 DEF BudgetFacts
  <2>7. usage'.tokens + usage'.reserved <= Tokens
    BY <1>2, <2>2, <2>3, Limits
  <2>8. usage'.tokens + usage'.reserved <= Tokens + (usage'.requests - usage'.active)
    BY <1>1, <1>2, <2>3, <2>6, <2>7, Limits
  <2>9. usage'.tokens <= Tokens
    BY <1>2, <2>3, <2>7, Limits
  <2>10. ~(usage'.tokens > Tokens)
    BY <1>2, <2>3, <2>9, Limits
  <2> QED BY <2>5, <2>6, <2>8, <2>10 DEF BudgetFacts
<1>6. CASE Settles(a)
  <2>1. Cardinality(Waiting') = Cardinality(Waiting) - 1 /\ Cardinality(Waiting) >= 1
    BY <1>1, <1>6, WaitingNext DEF Settles
  <2>2. PICK used \in 0..(Reserve + 1) : Settle(used)
    BY <1>6 DEF Settles
  <2>3. usage' = Settled(usage, used)
    BY <2>2 DEF Settle
  <2>4. /\ usage' \in Usage /\ usage'.active = usage.active - 1
        /\ usage'.requests = usage.requests /\ usage'.reserved = usage.reserved - Reserve
        /\ usage'.tokens <= usage.tokens + Reserve + 1
        /\ usage'.reserved = Reserve * usage'.active
    BY <1>1, <1>2, <2>1, <2>3, SettleBooks DEF Books
  <2>5. usage'.tokens \in Nat /\ usage'.reserved \in Nat /\ usage'.active \in Nat
    BY <2>4 DEF Usage
  <2>6. Books'
    BY <1>1, <1>2, <2>1, <2>4, Limits DEF Books
  <2>7. usage'.active <= usage'.requests
    BY <1>1, <1>2, <2>4 DEF BudgetFacts
  <2>8. usage'.tokens + usage'.reserved <= Tokens + (usage'.requests - usage'.active)
    BY <1>1, <1>2, <2>4, <2>5, Limits DEF BudgetFacts
  <2>9. usage'.tokens > Tokens => Aborted'
    <3>1. ASSUME usage'.tokens > Tokens PROVE AbortWith("budget")
      BY <2>2, <3>1 DEF Settle
    <3> QED BY <1>1, <3>1, AbortTypes DEF Aborted, Reasons
  <2> QED BY <2>6, <2>7, <2>8, <2>9 DEF BudgetFacts
<1> QED BY <1>4, <1>5, <1>6

----------------------------------------------------------------------------
(* The theorems.                                                           *)

LEMMA InitIInv == Init => IInv
<1> SUFFICES ASSUME Init PROVE IInv
  OBVIOUS
<1> USE DEF Init
<1>1. Sound(NewRun) /\ NewRun.pc = "head" /\ Sound(Idle) /\ Idle.pc = "idle"
  BY NewRunSound
<1>2. \A a \in Agents : Sound(run[a]) /\ run[a].pc \in {"head", "idle"}
  BY <1>1
<1>3. run \in [Agents -> Run]
  BY <1>1 DEF Sound
<1>4. Waiting = {}
  BY <1>2 DEF Waiting, Asked
<1>5. Cardinality(Waiting) = 0
  BY <1>4, FS_EmptySet
<1>6. usage \in Usage /\ usage.active = 0 /\ usage.reserved = 0 /\ usage.tokens = 0
      /\ usage.requests = 0
  BY Limits DEF NewUsage, Usage
<1>7. 0 = Reserve * 0
  BY Limits
<1>8. notices \in Notices
  BY Limits DEF Notices
<1>9. TypeOK
  BY <1>3, <1>5, <1>6, <1>7, <1>8, Limits DEF TypeOK
<1>10. BudgetFacts
  BY <1>6, Limits DEF BudgetFacts
<1> QED BY <1>2, <1>9, <1>10 DEF IInv

\* Every step of a run keeps the invariant.
LEMMA RunStep ==
    ASSUME IInv, NEW a \in Agents, Step(a) \/ Spawn(a)
    PROVE  IInv'
<1>1. Becomes(a) /\ (Quiet(a) \/ Reserves(a) \/ Settles(a))
  BY TurnEffect, ToolEffect, RequestEffect DEF Step
<1>2. Books' /\ BudgetFacts'
  BY <1>1, BooksNext
<1>3. run \in [Agents -> Run] /\ \A b \in Agents : Sound(run[b])
  BY DEF IInv, TypeOK
<1>4. run' = [run EXCEPT ![a] = run'[a]] /\ Sound(run'[a])
  BY <1>1 DEF Becomes
<1>5. \A b \in Agents : run'[b] = IF b = a THEN run'[a] ELSE run[b]
  BY <1>3, <1>4
<1>6. \A b \in Agents : Sound(run'[b])
  BY <1>3, <1>4, <1>5
<1>7. run' \in [Agents -> Run]
  BY <1>3, <1>4 DEF Sound
<1>8. abort' \in Reasons /\ notices' \in Notices
  BY <1>1 DEF Becomes
<1>9. TypeOK'
  BY <1>2, <1>7, <1>8 DEF TypeOK, Books, Reasons
<1>10. \A b \in Agents : Sound(run[b])'
  BY <1>6
<1> QED BY <1>2, <1>9, <1>10 DEF IInv

\* Escape, the timer and notifications leave the runs alone.
LEMMA OutsideStep ==
    ASSUME IInv, Interrupt \/ DurationExceeded \/ Notify
    PROVE  IInv'
<1>1. TypeOK /\ BudgetFacts /\ \A a \in Agents : Sound(run[a])
  BY DEF IInv
<1>2. UNCHANGED <<run, usage>>
  BY DEF Interrupt, DurationExceeded, Notify
<1>3. abort' \in Reasons /\ (Aborted => Aborted')
  BY <1>1 DEF Interrupt, DurationExceeded, Notify, TypeOK, Reasons, Aborted
<1>4. notices' \in Notices
  <2>1. CASE Interrupt \/ DurationExceeded
    BY <1>1, <2>1 DEF Interrupt, DurationExceeded, TypeOK
  <2>2. CASE Notify
    <3>1. notices.pending \in 0..MaxNotices /\ notices.sent \in 0..MaxNotices
          /\ notices.pending <= notices.sent
      BY <1>1 DEF TypeOK, Notices
    <3>2. notices' = [pending |-> notices.pending + 1, sent |-> notices.sent + 1]
          /\ notices.sent < MaxNotices
      BY <2>2 DEF Notify
    <3> QED BY <3>1, <3>2, Limits DEF Notices
  <2> QED BY <2>1, <2>2
<1>5. Waiting' = Waiting
  BY <1>2 DEF Waiting
<1>6. TypeOK'
  BY <1>1, <1>2, <1>3, <1>4, <1>5 DEF TypeOK, Reasons
<1>7. BudgetFacts'
  BY <1>1, <1>2, <1>3 DEF BudgetFacts
<1>8. \A a \in Agents : Sound(run[a])'
  BY <1>1, <1>2
<1> QED BY <1>6, <1>7, <1>8 DEF IInv

\* Every step does.
LEMMA NextIInv == IInv /\ [Next]_vars => IInv'
<1> SUFFICES ASSUME IInv, [Next]_vars PROVE IInv'
  OBVIOUS
<1>1. CASE Next
  BY <1>1, RunStep, OutsideStep DEF Next
<1>2. CASE UNCHANGED vars
  <2>1. UNCHANGED <<run, usage, abort, notices>>
    BY <1>2 DEF vars
  <2>2. TypeOK /\ BudgetFacts /\ \A a \in Agents : Sound(run[a])
    BY DEF IInv
  <2>3. Waiting' = Waiting
    BY <2>1 DEF Waiting
  <2>4. TypeOK' /\ BudgetFacts'
    BY <2>1, <2>2, <2>3 DEF TypeOK, BudgetFacts, Aborted
  <2>5. \A a \in Agents : Sound(run[a])'
    BY <2>1, <2>2
  <2> QED BY <2>4, <2>5 DEF IInv
<1> QED BY <1>1, <1>2

\* The inductive invariant holds in every reachable state, for any number of agents
\* and any limits.
THEOREM Invariance == Spec => []IInv
BY InitIInv, NextIInv, PTL DEF Spec

\* The runs have their types and the books balance: what is reserved belongs to the
\* requests under way (reserveRequest and its settle).
THEOREM TypeCorrect == Spec => []TypeOK
<1>1. IInv => TypeOK
  BY DEF IInv
<1> QED BY <1>1, Invariance, PTL

\* The agents that share a budget pass it only by what the provider charged beyond a
\* reservation, and are all told to stop then (task-budget.ts).
THEOREM BudgetIsKept == Spec => []WithinBudget
<1>1. IInv => WithinBudget
  BY DEF IInv, BudgetFacts, WithinBudget
<1> QED BY <1>1, Invariance, PTL

\* Every tool call that a run has put into the session has its result there when the
\* run has ended, for whatever reason (agent-loop.ts, error-recovery.ts).
THEOREM SessionsEndPaired == Spec => []EndsPaired
<1>1. IInv => EndsPaired
  <2> SUFFICES ASSUME IInv, NEW a \in Agents, run[a].pc = "done" PROVE Paired(run[a].log)
    BY DEF EndsPaired
  <2>1. run[a] \in Run /\ Wanting(run[a].log, 0)
    BY DEF IInv, Sound, InTools
  <2>2. run[a].log \in Seq(Message)
    BY <2>1 DEF Run
  <2> QED BY <2>1, <2>2, WantPaired
<1> QED BY <1>1, Invariance, PTL

----------------------------------------------------------------------------
(* Conversation, its specification TalkSpec.  The proofs need none of its   *)
(* assumptions about the constants.                                        *)


----------------------------------------------------------------------------
(* Induction.  The library's induction theorems take the property as an      *)
(* operator; these take a set of numbers.                                    *)

\* A set of numbers has a least one.
LEMMA LeastNumber ==
    ASSUME NEW T \in SUBSET Nat, T # {}
    PROVE  \E n \in T : \A m \in T : n <= m
<1> DEFINE R == OpToRel(<, Nat)
<1>1. IsWellFoundedOn(R, Nat)
  BY NatLessThanWellFounded
<1>2. \A x, y \in Nat : x < y => <<x, y>> \in R
  BY DEF OpToRel
<1> HIDE DEF R
<1>3. PICK n \in T : \A m \in T : ~ (<<m, n>> \in R)
  BY <1>1, WFMin, Zenon
<1>4. \A m \in T : ~(m < n)
  BY <1>2, <1>3
<1> QED BY <1>4

\* What holds of 0, and of every number after one it holds of.
LEMMA Induction ==
    ASSUME NEW S \in SUBSET Nat, 0 \in S, \A n \in S : n + 1 \in S
    PROVE  S = Nat
<1> SUFFICES ASSUME Nat \ S # {} PROVE FALSE
  OBVIOUS
<1>1. PICK n \in Nat \ S : \A m \in Nat \ S : n <= m
  BY LeastNumber
<1>2. n # 0 /\ n - 1 \in Nat
  BY <1>1
<1>3. n - 1 \in S
  BY <1>1, <1>2
<1> QED BY <1>1, <1>2, <1>3

\* A bounded set of numbers has a greatest one.
LEMMA GreatestNumber ==
    ASSUME NEW N \in Nat, NEW T \in SUBSET (0..N), T # {}
    PROVE  \E n \in T : \A m \in T : m <= n
<1> DEFINE U == {N - n : n \in T}
<1>1. U \in SUBSET Nat /\ U # {}
  <2>1. \A n \in T : n \in Nat /\ N - n \in Nat
    OBVIOUS
  <2>2. PICK n \in T : TRUE
    OBVIOUS
  <2> QED BY <2>1, <2>2
<1>2. PICK u \in U : \A w \in U : u <= w
  BY <1>1, LeastNumber
<1>3. PICK n \in T : u = N - n
  OBVIOUS
<1>4. ASSUME NEW m \in T PROVE m <= n
  <2>1. N - m \in U
    OBVIOUS
  <2>2. N - n <= N - m
    BY <1>2, <1>3, <2>1
  <2> QED BY <2>2
<1> QED BY <1>4

----------------------------------------------------------------------------
(* Folds over a list, the shape of the recursive functions of the model.    *)

FoldRun(g, f, init, s) ==
    g = [n \in 0..Len(s) |-> IF n = 0 THEN init ELSE f[<<g[n - 1], s[n]>>]]

Fold(f, init, s) == (CHOOSE g : FoldRun(g, f, init, s))[Len(s)]

\* There is a run of a fold over every list.
LEMMA FoldExists ==
    ASSUME NEW f, NEW init, NEW s, Len(s) \in Nat
    PROVE  \E g : FoldRun(g, f, init, s)
<1> DEFINE F(g, N) == [n \in 0..N |-> IF n = 0 THEN init ELSE f[<<g[n - 1], s[n]>>]]
           S == {N \in Nat : \E g : g = F(g, N)}
<1>1. 0 \in S
  <2>1. F(<<>>, 0) = F(F(<<>>, 0), 0)
    OBVIOUS
  <2> QED BY <2>1
<1>2. ASSUME NEW N \in S PROVE N + 1 \in S
  <2>1. PICK g : g = F(g, N)
    OBVIOUS
  <2> DEFINE h == [n \in 0..(N + 1) |-> IF n = N + 1 THEN f[<<g[N], s[n]>>] ELSE g[n]]
  <2>2. h = F(h, N + 1)
    <3> SUFFICES ASSUME NEW n \in 0..(N + 1)
                 PROVE  h[n] = IF n = 0 THEN init ELSE f[<<h[n - 1], s[n]>>]
      OBVIOUS
    <3>1. CASE n = N + 1
      BY <3>1
    <3>2. CASE n \in 0..N
      <4>1. g[n] = IF n = 0 THEN init ELSE f[<<g[n - 1], s[n]>>]
        BY <2>1, <3>2
      <4>2. h[n] = g[n] /\ (n # 0 => n - 1 \in 0..(N + 1) /\ n - 1 # N + 1)
        BY <3>2
      <4> QED BY <4>1, <4>2
    <3> QED BY <3>1, <3>2
  <2> HIDE DEF h, F
  <2>3. \E k : k = F(k, N + 1)
    BY <2>2
  <2> QED BY <2>3
<1>3. S = Nat
  <2> HIDE DEF F
  <2>1. S \in SUBSET Nat
    OBVIOUS
  <2> HIDE DEF S
  <2> QED BY <1>1, <1>2, <2>1, Induction
<1>4. \E g : g = F(g, Len(s))
  BY <1>3
<1> QED BY <1>4 DEF FoldRun

\* Two runs over lists with a common beginning go together through it.
LEMMA FoldsAgree ==
    ASSUME NEW f, NEW init, NEW s, NEW t, NEW g, NEW h, Len(s) \in Nat, Len(t) \in Nat,
           FoldRun(g, f, init, s), FoldRun(h, f, init, t),
           NEW N \in Nat, N <= Len(s), N <= Len(t), \A i \in 1..N : s[i] = t[i]
    PROVE  \A n \in 0..N : g[n] = h[n]
<1> DEFINE S == {n \in Nat : n <= N => g[n] = h[n]}
<1>1. 0 \in S
  BY DEF FoldRun
<1>2. ASSUME NEW n \in S, n + 1 <= N PROVE g[n + 1] = h[n + 1]
  <2>1. g[n] = h[n] /\ s[n + 1] = t[n + 1] /\ n + 1 # 0 /\ (n + 1) - 1 = n
        /\ n + 1 \in 0..Len(s) /\ n + 1 \in 0..Len(t)
    BY <1>2
  <2>2. g[n + 1] = f[<<g[n], s[n + 1]>>] /\ h[n + 1] = f[<<h[n], t[n + 1]>>]
    BY <2>1 DEF FoldRun
  <2> QED BY <2>1, <2>2
<1>3. \A n \in S : n + 1 \in S
  BY <1>2
<1>4. S \in SUBSET Nat
  OBVIOUS
<1>5. S = Nat
  <2> HIDE DEF S
  <2> QED BY <1>1, <1>3, <1>4, Induction
<1> QED BY <1>5

\* The fold of a list is what any run over it ends with.
LEMMA FoldMatches ==
    ASSUME NEW f, NEW init, NEW s, Len(s) \in Nat, NEW g, FoldRun(g, f, init, s)
    PROVE  Fold(f, init, s) = g[Len(s)]
<1> DEFINE h == CHOOSE k : FoldRun(k, f, init, s)
<1>1. FoldRun(h, f, init, s)
  OBVIOUS
<1> HIDE DEF h
<1>2. h[Len(s)] = g[Len(s)]
  BY <1>1, FoldsAgree
<1> QED BY <1>2 DEF Fold, h

\* A fold starts with its initial value and takes the last element last.
LEMMA FoldFacts ==
    ASSUME NEW f, NEW init, NEW M, NEW s \in Seq(M), NEW m \in M
    PROVE  /\ Fold(f, init, <<>>) = init
           /\ Fold(f, init, Append(s, m)) = f[<<Fold(f, init, s), m>>]
<1>1. Fold(f, init, <<>>) = init
  <2>1. PICK g : FoldRun(g, f, init, <<>>)
    BY FoldExists
  <2>2. g[0] = init
    BY <2>1 DEF FoldRun
  <2> QED BY <2>1, <2>2, FoldMatches
<1>2. Fold(f, init, Append(s, m)) = f[<<Fold(f, init, s), m>>]
  <2> DEFINE t == Append(s, m)
             L == Len(s)
  <2>1. /\ L \in Nat /\ Len(t) = L + 1 /\ t[L + 1] = m /\ \A i \in 1..L : s[i] = t[i]
    OBVIOUS
  <2> HIDE DEF t
  <2>2. PICK g : FoldRun(g, f, init, s)
    BY <2>1, FoldExists
  <2>3. PICK h : FoldRun(h, f, init, t)
    BY <2>1, FoldExists
  <2>4. g[L] = h[L]
    BY <2>1, <2>2, <2>3, FoldsAgree
  <2>5. h[L + 1] = f[<<h[L], m>>]
    BY <2>1, <2>3 DEF FoldRun
  <2>6. Fold(f, init, s) = g[L] /\ Fold(f, init, t) = h[L + 1]
    BY <2>1, <2>2, <2>3, FoldMatches
  <2> QED BY <2>4, <2>5, <2>6 DEF t
<1> QED BY <1>1, <1>2

\* A run through a set that the steps do not leave.
LEMMA FoldRunType ==
    ASSUME NEW S, NEW M, NEW f \in [S \X M -> S], NEW init \in S, NEW s \in Seq(M),
           NEW g, FoldRun(g, f, init, s)
    PROVE  \A n \in 0..Len(s) : g[n] \in S
<1> DEFINE T == {n \in Nat : n <= Len(s) => g[n] \in S}
<1>1. 0 \in T
  BY DEF FoldRun
<1>2. ASSUME NEW n \in T, n + 1 <= Len(s) PROVE g[n + 1] \in S
  <2>1. g[n] \in S /\ s[n + 1] \in M /\ n + 1 # 0 /\ (n + 1) - 1 = n /\ n + 1 \in 0..Len(s)
    BY <1>2
  <2>2. g[n + 1] = f[<<g[n], s[n + 1]>>]
    BY <2>1 DEF FoldRun
  <2> QED BY <2>1, <2>2
<1>3. \A n \in T : n + 1 \in T
  BY <1>2
<1>4. T \in SUBSET Nat
  OBVIOUS
<1>5. T = Nat
  <2> HIDE DEF T
  <2> QED BY <1>1, <1>3, <1>4, Induction
<1> QED BY <1>5

\* Two functions that are equal at 0 and stay so.
LEMMA SameSteps ==
    ASSUME NEW g, NEW h, NEW N \in Nat, g[0] = h[0],
           \A n \in 0..(N - 1) : g[n] = h[n] => g[n + 1] = h[n + 1]
    PROVE  g[N] = h[N]
<1> DEFINE T == {n \in Nat : n <= N => g[n] = h[n]}
<1>1. 0 \in T /\ T \in SUBSET Nat
  OBVIOUS
<1>2. ASSUME NEW n \in T PROVE n + 1 \in T
  <2>1. CASE n + 1 <= N
    <3>1. n \in 0..(N - 1) /\ g[n] = h[n]
      BY <2>1
    <3> QED BY <3>1
  <2> QED BY <2>1
<1>3. T = Nat
  <2> HIDE DEF T
  <2> QED BY <1>1, <1>2, Induction
<1> QED BY <1>3

\* The values of a fold are of the type its steps are of.
LEMMA FoldType ==
    ASSUME NEW S, NEW M, NEW f \in [S \X M -> S], NEW init \in S, NEW s \in Seq(M)
    PROVE  Fold(f, init, s) \in S
<1>0. Len(s) \in Nat
  OBVIOUS
<1>1. PICK g : FoldRun(g, f, init, s)
  BY <1>0, FoldExists
<1>2. \A n \in 0..Len(s) : g[n] \in S
  BY <1>1, FoldRunType, Zenon
<1>3. g[Len(s)] \in S
  BY <1>0, <1>2
<1> QED BY <1>0, <1>1, <1>3, FoldMatches

----------------------------------------------------------------------------
(* The protocol: which results a list of messages still wants.               *)

Roles == {"user", "assistant", "tool"}
Msg == [role : Roles, calls : SUBSET (Nat \ {0}), answers : Nat, ids : SUBSET Nat,
        tokens : Nat, summary : BOOLEAN]

WantedStep == [p \in (SUBSET Nat) \X Msg |-> StillWanted(p[1], p[2])]

\* What is wanted after a message is a set of ids.
LEMMA WantedStepType == WantedStep \in [(SUBSET Nat) \X Msg -> SUBSET Nat]
<1> SUFFICES ASSUME NEW w \in SUBSET Nat, NEW m \in Msg PROVE StillWanted(w, m) \in SUBSET Nat
  BY DEF WantedStep
<1>1. m.calls \in SUBSET Nat
  BY DEF Msg
<1> QED BY <1>1 DEF StillWanted, Never

\* What a list still wants is a fold over its messages.
LEMMA WantedIsFold ==
    ASSUME NEW s \in Seq(Msg)
    PROVE  WantedAfter(s) = Fold(WantedStep, {}, s)
<1> DEFINE F(g) == [n \in 0..Len(s) |-> IF n = 0 THEN {} ELSE StillWanted(g[n - 1], s[n])]
           w == CHOOSE g : g = F(g)
<1>0. Len(s) \in Nat /\ \A n \in 1..Len(s) : s[n] \in Msg
  OBVIOUS
<1>1. PICK h : FoldRun(h, WantedStep, {}, s)
  BY <1>0, FoldExists
<1>2. \A n \in 0..Len(s) : h[n] \in SUBSET Nat
  BY <1>1, WantedStepType, FoldRunType, Zenon
<1>3. h = F(h)
  <2>1. ASSUME NEW n \in 0..Len(s) PROVE h[n] = IF n = 0 THEN {} ELSE StillWanted(h[n - 1], s[n])
    <3>1. CASE n # 0
      <4>1. n - 1 \in 0..Len(s) /\ n \in 1..Len(s)
        BY <3>1
      <4>2. <<h[n - 1], s[n]>> \in (SUBSET Nat) \X Msg
        BY <1>0, <1>2, <4>1
      <4>3. h[n] = WantedStep[<<h[n - 1], s[n]>>]
        BY <1>1, <3>1 DEF FoldRun
      <4> QED BY <3>1, <4>2, <4>3 DEF WantedStep
    <3>2. CASE n = 0
      BY <1>1, <3>2 DEF FoldRun
    <3> QED BY <3>1, <3>2
  <2>2. h = [n \in 0..Len(s) |-> h[n]]
    BY <1>1 DEF FoldRun
  <2> QED BY <2>1, <2>2
<1>4. WantedAfter(s) = w[Len(s)]
  BY DEF WantedAfter
<1> HIDE DEF F
<1>5. w = F(w)
  BY <1>3
<1> HIDE DEF w
<1>6. w[Len(s)] = h[Len(s)]
  <2>1. w[0] = h[0]
    BY <1>0, <1>3, <1>5 DEF F
  <2>2. ASSUME NEW n \in 0..(Len(s) - 1), w[n] = h[n] PROVE w[n + 1] = h[n + 1]
    <3>1. n + 1 \in 0..Len(s) /\ n + 1 # 0 /\ (n + 1) - 1 = n
      BY <1>0
    <3>2. w[n + 1] = StillWanted(w[n], s[n + 1])
      BY <1>5, <3>1 DEF F
    <3>3. h[n + 1] = StillWanted(h[n], s[n + 1])
      BY <1>3, <3>1 DEF F
    <3> QED BY <2>2, <3>2, <3>3
  <2> QED BY <1>0, <2>1, <2>2, SameSteps
<1> QED BY <1>0, <1>1, <1>4, <1>6, FoldMatches

\* One message more.
LEMMA WantedFacts ==
    ASSUME NEW s \in Seq(Msg), NEW m \in Msg
    PROVE  /\ WantedAfter(<<>>) = {}
           /\ WantedAfter(s) \in SUBSET Nat
           /\ WantedAfter(Append(s, m)) = StillWanted(WantedAfter(s), m)
<1>1. <<>> \in Seq(Msg) /\ Append(s, m) \in Seq(Msg)
  OBVIOUS
<1>2. Fold(WantedStep, {}, s) \in SUBSET Nat
  BY WantedStepType, FoldType, Zenon
<1>3. /\ Fold(WantedStep, {}, <<>>) = {}
      /\ Fold(WantedStep, {}, Append(s, m)) = WantedStep[<<Fold(WantedStep, {}, s), m>>]
  BY FoldFacts
<1>4. WantedStep[<<Fold(WantedStep, {}, s), m>>] = StillWanted(Fold(WantedStep, {}, s), m)
  BY <1>2 DEF WantedStep
<1> QED BY <1>1, <1>2, <1>3, <1>4, WantedIsFold
----------------------------------------------------------------------------
(* closeOpenTurns.                                                           *)

\* What the clean-up has written is paired up to the turn that is open, and wants
\* what is expected of that turn.
OpenTurn(s) ==
    /\ s.from \in 1..Len(s.out) /\ ~s.done /\ s.expected # {}
    /\ WantedAfter(SubSeq(s.out, 1, s.from - 1)) = {}
    /\ WantedAfter(s.out) = s.expected

States == [out : Seq(Msg), expected : SUBSET (Nat \ {0}), from : Nat, done : BOOLEAN]

Sane == {s \in States : IF s.from = 0 THEN WantedAfter(s.out) = {} ELSE OpenTurn(s)}

\* A message that is said has the fields it was given.
LEMMA SpokenType ==
    ASSUME NEW r \in Roles, NEW c \in SUBSET (Nat \ {0}), NEW n \in Nat, NEW i \in SUBSET Nat
    PROVE  /\ Spoken(r, c, n, i) \in Msg /\ Spoken(r, c, n, i).role = r
           /\ Spoken(r, c, n, i).calls = c /\ Spoken(r, c, n, i).answers = n
           /\ Spoken(r, c, n, i).ids = i
BY DEF Spoken, Msg

\* A list stands for entries of the log.
LEMMA IdsType ==
    ASSUME NEW s \in Seq(Msg) PROVE IdsStoodFor(s) \in SUBSET Nat
<1>1. \A m \in Msg : m.ids \in SUBSET Nat
  BY DEF Msg
<1>2. \A m \in ToSet(s) : m \in Msg
  BY DEF ToSet
<1> QED BY <1>1, <1>2 DEF IdsStoodFor

\* The mark for an interrupted turn is an answer without calls.
LEMMA MarkerType ==
    ASSUME NEW i \in SUBSET Nat
    PROVE  Marker(i) \in Msg /\ Marker(i).role = "assistant" /\ Marker(i).calls = {} /\ Marker(i).ids = i
BY SpokenType DEF Marker, Roles

\* A piece of a list is a list.
LEMMA SubSeqType ==
    ASSUME NEW S, NEW s \in Seq(S), NEW i \in 1..(Len(s) + 1), NEW j \in 0..Len(s)
    PROVE  SubSeq(s, i, j) \in Seq(S)
OBVIOUS

\* A state is sane if its fields are.
LEMMA SaneFields ==
    ASSUME NEW o \in Seq(Msg), NEW e \in SUBSET (Nat \ {0}), NEW f \in Nat, NEW d \in BOOLEAN,
           NEW s, s = [out |-> o, expected |-> e, from |-> f, done |-> d],
           f = 0 => WantedAfter(o) = {},
           f # 0 => /\ f \in 1..Len(o) /\ ~d /\ e # {}
                    /\ WantedAfter(SubSeq(o, 1, f - 1)) = {} /\ WantedAfter(o) = e
    PROVE  s \in Sane
<1>1. s \in States /\ s.out = o /\ s.expected = e /\ s.from = f /\ s.done = d
  BY DEF States
<1> QED BY <1>1 DEF Sane, OpenTurn

\* The end of the list changes nothing else.
LEMMA StoppedFields ==
    ASSUME NEW s \in States
    PROVE  Stopped(s) = [out |-> s.out, expected |-> s.expected, from |-> s.from, done |-> TRUE]
<1>1. ASSUME NEW d
      PROVE  [s EXCEPT !.done = d] =
               [out |-> s.out, expected |-> s.expected, from |-> s.from, done |-> d]
  BY DEF States
<1> QED BY <1>1, Zenon DEF Stopped

\* Taking back the open turn leaves a list that wants nothing.
LEMMA RetractedSane ==
    ASSUME NEW s \in Sane, s.from # 0
    PROVE  /\ Retracted(s) \in Sane /\ Retracted(s).from = 0 /\ ~Retracted(s).done
           /\ Stopped(Retracted(s)) \in Sane
<1> DEFINE before == SubSeq(s.out, 1, s.from - 1)
           cut == SubSeq(s.out, s.from, Len(s.out))
           mark == Marker(IdsStoodFor(cut))
<1>1. /\ s.out \in Seq(Msg) /\ Len(s.out) \in Nat /\ s.from \in 1..Len(s.out)
      /\ WantedAfter(before) = {}
  BY DEF Sane, States, OpenTurn
<1>2. before \in Seq(Msg) /\ cut \in Seq(Msg)
  BY <1>1, SubSeqType
<1>3. mark \in Msg /\ mark.role = "assistant" /\ mark.calls = {}
  BY <1>2, IdsType, MarkerType
<1>4. Retracted(s) = [out |-> Append(before, mark), expected |-> {}, from |-> 0, done |-> FALSE]
  BY DEF Retracted
<1> HIDE DEF before, mark
<1>5. WantedAfter(Append(before, mark)) = {}
  BY <1>1, <1>2, <1>3, WantedFacts DEF StillWanted
<1>6. Append(before, mark) \in Seq(Msg)
  BY <1>2, <1>3
<1>7. Stopped(Retracted(s)) =
        [out |-> Append(before, mark), expected |-> {}, from |-> 0, done |-> TRUE]
  <2>1. Retracted(s) \in States
    BY <1>4, <1>6 DEF States
  <2> QED BY <1>4, <2>1, StoppedFields
<1>8. Retracted(s).from = 0 /\ Retracted(s).done = FALSE
  BY <1>4
<1>9. Retracted(s) \in Sane
  BY <1>4, <1>5, <1>6, SaneFields
<1>10. Stopped(Retracted(s)) \in Sane
  BY <1>5, <1>6, <1>7, SaneFields
<1> QED BY <1>8, <1>9, <1>10

\* The clean-up stays sane when a result comes,
LEMMA TakeResultSane ==
    ASSUME NEW s \in Sane, NEW m \in Msg, m.role = "tool"
    PROVE  TakeResult(s, m) \in Sane
<1>1. /\ s \in States /\ s.out \in Seq(Msg) /\ Len(s.out) \in Nat
      /\ s.expected \in SUBSET (Nat \ {0}) /\ s.from \in Nat
  BY DEF Sane, States
<1>2. CASE s.from = 0
  <2> DEFINE mark == Marker({})
  <2>1. mark \in Msg /\ mark.role = "assistant" /\ mark.calls = {}
    BY MarkerType
  <2>2. TakeResult(s, m) =
          [out |-> Append(s.out, mark), expected |-> s.expected, from |-> s.from, done |-> TRUE]
    BY <1>1, <1>2 DEF TakeResult, Stopped, States
  <2> HIDE DEF mark
  <2>3. WantedAfter(Append(s.out, mark)) = {}
    BY <1>1, <1>2, <2>1, WantedFacts DEF Sane, StillWanted
  <2>4. Append(s.out, mark) \in Seq(Msg)
    BY <1>1, <2>1
  <2> QED BY <1>1, <1>2, <2>2, <2>3, <2>4, SaneFields
<1>3. CASE s.from # 0 /\ m.answers \notin s.expected
  BY <1>3, RetractedSane DEF TakeResult
<1>4. CASE s.from # 0 /\ m.answers \in s.expected
  <2> DEFINE left == s.expected \ {m.answers}
             o == Append(s.out, m)
             f == IF left = {} THEN 0 ELSE s.from
  <2>1. TakeResult(s, m) = [out |-> o, expected |-> left, from |-> f, done |-> s.done]
    BY <1>1, <1>4 DEF TakeResult, States
  <2>2. /\ ~s.done /\ s.from \in 1..Len(s.out) /\ WantedAfter(s.out) = s.expected
        /\ WantedAfter(SubSeq(s.out, 1, s.from - 1)) = {}
    BY <1>4 DEF Sane, OpenTurn
  <2>3. o \in Seq(Msg) /\ Len(o) = Len(s.out) + 1
        /\ SubSeq(o, 1, s.from - 1) = SubSeq(s.out, 1, s.from - 1)
    BY <1>1, <2>2
  <2>4. WantedAfter(o) = left
    BY <1>1, <1>4, <2>2, WantedFacts DEF StillWanted, Never
  <2>5. f \in Nat /\ (f # 0 => f = s.from /\ left # {})
        /\ left \in SUBSET (Nat \ {0}) /\ (f = 0 => left = {}) /\ s.done \in BOOLEAN
    BY <1>1, <1>4 DEF States
  <2> HIDE DEF o, left, f
  <2>6. f \in 1..Len(o) \/ f = 0
    BY <1>1, <2>2, <2>3, <2>5
  <2> QED BY <2>1, <2>2, <2>3, <2>4, <2>5, <2>6, SaneFields
<1> QED BY <1>2, <1>3, <1>4

\* when another message comes and no turn is open,
LEMMA TakeOtherSane ==
    ASSUME NEW s \in Sane, s.from = 0, NEW m \in Msg, m.role # "tool"
    PROVE  s.done \/ TakeOther(s, m) \in Sane
<1> SUFFICES ASSUME ~s.done PROVE TakeOther(s, m) \in Sane
  OBVIOUS
<1>1. /\ s \in States /\ s.out \in Seq(Msg) /\ Len(s.out) \in Nat /\ WantedAfter(s.out) = {}
      /\ m.calls \in SUBSET (Nat \ {0})
  BY DEF Sane, States, Msg
<1> DEFINE o == Append(s.out, m)
           f == IF m.calls = {} THEN 0 ELSE Len(s.out) + 1
<1>2. TakeOther(s, m) = [out |-> o, expected |-> m.calls, from |-> f, done |-> s.done]
  <2>1. TakeOther(s, m) = [s EXCEPT !.out = o, !.expected = m.calls, !.from = f]
    BY DEF TakeOther
  <2> HIDE DEF o, f
  <2> QED BY <1>1, <2>1 DEF States
<1>3. o \in Seq(Msg) /\ Len(o) = Len(s.out) + 1 /\ SubSeq(o, 1, Len(s.out) + 1 - 1) = s.out
  BY <1>1
<1>4. WantedAfter(o) = m.calls
  BY <1>1, WantedFacts DEF StillWanted
<1>5. f \in Nat /\ (f # 0 => f = Len(o) /\ f \in 1..Len(o) /\ m.calls # {}) /\ (f = 0 => m.calls = {})
  BY <1>1, <1>3
<1>6. f # 0 => SubSeq(o, 1, f - 1) = s.out
  BY <1>3, <1>5
<1> HIDE DEF o, f
<1>7. s.done \in BOOLEAN
  BY <1>1 DEF States
<1> QED BY <1>1, <1>2, <1>3, <1>4, <1>5, <1>6, <1>7, SaneFields

\* and so whatever comes.
LEMMA TakeMessageSane ==
    ASSUME NEW s \in Sane, NEW m \in Msg
    PROVE  TakeMessage(s, m) \in Sane
<1>1. CASE s.done
  BY <1>1 DEF TakeMessage
<1>2. CASE ~s.done /\ m.role = "tool"
  BY <1>2, TakeResultSane DEF TakeMessage
<1>3. CASE ~s.done /\ m.role # "tool" /\ s.from = 0
  BY <1>3, TakeOtherSane DEF TakeMessage
<1>4. CASE ~s.done /\ m.role # "tool" /\ s.from # 0
  BY <1>4, TakeOtherSane, RetractedSane DEF TakeMessage
<1> QED BY <1>1, <1>2, <1>3, <1>4

\* The clean-up, message by message.
TakeStep == [p \in Sane \X Msg |-> TakeMessage(p[1], p[2])]

\* So its steps are, as a function.
LEMMA TakeStepType == TakeStep \in [Sane \X Msg -> Sane] /\ Fresh \in Sane
<1>1. <<>> \in Seq(Msg) /\ Marker({}) \in Msg
  BY MarkerType
<1>2. WantedAfter(<<>>) = {}
  BY <1>1, WantedFacts
<1>3. Fresh \in Sane
  BY <1>1, <1>2, SaneFields DEF Fresh
<1> QED BY <1>3, TakeMessageSane DEF TakeStep

\* The clean-up is a fold over the messages.
LEMMA TakenIsFold ==
    ASSUME NEW s \in Seq(Msg)
    PROVE  Taken(s) = Fold(TakeStep, Fresh, s)
<1> DEFINE F(g) == [n \in 0..Len(s) |-> IF n = 0 THEN Fresh ELSE TakeMessage(g[n - 1], s[n])]
           w == CHOOSE g : g = F(g)
<1>0. Len(s) \in Nat /\ \A n \in 1..Len(s) : s[n] \in Msg
  OBVIOUS
<1>1. PICK h : FoldRun(h, TakeStep, Fresh, s)
  BY <1>0, FoldExists
<1>2. \A n \in 0..Len(s) : h[n] \in Sane
  BY <1>1, TakeStepType, FoldRunType, Zenon
<1>3. h = F(h)
  <2>1. ASSUME NEW n \in 0..Len(s) PROVE h[n] = IF n = 0 THEN Fresh ELSE TakeMessage(h[n - 1], s[n])
    <3>1. CASE n # 0
      <4>1. n - 1 \in 0..Len(s) /\ n \in 1..Len(s)
        BY <3>1
      <4>2. <<h[n - 1], s[n]>> \in Sane \X Msg
        BY <1>0, <1>2, <4>1
      <4>3. h[n] = TakeStep[<<h[n - 1], s[n]>>]
        BY <1>1, <3>1 DEF FoldRun
      <4> QED BY <3>1, <4>2, <4>3 DEF TakeStep
    <3>2. CASE n = 0
      BY <1>1, <3>2 DEF FoldRun
    <3> QED BY <3>1, <3>2
  <2>2. h = [n \in 0..Len(s) |-> h[n]]
    BY <1>1 DEF FoldRun
  <2> QED BY <2>1, <2>2
<1>4. Taken(s) = w[Len(s)]
  BY DEF Taken
<1> HIDE DEF F
<1>5. w = F(w)
  BY <1>3
<1> HIDE DEF w
<1>6. w[Len(s)] = h[Len(s)]
  <2>1. w[0] = h[0]
    BY <1>0, <1>3, <1>5 DEF F
  <2>2. ASSUME NEW n \in 0..(Len(s) - 1), w[n] = h[n] PROVE w[n + 1] = h[n + 1]
    <3>1. n + 1 \in 0..Len(s) /\ n + 1 # 0 /\ (n + 1) - 1 = n
      BY <1>0
    <3>2. w[n + 1] = TakeMessage(w[n], s[n + 1])
      BY <1>5, <3>1 DEF F
    <3>3. h[n + 1] = TakeMessage(h[n], s[n + 1])
      BY <1>3, <3>1 DEF F
    <3> QED BY <2>2, <3>2, <3>3
  <2> QED BY <1>0, <2>1, <2>2, SameSteps
<1> QED BY <1>0, <1>1, <1>4, <1>6, FoldMatches

\* One message more.
LEMMA TakenFacts ==
    ASSUME NEW s \in Seq(Msg), NEW m \in Msg
    PROVE  /\ Taken(<<>>) = Fresh
           /\ Taken(s) \in Sane
           /\ Taken(Append(s, m)) = TakeMessage(Taken(s), m)
<1>1. <<>> \in Seq(Msg) /\ Append(s, m) \in Seq(Msg)
  OBVIOUS
<1>2. Fold(TakeStep, Fresh, s) \in Sane
  BY TakeStepType, FoldType, Zenon
<1>3. /\ Fold(TakeStep, Fresh, <<>>) = Fresh
      /\ Fold(TakeStep, Fresh, Append(s, m)) = TakeStep[<<Fold(TakeStep, Fresh, s), m>>]
  BY FoldFacts
<1>4. TakeStep[<<Fold(TakeStep, Fresh, s), m>>] = TakeMessage(Fold(TakeStep, Fresh, s), m)
  BY <1>2 DEF TakeStep
<1> QED BY <1>1, <1>2, <1>3, <1>4, TakenIsFold

\* Whatever the log holds, the list the model is given is paired.
THEOREM ClosedTurnsArePaired ==
    ASSUME NEW s \in Seq(Msg)
    PROVE  closeOpenTurns(s) \in Seq(Msg) /\ WellPaired(closeOpenTurns(s))
<1> DEFINE t == Taken(s)
<1>1. t \in Sane
  BY MarkerType, SpokenType, TakenFacts DEF Roles
<1> HIDE DEF t
<1>2. CASE t.from = 0 \/ t.done
  <2>1. t.from = 0
    BY <1>1, <1>2 DEF Sane, OpenTurn
  <2> QED BY <1>1, <2>1 DEF t, closeOpenTurns, WellPaired, Sane, States
<1>3. CASE t.from # 0 /\ ~t.done
  <2>1. Retracted(t) \in Sane /\ Retracted(t).from = 0
    BY <1>1, <1>3, RetractedSane
  <2> QED BY <1>3, <2>1 DEF t, closeOpenTurns, WellPaired, Sane, States
<1> QED BY <1>2, <1>3
-----------------------------------------------------------------------------
(* The branch of a leaf.                                                     *)

Kinds == {"message", "compaction", "branch_summary", "model_change"}
EntryRec == [id : Nat \ {0}, parent : Nat, kind : Kinds, message : Msg,
             tail : SUBSET Seq(Msg), usage : BOOLEAN]

\* One step of getBranch back along the parents.
Back(es, path) ==
  IF path[1] \in IdsIn(es) THEN <<EntryOf(es, path[1]).parent>> \o path ELSE path

\* The ids from an ancestor's parent down to the leaf.
Paths(es, id) ==
  {p \in Seq(Nat) : /\ p # <<>> /\ p[Len(p)] = id
                    /\ \A i \in 2..Len(p) : /\ p[i] \in IdsIn(es)
                                            /\ p[i - 1] = EntryOf(es, p[i]).parent}

\* The entry of an id that is logged is logged, and has that id.
LEMMA EntryOfFacts ==
    ASSUME NEW es \in Seq(EntryRec), NEW id \in IdsIn(es)
    PROVE  /\ EntryOf(es, id) \in ToSet(es) /\ EntryOf(es, id) \in EntryRec
           /\ EntryOf(es, id).id = id /\ id \in Nat \ {0}
<1>1. \E e \in ToSet(es) : e.id = id
  BY DEF IdsIn
<1>2. EntryOf(es, id) \in ToSet(es) /\ EntryOf(es, id).id = id
  BY <1>1 DEF EntryOf
<1>3. EntryOf(es, id) \in EntryRec
  BY <1>2 DEF ToSet
<1> QED BY <1>2, <1>3 DEF EntryRec

\* A path stays one when the parent of its first entry is put in front.
LEMMA BackType ==
    ASSUME NEW es \in Seq(EntryRec), NEW id \in Nat, NEW p \in Paths(es, id)
    PROVE  Back(es, p) \in Paths(es, id)
<1>1. CASE p[1] \notin IdsIn(es)
  BY <1>1 DEF Back
<1>2. CASE p[1] \in IdsIn(es)
  <2> DEFINE up == EntryOf(es, p[1]).parent
             q == <<up>> \o p
  <2>1. up \in Nat
    BY <1>2, EntryOfFacts DEF EntryRec
  <2>2. p \in Seq(Nat) /\ p # <<>> /\ Len(p) \in Nat \ {0} /\ p[Len(p)] = id
    BY DEF Paths
  <2>3. q \in Seq(Nat) /\ Len(q) = Len(p) + 1 /\ q[1] = up /\ \A i \in 1..Len(p) : q[i + 1] = p[i]
    BY <2>1, <2>2
  <2> HIDE DEF q
  <2>4. ASSUME NEW i \in 2..Len(q)
        PROVE  q[i] \in IdsIn(es) /\ q[i - 1] = EntryOf(es, q[i]).parent
    <3>1. i - 1 \in 1..Len(p) /\ q[i] = p[i - 1]
      <4>1. i - 1 \in 1..Len(p) /\ (i - 1) + 1 = i
        BY <2>2, <2>3
      <4> QED BY <2>3, <4>1
    <3>2. CASE i = 2
      BY <1>2, <2>3, <3>1, <3>2
    <3>3. CASE i # 2
      <4>1. i - 1 \in 2..Len(p) /\ i - 2 \in 1..Len(p) /\ (i - 2) + 1 = i - 1 /\ (i - 1) - 1 = i - 2
        BY <2>2, <3>1, <3>3
      <4>2. q[i - 1] = p[i - 2] /\ p[i - 1] \in IdsIn(es) /\ p[i - 2] = EntryOf(es, p[i - 1]).parent
        BY <2>3, <4>1 DEF Paths
      <4> QED BY <3>1, <4>2
    <3> QED BY <3>2, <3>3
  <2>5. q # <<>> /\ q[Len(q)] = id
    <3>1. Len(p) \in 1..Len(p) /\ Len(q) # 0
      BY <2>2, <2>3
    <3>2. q[Len(p) + 1] = p[Len(p)]
      BY <2>3, <3>1
    <3> QED BY <2>2, <2>3, <3>1, <3>2
  <2>6. q \in Paths(es, id)
    BY <2>3, <2>4, <2>5 DEF Paths
  <2> QED BY <1>2, <2>6 DEF Back, q
<1> QED BY <1>1, <1>2

\* The walk of getBranch, step by step.
LEMMA AncestryRun ==
    ASSUME NEW es \in Seq(EntryRec), NEW id \in Nat
    PROVE  \E g : /\ Ancestry(es, id) = g[Len(es)] /\ g[0] = <<id>>
                  /\ \A n \in 1..Len(es) : g[n] = Back(es, g[n - 1])
                  /\ \A n \in 0..Len(es) : g[n] \in Paths(es, id)
<1> DEFINE F(g) == [n \in 0..Len(es) |->
                      IF n = 0 THEN <<id>>
                      ELSE IF g[n - 1][1] \in IdsIn(es)
                           THEN <<EntryOf(es, g[n - 1][1]).parent>> \o g[n - 1] ELSE g[n - 1]]
           w == CHOOSE g : g = F(g)
           S == Paths(es, id)
           f == [q \in S \X EntryRec |-> Back(es, q[1])]
<1>0. Len(es) \in Nat /\ \A n \in 1..Len(es) : es[n] \in EntryRec
  OBVIOUS
<1>1. PICK h : FoldRun(h, f, <<id>>, es)
  BY <1>0, FoldExists
<1>2. f \in [S \X EntryRec -> S] /\ <<id>> \in S
  <2>1. <<id>> \in S
    BY DEF Paths
  <2> QED BY <2>1, BackType
<1> HIDE DEF S
<1>3. \A n \in 0..Len(es) : h[n] \in S
  <2> HIDE DEF f
  <2> QED BY <1>1, <1>2, FoldRunType, Zenon
<1>4. ASSUME NEW n \in 1..Len(es) PROVE h[n] = Back(es, h[n - 1])
  <2>1. n - 1 \in 0..Len(es) /\ n \in 0..Len(es) /\ n # 0
    BY <1>0
  <2>2. <<h[n - 1], es[n]>> \in S \X EntryRec
    BY <1>0, <1>3, <2>1
  <2>3. h[n] = f[<<h[n - 1], es[n]>>]
    <3> HIDE DEF f
    <3> QED BY <1>1, <2>1 DEF FoldRun
  <2> QED BY <2>2, <2>3
<1>5. h[0] = <<id>> /\ h = [n \in 0..Len(es) |-> h[n]]
  <2> HIDE DEF f
  <2> QED BY <1>0, <1>1 DEF FoldRun
<1>6. h = F(h)
  <2>1. ASSUME NEW n \in 0..Len(es) PROVE h[n] = F(h)[n]
    <3>1. CASE n = 0
      BY <1>5, <3>1
    <3>2. CASE n # 0
      <4>1. h[n] = Back(es, h[n - 1])
        BY <1>4, <3>2
      <4> QED BY <3>2, <4>1 DEF Back
    <3> QED BY <3>1, <3>2
  <2> QED BY <1>5, <2>1
<1>7. Ancestry(es, id) = w[Len(es)]
  BY DEF Ancestry
<1> HIDE DEF F, f
<1>8. w = F(w)
  BY <1>6
<1> HIDE DEF w
<1>9. w[0] = <<id>> /\ \A n \in 1..Len(es) : w[n] = Back(es, w[n - 1])
  <2>1. \A n \in 0..Len(es) :
          w[n] = IF n = 0 THEN <<id>>
                 ELSE IF w[n - 1][1] \in IdsIn(es)
                      THEN <<EntryOf(es, w[n - 1][1]).parent>> \o w[n - 1] ELSE w[n - 1]
    BY <1>8 DEF F
  <2>2. 0 \in 0..Len(es) /\ \A n \in 1..Len(es) : n \in 0..Len(es) /\ n # 0
    BY <1>0
  <2> QED BY <2>1, <2>2 DEF Back
<1>10. ASSUME NEW n \in 0..Len(es) PROVE w[n] = h[n]
  <2>1. \A k \in 0..(n - 1) : w[k] = h[k] => w[k + 1] = h[k + 1]
    <3> SUFFICES ASSUME NEW k \in 0..(n - 1), w[k] = h[k] PROVE w[k + 1] = h[k + 1]
      OBVIOUS
    <3>1. k + 1 \in 1..Len(es) /\ (k + 1) - 1 = k
      BY <1>0
    <3> QED BY <1>4, <1>9, <3>1
  <2>2. n \in Nat /\ w[0] = h[0]
    BY <1>5, <1>9
  <2> QED BY <2>1, <2>2, SameSteps
<1>11. \A n \in 0..Len(es) : w[n] \in Paths(es, id)
  BY <1>3, <1>10 DEF S
<1> QED BY <1>7, <1>9, <1>11

\* What getBranch walks is a path that ends at the leaf.
LEMMA AncestryType ==
    ASSUME NEW es \in Seq(EntryRec), NEW id \in Nat
    PROVE  Ancestry(es, id) \in Paths(es, id)
<1>1. Len(es) \in 0..Len(es)
  OBVIOUS
<1> QED BY <1>1, AncestryRun

\* The branch, id by id.
LEMMA BranchType ==
    ASSUME NEW es \in Seq(EntryRec), NEW id \in Nat, NEW p, p = Ancestry(es, id)
    PROVE  /\ getBranch(es, id) \in Seq(EntryRec)
           /\ Len(p) \in Nat \ {0} /\ Len(getBranch(es, id)) = Len(p) - 1
           /\ \A i \in 1..(Len(p) - 1) : /\ getBranch(es, id)[i] = EntryOf(es, p[i + 1])
                                         /\ p[i + 1] \in IdsIn(es)
<1>1. p \in Seq(Nat) /\ p # <<>> /\ Len(p) \in Nat \ {0} /\ \A i \in 2..Len(p) : p[i] \in IdsIn(es)
  BY AncestryType DEF Paths
<1> DEFINE ids == Tail(p)
<1>2. ids \in Seq(Nat) /\ Len(ids) = Len(p) - 1 /\ DOMAIN ids = 1..(Len(p) - 1)
      /\ \A i \in 1..(Len(p) - 1) : ids[i] = p[i + 1] /\ i + 1 \in 2..Len(p)
  BY <1>1
<1> HIDE DEF ids
<1>3. getBranch(es, id) = [i \in 1..(Len(p) - 1) |-> EntryOf(es, ids[i])]
  BY <1>2 DEF getBranch, ids
<1>4. \A i \in 1..(Len(p) - 1) : EntryOf(es, ids[i]) \in EntryRec
  BY <1>1, <1>2, EntryOfFacts
<1>5. Len(p) - 1 \in Nat
  BY <1>1
<1>6. getBranch(es, id) \in [1..(Len(p) - 1) -> EntryRec]
  BY <1>3, <1>4
<1>7. getBranch(es, id) \in Seq(EntryRec) /\ Len(getBranch(es, id)) = Len(p) - 1
  BY <1>5, <1>6
<1> QED BY <1>1, <1>2, <1>3, <1>7
\* A branch is a list of entries.
LEMMA BranchIsSeq ==
    ASSUME NEW es \in Seq(EntryRec), NEW id \in Nat
    PROVE  getBranch(es, id) \in Seq(EntryRec)
<1>1. PICK p : p = Ancestry(es, id)
  OBVIOUS
<1> QED BY <1>1, BranchType

-----------------------------------------------------------------------------
(* The messages of a branch.                                                 *)

LEMMA ContributionType ==
    ASSUME NEW e \in EntryRec
    PROVE  Contribution(e) \in Seq(Msg)
<1>1. e.message \in Msg /\ e.tail \in SUBSET Seq(Msg)
  BY DEF EntryRec
<1>2. <<e.message>> \in Seq(Msg) /\ <<>> \in Seq(Msg)
  BY <1>1
<1>3. e.tail # {} => (CHOOSE t \in e.tail : TRUE) \in Seq(Msg)
  BY <1>1
<1>4. (IF e.tail = {} THEN <<>> ELSE CHOOSE t \in e.tail : TRUE) \in Seq(Msg)
  BY <1>2, <1>3
<1>5. (<<e.message>> \o (IF e.tail = {} THEN <<>> ELSE CHOOSE t \in e.tail : TRUE)) \in Seq(Msg)
  BY <1>2, <1>4
<1> QED BY <1>2, <1>5 DEF Contribution

\* What the model is told of a branch, entry by entry.
SaidStep == [p \in Seq(Msg) \X EntryRec |-> p[1] \o Contribution(p[2])]

\* The messages of a branch grow by lists of messages.
LEMMA SaidStepType == SaidStep \in [Seq(Msg) \X EntryRec -> Seq(Msg)] /\ <<>> \in Seq(Msg)
<1>1. \A s \in Seq(Msg), e \in EntryRec : s \o Contribution(e) \in Seq(Msg)
  BY ContributionType
<1> QED BY <1>1 DEF SaidStep

\* The messages of a branch are a fold over its entries.
LEMMA MessagesIsFold ==
    ASSUME NEW s \in Seq(EntryRec)
    PROVE  MessagesOf(s) = Fold(SaidStep, <<>>, s)
<1> DEFINE F(g) == [n \in 0..Len(s) |-> IF n = 0 THEN <<>> ELSE g[n - 1] \o Contribution(s[n])]
           w == CHOOSE g : g = F(g)
<1>0. Len(s) \in Nat /\ \A n \in 1..Len(s) : s[n] \in EntryRec
  OBVIOUS
<1>1. PICK h : FoldRun(h, SaidStep, <<>>, s)
  BY <1>0, FoldExists
<1>2. \A n \in 0..Len(s) : h[n] \in Seq(Msg)
  BY <1>1, SaidStepType, FoldRunType, Zenon
<1>3. h = F(h)
  <2>1. ASSUME NEW n \in 0..Len(s) PROVE h[n] = IF n = 0 THEN <<>> ELSE h[n - 1] \o Contribution(s[n])
    <3>1. CASE n # 0
      <4>1. n - 1 \in 0..Len(s) /\ n \in 1..Len(s)
        BY <3>1
      <4>2. <<h[n - 1], s[n]>> \in Seq(Msg) \X EntryRec
        BY <1>0, <1>2, <4>1
      <4>3. h[n] = SaidStep[<<h[n - 1], s[n]>>]
        BY <1>1, <3>1 DEF FoldRun
      <4> QED BY <3>1, <4>2, <4>3 DEF SaidStep
    <3>2. CASE n = 0
      BY <1>1, <3>2 DEF FoldRun
    <3> QED BY <3>1, <3>2
  <2>2. h = [n \in 0..Len(s) |-> h[n]]
    BY <1>1 DEF FoldRun
  <2> QED BY <2>1, <2>2
<1>4. MessagesOf(s) = w[Len(s)]
  BY DEF MessagesOf
<1> HIDE DEF F
<1>5. w = F(w)
  BY <1>3
<1> HIDE DEF w
<1>6. w[Len(s)] = h[Len(s)]
  <2>1. w[0] = h[0]
    BY <1>0, <1>3, <1>5 DEF F
  <2>2. ASSUME NEW n \in 0..(Len(s) - 1), w[n] = h[n] PROVE w[n + 1] = h[n + 1]
    <3>1. n + 1 \in 0..Len(s) /\ n + 1 # 0 /\ (n + 1) - 1 = n
      BY <1>0
    <3>2. w[n + 1] = w[n] \o Contribution(s[n + 1])
      BY <1>5, <3>1 DEF F
    <3>3. h[n + 1] = h[n] \o Contribution(s[n + 1])
      BY <1>3, <3>1 DEF F
    <3> QED BY <2>2, <3>2, <3>3
  <2> QED BY <1>0, <2>1, <2>2, SameSteps
<1> QED BY <1>0, <1>1, <1>4, <1>6, FoldMatches

\* One entry more.
LEMMA MessagesFacts ==
    ASSUME NEW s \in Seq(EntryRec), NEW e \in EntryRec
    PROVE  /\ MessagesOf(Append(s, e)) = MessagesOf(s) \o Contribution(e)
           /\ MessagesOf(s) \in Seq(Msg)
<1>1. Append(s, e) \in Seq(EntryRec)
  OBVIOUS
<1>2. Fold(SaidStep, <<>>, s) \in Seq(Msg)
  BY SaidStepType, FoldType, Zenon
<1>3. Fold(SaidStep, <<>>, Append(s, e)) = SaidStep[<<Fold(SaidStep, <<>>, s), e>>]
  BY FoldFacts
<1>4. SaidStep[<<Fold(SaidStep, <<>>, s), e>>] = Fold(SaidStep, <<>>, s) \o Contribution(e)
  BY <1>2 DEF SaidStep
<1> QED BY <1>1, <1>2, <1>3, <1>4, MessagesIsFold

\* They are messages.
LEMMA MessagesType ==
    ASSUME NEW s \in Seq(EntryRec)
    PROVE  MessagesOf(s) \in Seq(Msg)
<1>1. Fold(SaidStep, <<>>, s) \in Seq(Msg)
  BY SaidStepType, FoldType, Zenon
<1> QED BY <1>1, MessagesIsFold

\* The entries the model is told of: the branch from its last checkpoint.
LEMMA ContextEntriesType ==
    ASSUME NEW es \in Seq(EntryRec), NEW id \in Nat
    PROVE  buildContextEntries(es, id) \in Seq(EntryRec)
<1> DEFINE b == getBranch(es, id)
           marks == {i \in DOMAIN b : IsCheckpoint(b[i])}
           from == IF marks = {} THEN 1 ELSE CHOOSE i \in marks : \A j \in marks : j <= i
<1>1. b \in Seq(EntryRec)
  BY BranchIsSeq
<1> HIDE DEF b
<1>2. Len(b) \in Nat /\ marks \in SUBSET (0..Len(b)) /\ marks \in SUBSET (1..Len(b))
  BY <1>1
<1>3. from \in 1..(Len(b) + 1)
  <2> HIDE DEF marks
  <2>1. CASE marks # {}
    <3>1. \E n \in marks : \A m \in marks : m <= n
      BY <1>2, <2>1, GreatestNumber
    <3>2. from \in marks
      BY <2>1, <3>1
    <3> HIDE DEF from
    <3> QED BY <1>2, <3>2
  <2>2. CASE marks = {}
    <3>1. from = 1
      BY <2>2
    <3> HIDE DEF from
    <3> QED BY <1>2, <3>1
  <2> QED BY <2>1, <2>2
<1> HIDE DEF from
<1>4. SubSeq(b, from, Len(b)) \in Seq(EntryRec)
  BY <1>1, <1>2, <1>3
<1> QED BY <1>4 DEF buildContextEntries, b, from, marks

\* Whatever is in the log, the model is given a paired list.
THEOREM ContextIsPaired ==
    ASSUME NEW es \in Seq(EntryRec), NEW id \in Nat
    PROVE  /\ buildSessionContext(es, id).messages \in Seq(Msg)
           /\ WantedAfter(buildSessionContext(es, id).messages) = {}
<1>1. MessagesOf(buildContextEntries(es, id)) \in Seq(Msg)
  BY ContextEntriesType, MessagesType
<1>2. buildSessionContext(es, id).messages = closeOpenTurns(MessagesOf(buildContextEntries(es, id)))
  BY DEF buildSessionContext
<1> QED BY <1>1, <1>2, ClosedTurnsArePaired DEF WellPaired
-----------------------------------------------------------------------------
(* Where a list can be cut.                                                  *)

LEMMA SubSeqGrows ==
    ASSUME NEW S, NEW s \in Seq(S), NEW i \in 1..(Len(s) + 1), NEW j \in (i - 1)..(Len(s) - 1)
    PROVE  SubSeq(s, i, j + 1) = Append(SubSeq(s, i, j), s[j + 1])
<1>1. Len(s) \in Nat /\ i \in Nat /\ j \in Nat /\ j + 1 <= Len(s) /\ i <= j + 1
  OBVIOUS
<1> DEFINE a == SubSeq(s, i, j + 1)
           b == Append(SubSeq(s, i, j), s[j + 1])
<1>2. SubSeq(s, i, j) \in Seq(S) /\ s[j + 1] \in S /\ Len(SubSeq(s, i, j)) = j + 1 - i
  BY <1>1
<1>3. a \in Seq(S) /\ Len(a) = j + 2 - i /\ \A n \in 1..(j + 2 - i) : a[n] = s[i + n - 1]
  BY <1>1
<1>4. b \in Seq(S) /\ Len(b) = j + 2 - i /\ \A n \in 1..(j + 2 - i) : b[n] = s[i + n - 1]
  BY <1>1, <1>2
<1> HIDE DEF a, b
<1>5. a = b
  BY <1>3, <1>4
<1> QED BY <1>5 DEF a, b

\* The piece from the first to the last element is the whole list.
LEMMA SubSeqWhole ==
    ASSUME NEW S, NEW s \in Seq(S)
    PROVE  SubSeq(s, 1, Len(s)) = s
OBVIOUS

\* The results that are wanted along a piece of a list.
LEMMA WantedAlong ==
    ASSUME NEW s \in Seq(Msg), NEW i \in 1..(Len(s) + 1)
    PROVE  /\ WantedAfter(SubSeq(s, i, i - 1)) = {}
           /\ \A j \in (i - 1)..(Len(s) - 1) :
                WantedAfter(SubSeq(s, i, j + 1)) = StillWanted(WantedAfter(SubSeq(s, i, j)), s[j + 1])
<1>1. Len(s) \in Nat
  OBVIOUS
<1>2. WantedAfter(SubSeq(s, i, i - 1)) = {}
  <2>1. SubSeq(s, i, i - 1) = <<>> /\ <<>> \in Seq(Msg) /\ Marker({}) \in Msg
    BY <1>1, MarkerType
  <2>2. WantedAfter(<<>>) = {}
    BY <2>1, WantedFacts
  <2> QED BY <2>1, <2>2
<1>3. ASSUME NEW j \in (i - 1)..(Len(s) - 1)
      PROVE  WantedAfter(SubSeq(s, i, j + 1)) = StillWanted(WantedAfter(SubSeq(s, i, j)), s[j + 1])
  <2>1. SubSeq(s, i, j) \in Seq(Msg) /\ s[j + 1] \in Msg
    BY <1>1
  <2>2. SubSeq(s, i, j + 1) = Append(SubSeq(s, i, j), s[j + 1])
    BY SubSeqGrows
  <2> QED BY <2>1, <2>2, WantedFacts
<1> QED BY <1>2, <1>3

\* A list that is paired in the end was never beyond repair, and wants nothing
\* where another message than a result stands.
LEMMA NothingWantedAt ==
    ASSUME NEW s \in Seq(Msg), WantedAfter(s) # Never, NEW k \in 1..Len(s)
    PROVE  /\ WantedAfter(SubSeq(s, 1, k)) # Never
           /\ s[k].role # "tool" => WantedAfter(SubSeq(s, 1, k - 1)) = {}
<1> DEFINE W(n) == WantedAfter(SubSeq(s, 1, n))
           T == {n \in Nat : k + n <= Len(s) => W(k + n) = Never}
<1>1. Len(s) \in Nat /\ k \in Nat /\ SubSeq(s, 1, Len(s)) = s
  BY SubSeqWhole
<1>2. \A n \in 0..(Len(s) - 1) : W(n + 1) = StillWanted(W(n), s[n + 1])
  <2>1. 1 \in 1..(Len(s) + 1) /\ 1 - 1 = 0
    BY <1>1
  <2> QED BY <2>1, WantedAlong
<1> HIDE DEF W
<1>3. W(k) # Never
  <2> SUFFICES ASSUME W(k) = Never PROVE FALSE
    OBVIOUS
  <2>1. 0 \in T
    BY <1>1
  <2>2. ASSUME NEW n \in T, k + n + 1 <= Len(s) PROVE W(k + n + 1) = Never
    <3>1. k + n \in 0..(Len(s) - 1) /\ W(k + n) = Never
      BY <1>1, <2>2
    <3>2. W(k + n + 1) = StillWanted(Never, s[k + n + 1])
      BY <1>2, <3>1
    <3> QED BY <3>2 DEF StillWanted, Never
  <2>3. \A n \in T : n + 1 \in T
    BY <1>1, <2>2
  <2>4. T = Nat
    <3>1. T \in SUBSET Nat
      OBVIOUS
    <3> HIDE DEF T
    <3> QED BY <2>1, <2>3, <3>1, Induction
  <2>5. Len(s) - k \in T /\ k + (Len(s) - k) = Len(s)
    <3>1. Len(s) - k \in Nat /\ k + (Len(s) - k) = Len(s)
      BY <1>1
    <3> HIDE DEF T
    <3> QED BY <2>4, <3>1
  <2>6. W(Len(s)) = Never
    BY <1>1, <2>5
  <2> QED BY <1>1, <2>6 DEF W
<1>4. s[k].role # "tool" => W(k - 1) = {}
  <2>1. k - 1 \in 0..(Len(s) - 1) /\ (k - 1) + 1 = k
    BY <1>1
  <2>2. W(k) = StillWanted(W(k - 1), s[k])
    BY <1>2, <2>1
  <2> QED BY <1>3, <2>2 DEF StillWanted
<1> QED BY <1>3, <1>4 DEF W

\* Where nothing is wanted the list starts anew.
LEMMA WantedFrom ==
    ASSUME NEW s \in Seq(Msg), NEW k \in 1..(Len(s) + 1), WantedAfter(SubSeq(s, 1, k - 1)) = {}
    PROVE  WantedAfter(SubSeq(s, k, Len(s))) = WantedAfter(s)
<1>1. Len(s) \in Nat /\ k \in Nat /\ SubSeq(s, 1, Len(s)) = s
  BY SubSeqWhole
<1> DEFINE W(n) == WantedAfter(SubSeq(s, 1, n))
           V(n) == WantedAfter(SubSeq(s, k, n))
<1>2. W(k - 1) = {}
  OBVIOUS
<1>3. \A n \in 0..(Len(s) - 1) : W(n + 1) = StillWanted(W(n), s[n + 1])
  <2>1. 1 \in 1..(Len(s) + 1) /\ 1 - 1 = 0
    BY <1>1
  <2> QED BY <2>1, WantedAlong
<1>4. V(k - 1) = {} /\ \A n \in (k - 1)..(Len(s) - 1) : V(n + 1) = StillWanted(V(n), s[n + 1])
  BY WantedAlong
<1> HIDE DEF W, V
<1> DEFINE g == [n \in Nat |-> W(k - 1 + n)]
           h == [n \in Nat |-> V(k - 1 + n)]
           N == Len(s) - (k - 1)
<1>5. N \in Nat /\ g[0] = h[0]
  <2>1. N \in Nat /\ 0 \in Nat /\ k - 1 + 0 = k - 1
    BY <1>1
  <2> QED BY <1>2, <1>4, <2>1
<1>6. ASSUME NEW n \in 0..(N - 1), g[n] = h[n] PROVE g[n + 1] = h[n + 1]
  <2>1. k - 1 + n \in (k - 1)..(Len(s) - 1) /\ k - 1 + n \in 0..(Len(s) - 1) /\ n \in Nat /\ n + 1 \in Nat
        /\ k - 1 + (n + 1) = (k - 1 + n) + 1
    BY <1>1
  <2> QED BY <1>3, <1>4, <1>6, <2>1
<1>7. g[N] = h[N]
  <2> HIDE DEF g, h, N
  <2> QED BY <1>5, <1>6, SameSteps
<1>8. W(Len(s)) = V(Len(s))
  <2>1. k - 1 + N = Len(s)
    BY <1>1
  <2> QED BY <1>5, <1>7, <2>1
<1> QED BY <1>1, <1>8 DEF W, V

\* Both parts of a paired list are paired when the second begins with no result.
LEMMA CutIsPaired ==
    ASSUME NEW s \in Seq(Msg), WantedAfter(s) = {}, NEW k \in 1..(Len(s) + 1),
           k <= Len(s) => s[k].role # "tool"
    PROVE  /\ WantedAfter(SubSeq(s, 1, k - 1)) = {}
           /\ WantedAfter(SubSeq(s, k, Len(s))) = {}
<1>1. Len(s) \in Nat /\ k \in Nat /\ SubSeq(s, 1, Len(s)) = s /\ {} # Never
  BY SubSeqWhole DEF Never
<1>2. WantedAfter(SubSeq(s, 1, k - 1)) = {}
  <2>1. CASE k <= Len(s)
    BY <1>1, <2>1, NothingWantedAt
  <2>2. CASE k = Len(s) + 1
    <3>1. k - 1 = Len(s)
      BY <1>1, <2>2
    <3> QED BY <1>1, <3>1
  <2>3. k <= Len(s) \/ k = Len(s) + 1
    BY <1>1
  <2> QED BY <2>1, <2>2, <2>3
<1> QED BY <1>2, WantedFrom

-----------------------------------------------------------------------------
(* What a compaction keeps and what it summarises.                           *)

LEMMA MaxFacts ==
    ASSUME NEW N \in Nat, NEW S \in SUBSET (0..N), S # {}
    PROVE  Max(S) \in S /\ \A x \in S : x <= Max(S)
<1>1. \E n \in S : \A m \in S : n >= m
  BY GreatestNumber
<1> QED BY <1>1 DEF Max

\* Min returns a least element.
LEMMA MinFacts ==
    ASSUME NEW S \in SUBSET Nat, S # {}
    PROVE  Min(S) \in S /\ \A x \in S : Min(S) <= x
<1>1. \E n \in S : \A m \in S : n <= m
  BY LeastNumber
<1> QED BY <1>1 DEF Min

\* The first message of a paired list is no result.
LEMMA FirstIsNoResult ==
    ASSUME NEW s \in Seq(Msg), s # <<>>, WantedAfter(s) = {}
    PROVE  s[1].role # "tool"
<1>1. Len(s) \in Nat \ {0} /\ 1 \in 1..Len(s) /\ WantedAfter(s) # Never
  BY DEF Never
<1>2. WantedAfter(SubSeq(s, 1, 1)) # Never
  BY <1>1, NothingWantedAt
<1>3. WantedAfter(SubSeq(s, 1, 0)) = {}
      /\ WantedAfter(SubSeq(s, 1, 0 + 1)) = StillWanted(WantedAfter(SubSeq(s, 1, 0)), s[0 + 1])
  <2>1. 1 \in 1..(Len(s) + 1) /\ 1 - 1 = 0 /\ 0 \in (1 - 1)..(Len(s) - 1)
    BY <1>1
  <2> QED BY <2>1, WantedAlong
<1>4. 0 + 1 = 1
  OBVIOUS
<1> QED BY <1>2, <1>3, <1>4 DEF StillWanted

\* lastUserUpTo returns the place of a user's message, or 0.
LEMMA LastUserFacts ==
    ASSUME NEW s \in Seq(Msg), NEW n \in 0..Len(s)
    PROVE  /\ LastUserUpTo(s, n) \in 0..n
           /\ LastUserUpTo(s, n) > 0 => s[LastUserUpTo(s, n)].role = "user"
<1> DEFINE at == {i \in 1..n : s[i].role = "user"}
<1>1. n \in Nat /\ at \in SUBSET (0..n)
  OBVIOUS
<1>2. CASE at = {}
  BY <1>1, <1>2 DEF LastUserUpTo
<1>3. CASE at # {}
  <2>1. Max(at) \in at
    <3> HIDE DEF at
    <3> QED BY <1>1, <1>3, MaxFacts
  <2>2. LastUserUpTo(s, n) = Max(at)
    BY <1>3 DEF LastUserUpTo
  <2> QED BY <1>1, <2>1, <2>2
<1> QED BY <1>2, <1>3

\* A place where the list may be cut: no result stands there.
Cut(s, k) == k \in 1..(Len(s) + 1) /\ (k <= Len(s) => s[k].role # "tool")

\* What a compaction keeps starts at a place where a list can be cut.
LEMMA FirstKeptFacts ==
    ASSUME NEW s \in Seq(Msg), s # <<>>, WantedAfter(s) = {}, NEW b
    PROVE  FirstKept(s, b) \in 1..Len(s) /\ Cut(s, FirstKept(s, b))
<1> DEFINE later == {i \in CutPoints(s) : i >= Reached(s, b)}
<1>1. Len(s) \in Nat \ {0} /\ 1 \in CutPoints(s)
  BY FirstIsNoResult DEF CutPoints
<1>2. CutPoints(s) \in SUBSET Nat /\ CutPoints(s) \in SUBSET (1..Len(s))
  BY <1>1 DEF CutPoints
<1>3. later \in SUBSET CutPoints(s)
  OBVIOUS
<1>4. FirstKept(s, b) = Min(CutPoints(s)) \/ (later # {} /\ FirstKept(s, b) = Min(later))
  BY DEF FirstKept
<1> HIDE DEF later
<1>5. FirstKept(s, b) \in CutPoints(s)
  <2>1. Min(CutPoints(s)) \in CutPoints(s)
    BY <1>1, <1>2, MinFacts
  <2>2. later # {} => Min(later) \in later
    BY <1>2, <1>3, MinFacts
  <2> QED BY <1>3, <1>4, <2>1, <2>2
<1> QED BY <1>1, <1>5 DEF CutPoints, Cut

\* So it does when a cut is forced, and then something is cut off.
LEMMA ForcedFacts ==
    ASSUME NEW s \in Seq(Msg), s # <<>>
    PROVE  Cut(s, Forced(s)) /\ Forced(s) > 1
<1> DEFINE user == LastUserUpTo(s, Len(s))
           assistants == {i \in 2..Len(s) : s[i].role = "assistant"}
<1>1. Len(s) \in Nat \ {0} /\ Len(s) \in 0..Len(s) /\ assistants \in SUBSET Nat
  OBVIOUS
<1>2. user \in 0..Len(s) /\ (user > 0 => s[user].role = "user")
  BY <1>1, LastUserFacts
<1>3. CASE user > 1
  <2>1. Forced(s) = user
    <3>1. user > 1 /\ ~(user <= 1)
      BY <1>1, <1>2, <1>3
    <3> QED BY <3>1 DEF Forced
  <2> HIDE DEF user
  <2> QED BY <1>1, <1>2, <1>3, <2>1 DEF Cut
<1>4. CASE user <= 1 /\ assistants # {}
  <2>1. Forced(s) = Min(assistants)
    BY <1>1, <1>2, <1>4 DEF Forced
  <2>2. Min(assistants) \in assistants
    <3> HIDE DEF assistants
    <3> QED BY <1>1, <1>4, MinFacts
  <2> HIDE DEF user
  <2>3. Forced(s) \in 2..Len(s) /\ s[Forced(s)].role = "assistant"
    BY <2>1, <2>2
  <2> QED BY <1>1, <2>3 DEF Cut
<1>5. CASE user <= 1 /\ assistants = {}
  <2>1. ~(user > 1) /\ ~(assistants # {})
    BY <1>1, <1>2, <1>5
  <2>2. Forced(s) = Len(s) + 1
    BY <2>1 DEF Forced
  <2> QED BY <1>1, <2>2 DEF Cut
<1> QED BY <1>1, <1>2, <1>3, <1>4, <1>5

\* The three pieces of a cut.
Complete(p) ==
  /\ p.tail \in Seq(Msg) /\ p.summarized \in Seq(Msg) /\ p.prefix \in Seq(Msg)
  /\ WantedAfter(p.tail) = {} /\ WantedAfter(p.summarized) = {} /\ WantedAfter(p.prefix) = {}

\* A list that is cut at such a place, and at a user's message before it, falls
\* into complete pieces.
LEMMA PreparedIsComplete ==
    ASSUME NEW s \in Seq(Msg), WantedAfter(s) = {}, NEW k, Cut(s, k),
           NEW t \in 0..(k - 1), t > 0 => s[t].role = "user"
    PROVE  Complete(Prepared(s, k, t))
<1>1. /\ Len(s) \in Nat /\ k \in 1..(Len(s) + 1) /\ k \in Nat /\ t \in Nat
      /\ k <= Len(s) => s[k].role # "tool"
  BY DEF Cut
<1> DEFINE old == SubSeq(s, 1, k - 1)
           new == SubSeq(s, k, Len(s))
<1>2. WantedAfter(old) = {} /\ WantedAfter(new) = {} /\ old \in Seq(Msg) /\ new \in Seq(Msg)
  <2>1. old \in Seq(Msg) /\ new \in Seq(Msg)
    BY <1>1, SubSeqType
  <2> QED BY <1>1, <2>1, CutIsPaired
<1>3. Prepared(s, k, t).tail = new
  BY DEF Prepared
<1>4. CASE t = 0
  <2>1. Prepared(s, k, t).summarized = old /\ Prepared(s, k, t).prefix = <<>>
    <3>1. ~(t > 0)
      BY <1>4
    <3> QED BY <3>1, Zenon DEF Prepared
  <2>2. <<>> \in Seq(Msg) /\ WantedAfter(<<>>) = {}
    <3>1. Marker({}) \in Msg /\ <<>> \in Seq(Msg)
      BY MarkerType
    <3>2. WantedAfter(<<>>) = {}
      BY <3>1, WantedFacts
    <3> QED BY <3>1, <3>2
  <2> QED BY <1>2, <1>3, <2>1, <2>2 DEF Complete
<1>5. CASE t > 0
  <2>1. Len(old) = k - 1 /\ t \in 1..(Len(old) + 1) /\ t <= Len(old) /\ old[t] = s[t]
    BY <1>1, <1>5
  <2>2. WantedAfter(SubSeq(old, 1, t - 1)) = {} /\ WantedAfter(SubSeq(old, t, Len(old))) = {}
    <3> HIDE DEF old
    <3>1. old[t].role # "tool"
      BY <1>5, <2>1
    <3> QED BY <1>2, <2>1, <3>1, CutIsPaired
  <2>3. SubSeq(old, 1, t - 1) = SubSeq(s, 1, t - 1) /\ SubSeq(old, t, Len(old)) = SubSeq(s, t, k - 1)
    BY <1>1, <1>5, <2>1
  <2>4. SubSeq(s, 1, t - 1) \in Seq(Msg) /\ SubSeq(s, t, k - 1) \in Seq(Msg)
    BY <1>1, <1>5
  <2>5. Prepared(s, k, t).summarized = SubSeq(s, 1, t - 1) /\ Prepared(s, k, t).prefix = SubSeq(s, t, k - 1)
    BY <1>5 DEF Prepared
  <2> QED BY <1>2, <1>3, <2>2, <2>3, <2>4, <2>5 DEF Complete
<1> QED BY <1>1, <1>4, <1>5

\* A compaction cuts behind the first message, at a place where the list can be cut,
\* and begins the turn it splits, if any, with a user's message.
LEMMA CompactionCuts ==
    ASSUME NEW s \in Seq(Msg), s # <<>>, WantedAfter(s) = {}, NEW b
    PROVE  \E k \in 2..(Len(s) + 1) : \E t \in 0..(k - 1) :
             /\ prepareCompaction(s, b) = Prepared(s, k, t)
             /\ Cut(s, k) /\ (t > 0 => s[t].role = "user")
<1> DEFINE k == FirstKept(s, b)
<1>1. Len(s) \in Nat /\ k \in 1..Len(s) /\ Cut(s, k)
  BY FirstKeptFacts
<1> HIDE DEF k
<1>2. CASE k = 1
  <2> DEFINE f == Forced(s)
             t == ForcedTurnStart(s, f)
  <2>1. Cut(s, f) /\ f \in 2..(Len(s) + 1)
    BY <1>1, ForcedFacts DEF Cut
  <2> HIDE DEF f
  <2>2. t \in 0..(f - 1) /\ (t > 0 => s[t].role = "user")
    <3>1. CASE f <= Len(s) /\ s[f].role = "assistant"
      <4>1. t = LastUserUpTo(s, f - 1) /\ f - 1 \in 0..Len(s)
        BY <1>1, <2>1, <3>1 DEF ForcedTurnStart
      <4> QED BY <4>1, LastUserFacts
    <3>2. CASE ~(f <= Len(s) /\ s[f].role = "assistant")
      <4>1. t = 0
        BY <3>2 DEF ForcedTurnStart
      <4> QED BY <1>1, <2>1, <4>1
    <3> QED BY <3>1, <3>2
  <2>3. prepareCompaction(s, b) = Prepared(s, f, t)
    BY <1>2 DEF prepareCompaction, k, f
  <2> HIDE DEF t
  <2> QED BY <2>1, <2>2, <2>3
<1>3. CASE k # 1
  <2> DEFINE t == TurnStart(s, k)
  <2>1. t \in 0..(k - 1) /\ (t > 0 => s[t].role = "user")
    <3>1. CASE s[k].role = "user"
      <4>1. t = 0
        BY <1>1, <3>1 DEF TurnStart
      <4> QED BY <1>1, <4>1
    <3>2. CASE s[k].role # "user"
      <4>1. t = LastUserUpTo(s, k) /\ k \in 0..Len(s)
        BY <1>1, <3>2 DEF TurnStart
      <4>2. t \in 0..k /\ (t > 0 => s[t].role = "user")
        BY <4>1, LastUserFacts
      <4>3. t # k
        BY <1>1, <3>2, <4>2
      <4> QED BY <1>1, <4>2, <4>3
    <3> QED BY <3>1, <3>2
  <2>2. prepareCompaction(s, b) = Prepared(s, k, t)
    BY <1>3 DEF prepareCompaction, k
  <2> HIDE DEF t
  <2> QED BY <1>1, <1>3, <2>1, <2>2
<1> QED BY <1>2, <1>3

\* Whatever the budget, the pieces of a compaction are complete tool turns.
THEOREM PiecesAreComplete ==
    ASSUME NEW s \in Seq(Msg), s # <<>>, WantedAfter(s) = {}, NEW b
    PROVE  Complete(prepareCompaction(s, b))
<1>1. PICK k \in 2..(Len(s) + 1) : \E t \in 0..(k - 1) :
         /\ prepareCompaction(s, b) = Prepared(s, k, t)
         /\ Cut(s, k) /\ (t > 0 => s[t].role = "user")
  BY CompactionCuts
<1> QED BY <1>1, PreparedIsComplete

-----------------------------------------------------------------------------
(* The requests of a turn are paired.                                        *)

Places == {"idle", "head", "auto", "ask", "tools", "command"}

\* The log and the list in memory, and what the list still wants: nothing before
\* a request, the running calls while tools run; it can be compacted while its
\* summary is made.
PInv ==
  /\ entries \in Seq(EntryRec) /\ leaf \in Nat
  /\ live \in Seq(Msg) /\ turn \in Places /\ open \in SUBSET {1, 2}
  /\ turn \in {"head", "auto", "ask"} => WantedAfter(live) = {}
  /\ turn = "tools" => open # {} /\ WantedAfter(live) = open
  /\ turn \in {"auto", "command"} => CanCompact(live)

\* What is left to compact is a list of messages.
LEMMA UncompactedType ==
    ASSUME NEW s \in Seq(Msg)
    PROVE  Uncompacted(s) \in Seq(Msg)
BY DEF Uncompacted, Inline

\* A summary is a user's message.
LEMMA SummaryType ==
    ASSUME NEW i \in SUBSET Nat
    PROVE  /\ Summary(i) \in Msg /\ Summary(i).role = "user" /\ Summary(i).calls = {}
           /\ Summary(i).ids = i
<1> DEFINE m == Spoken("user", {}, 0, i)
<1>1. m \in Msg /\ m.role = "user" /\ m.calls = {} /\ m.ids = i
  BY SpokenType DEF Roles
<1> HIDE DEF m
<1>2. ASSUME NEW d \in BOOLEAN
      PROVE  /\ [m EXCEPT !.summary = d] \in Msg /\ [m EXCEPT !.summary = d].role = "user"
             /\ [m EXCEPT !.summary = d].calls = {} /\ [m EXCEPT !.summary = d].ids = i
  BY <1>1 DEF Msg
<1>3. TRUE \in BOOLEAN /\ Summary(i) = [m EXCEPT !.summary = TRUE]
  BY Zenon DEF Summary, m
<1> QED BY <1>2, <1>3, Zenon

\* The summary before it stands for entries of the log.
LEMMA PreviousType ==
    ASSUME NEW b \in Seq(EntryRec), NEW s \in Seq(Msg)
    PROVE  previousSummary(b, s) \in SUBSET Nat
<1>1. \A e \in EntryRec : e.message.ids \in SUBSET Nat
  BY DEF EntryRec, Msg
<1>2. CASE Marks(b) # {}
  <2>1. Len(b) \in Nat /\ Marks(b) \in SUBSET (0..Len(b)) /\ Marks(b) \in SUBSET (1..Len(b))
    BY DEF Marks
  <2>2. Max(Marks(b)) \in 1..Len(b)
    BY <1>2, <2>1, MaxFacts
  <2>3. b[Max(Marks(b))] \in EntryRec
    BY <2>2
  <2> QED BY <1>1, <1>2, <2>3 DEF previousSummary
<1>3. CASE Marks(b) = {} /\ Inline(s)
  <2>1. s[1] \in Msg
    BY <1>3 DEF Inline
  <2> QED BY <1>3, <2>1 DEF previousSummary, Msg
<1>4. CASE Marks(b) = {} /\ ~Inline(s)
  BY <1>4 DEF previousSummary
<1> QED BY <1>2, <1>3, <1>4

\* The checkpoint of a compaction: a summary, and a tail that is paired.
LEMMA CheckpointFacts ==
    ASSUME NEW b \in Seq(EntryRec), NEW s \in Seq(Msg), CanCompact(s), NEW k
    PROVE  /\ SummaryOf(b, s, k) \in Msg /\ SummaryOf(b, s, k).role = "user"
           /\ SummaryOf(b, s, k).calls = {}
           /\ RetainedTail(s, k) \in Seq(Msg) /\ WantedAfter(RetainedTail(s, k)) = {}
<1> DEFINE u == Uncompacted(s)
           p == prepareCompaction(u, k)
           i == previousSummary(b, s) \cup IdsStoodFor(p.summarized) \cup IdsStoodFor(p.prefix)
<1>1. u \in Seq(Msg) /\ u # <<>> /\ WantedAfter(u) = {}
  BY UncompactedType DEF CanCompact, Cuttable, WellPaired
<1>2. Complete(p)
  <2> HIDE DEF u
  <2> QED BY <1>1, PiecesAreComplete
<1>3. SummaryOf(b, s, k) = Summary(i) /\ RetainedTail(s, k) = p.tail
  BY DEF SummaryOf, RetainedTail
<1> HIDE DEF p
<1>4. i \in SUBSET Nat
  <2>1. IdsStoodFor(p.summarized) \in SUBSET Nat /\ IdsStoodFor(p.prefix) \in SUBSET Nat
    BY <1>2, IdsType DEF Complete
  <2>2. previousSummary(b, s) \in SUBSET Nat
    BY PreviousType
  <2> QED BY <2>1, <2>2
<1> HIDE DEF i
<1> QED BY <1>2, <1>3, <1>4, SummaryType DEF Complete

\* The next id is a number.
LEMMA IdType ==
    ASSUME entries \in Seq(EntryRec)
    PROVE  Id \in Nat \ {0}
<1>1. CASE entries = <<>>
  BY <1>1 DEF Id
<1>2. CASE entries # <<>>
  <2>1. Last(entries) \in EntryRec
    BY <1>2 DEF Last
  <2> QED BY <1>2, <2>1 DEF Id, EntryRec
<1> QED BY <1>1, <1>2

\* An entry has the fields it was given.
LEMMA EntryType ==
    ASSUME entries \in Seq(EntryRec), leaf \in Nat, NEW k \in Kinds, NEW m \in Msg,
           NEW t \in SUBSET Seq(Msg), NEW u \in BOOLEAN
    PROVE  /\ Entry(k, m, t, u) \in EntryRec /\ Entry(k, m, t, u).id = Id
           /\ Entry(k, m, t, u).parent = leaf /\ Entry(k, m, t, u).kind = k
           /\ Entry(k, m, t, u).message = m /\ Entry(k, m, t, u).tail = t
BY IdType DEF Entry, EntryRec

\* The log stays a log when an entry is added.
LEMMA LogType ==
    ASSUME entries \in Seq(EntryRec), NEW e \in EntryRec, Log(e)
    PROVE  entries' \in Seq(EntryRec) /\ leaf' \in Nat
BY DEF Log, EntryRec

\* While more than one call runs, one is left when a result comes.
LEMMA OpenCalls ==
    ASSUME open \in SUBSET {1, 2}, NEW n \in open
    PROVE  Cardinality(open) > 1 <=> open \ {n} # {}
<1>1. Cardinality({1}) = 1 /\ Cardinality({2}) = 1 /\ Cardinality({1, 2}) = 2
  <2>1. Cardinality({1}) = 1 /\ Cardinality({2}) = 1 /\ IsFiniteSet({1})
    BY FS_Singleton
  <2>2. Cardinality({1} \cup {2}) = Cardinality({1}) + 1
    BY <2>1, FS_AddElement
  <2>3. {1} \cup {2} = {1, 2}
    OBVIOUS
  <2>4. \A S : Cardinality(S) = Cardinality(S)
    BY DEF Cardinality, Cardinality
  <2> QED BY <2>1, <2>2, <2>3, <2>4
<1>2. open = {1, 2} \/ open = {1} \/ open = {2}
  OBVIOUS
<1> QED BY <1>1, <1>2

\* One step of it.
LEMMA PairedStep == PInv /\ [TalkNext]_talkVars => PInv'
<1> SUFFICES ASSUME PInv, [TalkNext]_talkVars PROVE PInv'
  OBVIOUS
<1> USE DEF Places, Kinds
<1>0. /\ entries \in Seq(EntryRec) /\ leaf \in Nat /\ live \in Seq(Msg)
      /\ turn \in Places /\ open \in SUBSET {1, 2}
  BY DEF PInv
<1>a. Branch \in Seq(EntryRec) /\ Context \in Seq(Msg) /\ WantedAfter(Context) = {}
  BY <1>0, BranchIsSeq, ContextIsPaired DEF Branch, Context
<1>b. <<>> \in Seq(Msg) /\ Id \in Nat \ {0}
  BY <1>0, IdType
<1>c. CASE Submit
  <2> DEFINE m == Spoken("user", {}, 0, {Id})
             e == Entry("message", m, {}, FALSE)
  <2>1. m \in Msg
    BY <1>b, SpokenType DEF Roles
  <2>2. e \in EntryRec
    BY <1>0, <2>1, EntryType
  <2>3. entries' \in Seq(EntryRec) /\ leaf' \in Nat
    <3>1. Log(e)
      BY <1>c DEF Submit
    <3> HIDE DEF e
    <3> QED BY <1>0, <2>2, <3>1, LogType
  <2>4. turn' = "head" /\ live' = buildSessionContext(entries', leaf').messages /\ open' = open
    BY <1>c DEF Submit, Goto
  <2> QED BY <1>0, <2>3, <2>4, ContextIsPaired DEF PInv
<1>d. CASE MaybeCompact
  BY <1>d DEF MaybeCompact, PInv
<1>e. ASSUME turn \in {"auto", "command", "ask"}, CanCompact(live), Log(Checkpoint)
      PROVE  entries' \in Seq(EntryRec) /\ leaf' \in Nat
  <2>1. /\ SummaryOf(Branch, live, Keep) \in Msg
        /\ {RetainedTail(live, Keep)} \in SUBSET Seq(Msg)
    BY <1>0, <1>a, <1>e, CheckpointFacts
  <2>2. Checkpoint \in EntryRec
    BY <1>0, <2>1, EntryType DEF Checkpoint
  <2> QED BY <1>0, <1>e, <2>2, LogType
<1>f. CASE EndCompaction
  <2>0. turn \in {"auto", "command"} /\ CanCompact(live) /\ open' = open
        /\ Resumes \in {"ask", "idle"} /\ (Resumes = "ask" => turn = "auto")
    BY <1>f DEF EndCompaction, PInv, Resumes
  <2>1. CASE leaf = base
    <3>1. Log(Checkpoint) /\ Goto(Resumes, buildSessionContext(entries', leaf').messages)
      BY <1>f, <2>1 DEF EndCompaction
    <3>2. entries' \in Seq(EntryRec) /\ leaf' \in Nat
      BY <1>e, <2>0, <3>1
    <3>3. turn' = Resumes /\ live' \in Seq(Msg) /\ (turn' = "ask" => WantedAfter(live') = {})
      BY <1>b, <2>0, <3>1, <3>2, ContextIsPaired DEF Goto
    <3> QED BY <1>0, <2>0, <3>2, <3>3 DEF PInv
  <2>2. CASE leaf # base
    <3>1. UNCHANGED <<entries, leaf>> /\ Goto(Resumes, live)
      BY <1>f, <2>2 DEF EndCompaction
    <3>2. turn' = Resumes /\ live' \in Seq(Msg) /\ (turn' = "ask" => live' = live)
      BY <1>0, <1>b, <2>0, <3>1 DEF Goto
    <3> QED BY <1>0, <2>0, <3>1, <3>2 DEF PInv
  <2> QED BY <2>1, <2>2
<1>g. CASE FailCompaction
  <2>1. turn \in {"auto", "command"} /\ UNCHANGED <<entries, leaf, open>> /\ Goto(Resumes, live)
    BY <1>g DEF FailCompaction
  <2>2. /\ turn' = Resumes /\ live' \in Seq(Msg) /\ (turn' = "ask" => turn = "auto" /\ live' = live)
        /\ Resumes \in {"ask", "idle"}
    BY <1>0, <1>b, <2>1 DEF Goto, Resumes
  <2> QED BY <1>0, <2>1, <2>2 DEF PInv
<1>h. CASE Overflow
  <2>1. turn = "ask" /\ CanCompact(live) /\ Log(Checkpoint) /\ open' = open
        /\ turn' = "head" /\ live' = buildSessionContext(entries', leaf').messages
    BY <1>h DEF Overflow, Goto
  <2>2. entries' \in Seq(EntryRec) /\ leaf' \in Nat
    BY <1>e, <2>1
  <2> QED BY <1>0, <2>1, <2>2, ContextIsPaired DEF PInv
<1>i. ASSUME NEW role \in Roles, NEW c \in SUBSET (Nat \ {0}), NEW a \in Nat, NEW u \in BOOLEAN,
             NEW places, Speak(role, c, a, u, places)
      PROVE  /\ entries' \in Seq(EntryRec) /\ leaf' \in Nat /\ live' \in Seq(Msg) /\ turn' \in places
             /\ turn' # "idle" =>
                  WantedAfter(live') = StillWanted(WantedAfter(live), Spoken(role, c, a, {Id}))
  <2> DEFINE m == Spoken(role, c, a, {Id})
             e == Entry("message", m, {}, u)
  <2>1. m \in Msg
    BY <1>b, SpokenType
  <2>2. e \in EntryRec
    <3> HIDE DEF m
    <3> QED BY <1>0, <2>1, EntryType
  <2>3. Log(e) /\ \E place \in places : Goto(place, Append(live, m))
    BY <1>i DEF Speak
  <2> HIDE DEF m, e
  <2>4. entries' \in Seq(EntryRec) /\ leaf' \in Nat
    BY <1>0, <2>2, <2>3, LogType
  <2>5. Append(live, m) \in Seq(Msg) /\ WantedAfter(Append(live, m)) = StillWanted(WantedAfter(live), m)
    BY <1>0, <2>1, WantedFacts
  <2>6. turn' \in places /\ live' = IF turn' = "idle" THEN <<>> ELSE Append(live, m)
    BY <2>3 DEF Goto
  <2> QED BY <1>b, <2>4, <2>5, <2>6 DEF m
<1>j. CASE TakeAnswer
  <2>1. PICK c \in {{}, {1, 2}}, u \in BOOLEAN :
          /\ Speak("assistant", c, 0, u, {IF c = {} THEN "idle" ELSE "tools"}) /\ open' = c
    BY <1>j DEF TakeAnswer
  <2>2. WantedAfter(live) = {}
    BY <1>j DEF TakeAnswer, PInv
  <2>3. c \in SUBSET (Nat \ {0}) /\ c \in SUBSET {1, 2} /\ "assistant" \in Roles
    BY DEF Roles
  <2>4. /\ entries' \in Seq(EntryRec) /\ leaf' \in Nat /\ live' \in Seq(Msg)
        /\ turn' = IF c = {} THEN "idle" ELSE "tools"
        /\ turn' # "idle" =>
             WantedAfter(live') = StillWanted(WantedAfter(live), Spoken("assistant", c, 0, {Id}))
    <3> DEFINE places == {IF c = {} THEN "idle" ELSE "tools"}
    <3>1. Speak("assistant", c, 0, u, places) /\ 0 \in Nat /\ u \in BOOLEAN
      BY <2>1
    <3>2. \A x \in places : x = IF c = {} THEN "idle" ELSE "tools"
      OBVIOUS
    <3> HIDE DEF places
    <3>3. /\ entries' \in Seq(EntryRec) /\ leaf' \in Nat /\ live' \in Seq(Msg) /\ turn' \in places
          /\ turn' # "idle" =>
               WantedAfter(live') = StillWanted(WantedAfter(live), Spoken("assistant", c, 0, {Id}))
      BY <1>i, <2>3, <3>1, Zenon
    <3> QED BY <3>2, <3>3
  <2>5. StillWanted({}, Spoken("assistant", c, 0, {Id})) = c
    BY <1>b, <2>3, SpokenType DEF StillWanted
  <2>6. turn' = "tools" => open' # {} /\ WantedAfter(live') = open'
    BY <2>1, <2>2, <2>4, <2>5
  <2>7. turn' \in {"idle", "tools"}
    BY <2>4
  <2> QED BY <2>1, <2>3, <2>4, <2>6, <2>7 DEF PInv
<1>k. CASE Escape
  BY <1>b, <1>k DEF Escape, Goto, PInv
<1>l. CASE Result
  <2>1. /\ turn = "tools" /\ open # {} /\ WantedAfter(live) = open /\ open' = open \ {Min(open)}
        /\ Speak("tool", {}, Min(open), FALSE, IF Cardinality(open) > 1 THEN {"tools"} ELSE {"head", "idle"})
    BY <1>l DEF Result, PInv
  <2>2. Min(open) \in open /\ Min(open) \in Nat \ {0}
    <3>1. open \in SUBSET Nat
      BY <1>0
    <3>2. Min(open) \in open
      BY <2>1, <3>1, MinFacts
    <3>3. Min(open) \in {1, 2}
      BY <1>0, <3>2
    <3> QED BY <3>2, <3>3
  <2>3. Cardinality(open) > 1 <=> open' # {}
    BY <1>0, <2>1, <2>2, OpenCalls
  <2>4. /\ entries' \in Seq(EntryRec) /\ leaf' \in Nat /\ live' \in Seq(Msg)
        /\ turn' \in IF Cardinality(open) > 1 THEN {"tools"} ELSE {"head", "idle"}
        /\ turn' # "idle" =>
             WantedAfter(live') = StillWanted(WantedAfter(live), Spoken("tool", {}, Min(open), {Id}))
    <3>1. "tool" \in Roles /\ {} \in SUBSET (Nat \ {0}) /\ Min(open) \in Nat /\ FALSE \in BOOLEAN
      BY <2>2 DEF Roles
    <3> QED BY <1>i, <2>1, <3>1
  <2>5. StillWanted(open, Spoken("tool", {}, Min(open), {Id})) = open'
    <3>1. Spoken("tool", {}, Min(open), {Id}).role = "tool"
          /\ Spoken("tool", {}, Min(open), {Id}).answers = Min(open)
      BY <1>b, <2>2, SpokenType DEF Roles
    <3> QED BY <2>1, <2>2, <3>1 DEF StillWanted, Never
  <2>6. turn' # "idle" => WantedAfter(live') = open'
    BY <2>1, <2>4, <2>5
  <2>7. open' \in SUBSET {1, 2}
    BY <1>0, <2>1
  <2>8. turn' \in {"tools", "head", "idle"} /\ (turn' = "tools" => open' # {})
        /\ (turn' = "head" => open' = {})
    BY <2>3, <2>4
  <2> QED BY <2>4, <2>6, <2>7, <2>8 DEF PInv
<1>m. CASE TakeNote
  <2>1. Note \in Msg
    BY SpokenType DEF Note, Roles
  <2>2. Entry("model_change", Note, {}, FALSE) \in EntryRec
    BY <1>0, <2>1, EntryType
  <2>3. entries' \in Seq(EntryRec) /\ leaf' \in Nat
    BY <1>0, <1>m, <2>2, LogType DEF TakeNote
  <2>4. UNCHANGED <<live, turn, open>>
    BY <1>m DEF TakeNote
  <2> QED BY <2>3, <2>4 DEF PInv
<1>n. CASE Compact
  BY <1>0, <1>a, <1>n DEF Compact, Goto, PInv
<1>o. CASE Navigate
  <2>1. PICK id \in IdsIn(entries), position \in {"before", "after"} :
          LET target == BeforeOrAt(id, position)
          IN \/ leaf' = target /\ UNCHANGED entries
             \/ /\ leaf' = Id
                /\ entries' = Append(entries, [Entry("branch_summary", Spoken("user", {}, 0, {Id}), {}, FALSE)
                                                 EXCEPT !.parent = target])
    BY <1>o DEF Navigate
  <2>2. BeforeOrAt(id, position) \in Nat
    BY <1>0, EntryOfFacts DEF BeforeOrAt, EntryRec
  <2>3. Spoken("user", {}, 0, {Id}) \in Msg
    BY <1>b, SpokenType DEF Roles
  <2>4. Entry("branch_summary", Spoken("user", {}, 0, {Id}), {}, FALSE) \in EntryRec
    BY <1>0, <2>3, EntryType
  <2>5. \A e \in EntryRec, n \in Nat : [e EXCEPT !.parent = n] \in EntryRec
    BY DEF EntryRec
  <2> DEFINE target == BeforeOrAt(id, position)
             e == Entry("branch_summary", Spoken("user", {}, 0, {Id}), {}, FALSE)
             f == [e EXCEPT !.parent = target]
  <2>6. entries' \in Seq(EntryRec) /\ leaf' \in Nat
    <3>1. f \in EntryRec
      <4>1. e \in EntryRec /\ target \in Nat
        BY <2>2, <2>4
      <4> HIDE DEF e, target
      <4> QED BY <2>5, <4>1
    <3>2. (leaf' = target /\ entries' = entries) \/ (leaf' = Id /\ entries' = Append(entries, f))
      BY <2>1
    <3>3. target \in Nat
      BY <2>2
    <3> HIDE DEF f, target
    <3>4. Append(entries, f) \in Seq(EntryRec)
      BY <1>0, <3>1
    <3>5. leaf' \in Nat
      BY <1>b, <3>2, <3>3
    <3> QED BY <1>0, <3>2, <3>4, <3>5
  <2>7. UNCHANGED <<live, turn, open>>
    BY <1>o DEF Navigate
  <2> QED BY <2>6, <2>7 DEF PInv
<1>p. CASE Fork
  <2>1. PICK id \in IdsIn(entries), position \in {"before", "after"} :
          entries' = createBranchedSession(entries, id, position) /\ leaf' = LeafAfterOpen(entries')
    BY <1>p DEF Fork
  <2>2. entries' \in Seq(EntryRec)
    <3> DEFINE target == IF position = "before" THEN EntryOf(entries, id).parent ELSE id
    <3>1. target \in Nat
      BY <1>0, EntryOfFacts DEF EntryRec
    <3>2. getBranch(entries, target) \in Seq(EntryRec)
      <4> HIDE DEF target
      <4> QED BY <1>0, <3>1, BranchIsSeq
    <3> QED BY <2>1, <3>2 DEF createBranchedSession
  <2>3. leaf' \in Nat
    <3>1. CASE entries' = <<>>
      BY <2>1, <3>1 DEF LeafAfterOpen, NoParent
    <3>2. CASE entries' # <<>>
      <4>1. Last(entries') \in EntryRec
        BY <2>2, <3>2 DEF Last
      <4> QED BY <2>1, <3>2, <4>1 DEF LeafAfterOpen, EntryRec
    <3> QED BY <3>1, <3>2
  <2>4. UNCHANGED <<live, turn, open>>
    BY <1>p DEF Fork
  <2> QED BY <2>2, <2>3, <2>4 DEF PInv
<1>q. CASE Restart
  BY <1>b, <1>q DEF Restart, Goto, PInv
<1>r. CASE UNCHANGED talkVars
  BY <1>r DEF talkVars, PInv
<1> QED BY <1>c, <1>d, <1>f, <1>g, <1>h, <1>j, <1>k, <1>l, <1>m, <1>n, <1>o, <1>p, <1>q, <1>r DEF TalkNext

\* Whatever was logged, summarised, left or cut: a request of a turn has every
\* tool call answered, once and in its place (session-manager.ts:229-303).
THEOREM TurnsArePaired == TalkSpec => []RequestsPaired
<1>1. TalkInit => PInv
  BY DEF TalkInit, PInv, Places, NoParent
<1>2. PInv => RequestsPaired
  BY DEF PInv, RequestsPaired, WellPaired
<1> QED BY <1>1, <1>2, PairedStep, PTL DEF TalkSpec

-----------------------------------------------------------------------------
(* The tree: how the branches of a log that grows are related.               *)

\* Ids grow along the log, and a parent is logged before its children.
Grown(es) ==
  /\ \A i, j \in 1..Len(es) : i < j => es[i].id < es[j].id
  /\ \A i \in 1..Len(es) : es[i].parent = NoParent \/ \E j \in 1..(i - 1) : es[j].id = es[i].parent

Known(es) == IdsIn(es) \cup {NoParent}

\* The ids of a log.
LEMMA IdsFacts ==
    ASSUME NEW es \in Seq(EntryRec)
    PROVE  /\ IdsIn(es) = {es[i].id : i \in 1..Len(es)}
           /\ IdsIn(es) \in SUBSET (Nat \ {0}) /\ NoParent \notin IdsIn(es)
<1>1. ToSet(es) = {es[i] : i \in 1..Len(es)} /\ \A i \in 1..Len(es) : es[i] \in EntryRec
  BY DEF ToSet
<1>2. IdsIn(es) = {es[i].id : i \in 1..Len(es)}
  BY <1>1 DEF IdsIn
<1>3. \A e \in EntryRec : e.id \in Nat \ {0}
  BY DEF EntryRec
<1> QED BY <1>1, <1>2, <1>3 DEF NoParent

\* In a log whose ids grow, an id finds its own entry.
LEMMA EntryOfIs ==
    ASSUME NEW es \in Seq(EntryRec), Grown(es), NEW i \in 1..Len(es)
    PROVE  EntryOf(es, es[i].id) = es[i] /\ es[i].id \in IdsIn(es)
<1>1. es[i].id \in IdsIn(es)
  BY IdsFacts
<1>2. EntryOf(es, es[i].id) \in ToSet(es) /\ EntryOf(es, es[i].id).id = es[i].id
  BY <1>1, EntryOfFacts
<1>3. PICK j \in 1..Len(es) : EntryOf(es, es[i].id) = es[j]
  BY <1>2 DEF ToSet
<1>4. es[i] \in EntryRec /\ es[j] \in EntryRec /\ i \in Nat /\ j \in Nat
  OBVIOUS
<1>5. es[i].id \in Nat /\ es[j].id \in Nat
  BY <1>4 DEF EntryRec
<1>6. i = j
  BY <1>2, <1>3, <1>4, <1>5 DEF Grown
<1> QED BY <1>1, <1>3, <1>6

\* The way back ends before the first entry.
LEMMA AncestryEnds ==
    ASSUME NEW es \in Seq(EntryRec), Grown(es), NEW id \in Known(es)
    PROVE  id \in Nat /\ Ancestry(es, id)[1] = NoParent
<1>1. Len(es) \in Nat /\ id \in Nat
  BY IdsFacts DEF Known, NoParent
<1>2. PICK g : /\ Ancestry(es, id) = g[Len(es)] /\ g[0] = <<id>>
               /\ \A n \in 1..Len(es) : g[n] = Back(es, g[n - 1])
               /\ \A n \in 0..Len(es) : g[n] \in Paths(es, id)
  BY <1>1, AncestryRun
<1> DEFINE At(n) == g[n][1] = NoParent \/ \E i \in 1..(Len(es) - n) : es[i].id = g[n][1]
           T == {n \in Nat : n <= Len(es) => At(n)}
<1>3. At(0)
  <2>1. g[0][1] = id
    BY <1>2
  <2>2. id = NoParent \/ \E i \in 1..Len(es) : es[i].id = id
    BY IdsFacts DEF Known
  <2>3. Len(es) - 0 = Len(es)
    BY <1>1
  <2> QED BY <2>1, <2>2, <2>3
<1>4. ASSUME NEW n \in Nat, n + 1 <= Len(es), At(n) PROVE At(n + 1)
  <2>1. n + 1 \in 1..Len(es) /\ n \in 0..Len(es) /\ (n + 1) - 1 = n
    BY <1>1, <1>4
  <2>2. g[n + 1] = Back(es, g[n]) /\ g[n] \in Seq(Nat)
    BY <1>2, <2>1 DEF Paths
  <2>3. CASE g[n][1] = NoParent
    <3>1. g[n + 1] = g[n]
      BY <2>2, <2>3, IdsFacts DEF Back
    <3> QED BY <2>3, <3>1
  <2>4. CASE g[n][1] # NoParent
    <3>1. PICK i \in 1..(Len(es) - n) : es[i].id = g[n][1]
      BY <1>4, <2>4
    <3>2. i \in 1..Len(es)
      BY <1>1, <3>1
    <3>3. g[n + 1] = <<es[i].parent>> \o g[n]
      BY <2>2, <3>1, <3>2, EntryOfIs DEF Back
    <3>4. g[n + 1][1] = es[i].parent
      <4>1. es[i] \in EntryRec
        BY <3>2
      <4>2. es[i].parent \in Nat
        BY <4>1 DEF EntryRec
      <4>3. \A a \in Nat, s \in Seq(Nat) : (<<a>> \o s)[1] = a
        OBVIOUS
      <4> QED BY <2>2, <3>3, <4>2, <4>3
    <3>5. es[i].parent = NoParent \/ \E j \in 1..(i - 1) : es[j].id = es[i].parent
      BY <3>2 DEF Grown
    <3>6. \A j \in 1..(i - 1) : j \in 1..(Len(es) - (n + 1))
      BY <1>1, <1>4, <3>1
    <3> QED BY <3>4, <3>5, <3>6
  <2> QED BY <2>3, <2>4
<1> HIDE DEF At
<1>5. 0 \in T /\ \A n \in T : n + 1 \in T
  BY <1>1, <1>3, <1>4
<1>6. T = Nat
  <2>1. T \in SUBSET Nat
    OBVIOUS
  <2> HIDE DEF T
  <2> QED BY <1>5, <2>1, Induction
<1>7. At(Len(es))
  BY <1>1, <1>6
<1>8. g[Len(es)][1] = NoParent
  BY <1>1, <1>7 DEF At
<1> QED BY <1>1, <1>2, <1>8

\* Two full paths to the same id are equal when the entries on one are those of
\* the other's log.
LEMMA PathsAgree ==
    ASSUME NEW es \in Seq(EntryRec), NEW fs \in Seq(EntryRec), NEW id \in Nat,
           NEW p \in Paths(es, id), NEW q \in Paths(fs, id), p[1] = NoParent, q[1] = NoParent,
           \A i \in 2..Len(p) : EntryOf(fs, p[i]).parent = EntryOf(es, p[i]).parent
    PROVE  p = q
<1> DEFINE P == Len(p)
           Q == Len(q)
           T == {n \in Nat : n < P /\ n < Q => p[P - n] = q[Q - n]}
<1>1. /\ p \in Seq(Nat) /\ q \in Seq(Nat) /\ P \in Nat \ {0} /\ Q \in Nat \ {0}
      /\ p[P] = id /\ q[Q] = id
      /\ \A i \in 2..P : p[i] \in IdsIn(es) /\ p[i - 1] = EntryOf(es, p[i]).parent
      /\ \A i \in 2..Q : q[i] \in IdsIn(fs) /\ q[i - 1] = EntryOf(fs, q[i]).parent
  BY DEF Paths
<1>2. NoParent \notin IdsIn(es) /\ NoParent \notin IdsIn(fs)
  BY IdsFacts
<1> HIDE DEF P, Q
<1>3. 0 \in T
  BY <1>1
<1>4. ASSUME NEW n \in T, n + 1 < P, n + 1 < Q PROVE p[P - (n + 1)] = q[Q - (n + 1)]
  <2>1. p[P - n] = q[Q - n] /\ P - n \in 2..P /\ Q - n \in 2..Q
        /\ P - (n + 1) = (P - n) - 1 /\ Q - (n + 1) = (Q - n) - 1
    BY <1>1, <1>4
  <2>2. EntryOf(fs, p[P - n]).parent = EntryOf(es, p[P - n]).parent
    BY <2>1 DEF P
  <2> QED BY <1>1, <2>1, <2>2
<1>5. \A n \in T : n + 1 \in T
  BY <1>1, <1>4
<1>6. T = Nat
  <2>1. T \in SUBSET Nat
    OBVIOUS
  <2> HIDE DEF T
  <2> QED BY <1>3, <1>5, <2>1, Induction
<1>7. \A n \in Nat : n < P /\ n < Q => p[P - n] = q[Q - n]
  <2>1. \A n \in T : n < P /\ n < Q => p[P - n] = q[Q - n]
    OBVIOUS
  <2> HIDE DEF T
  <2> QED BY <1>6, <2>1
<1>8. ~(P < Q)
  <2> SUFFICES ASSUME P < Q PROVE FALSE
    OBVIOUS
  <2>1. P - 1 \in Nat /\ P - 1 < P /\ P - 1 < Q /\ P - (P - 1) = 1 /\ Q - (P - 1) \in 2..Q
    BY <1>1
  <2>2. p[1] = q[Q - (P - 1)]
    BY <1>7, <2>1
  <2> QED BY <1>1, <1>2, <2>1, <2>2
<1>9. ~(Q < P)
  <2> SUFFICES ASSUME Q < P PROVE FALSE
    OBVIOUS
  <2>1. Q - 1 \in Nat /\ Q - 1 < P /\ Q - 1 < Q /\ Q - (Q - 1) = 1 /\ P - (Q - 1) \in 2..P
    BY <1>1
  <2>2. q[1] = p[P - (Q - 1)]
    BY <1>7, <2>1
  <2> QED BY <1>1, <1>2, <2>1, <2>2
<1>10. P = Q
  BY <1>1, <1>8, <1>9
<1>11. ASSUME NEW i \in 1..P PROVE p[i] = q[i]
  <2>1. P - i \in Nat /\ P - i < P /\ P - (P - i) = i
    BY <1>1
  <2> QED BY <1>7, <1>10, <2>1
<1>12. Len(p) = Len(q) /\ \A i \in 1..Len(p) : p[i] = q[i]
  BY <1>10, <1>11 DEF P, Q
<1>13. p \in Seq(Nat) /\ q \in Seq(Nat)
  BY <1>1
<1> QED BY <1>12, <1>13, SeqEqual
\* A branch b and the ids p it was found along.
Shape(es, id, p, b) ==
  /\ id \in Nat /\ p \in Paths(es, id) /\ p \in Seq(Nat) /\ p[1] = NoParent
  /\ Len(p) \in Nat \ {0} /\ p[Len(p)] = id
  /\ b \in Seq(EntryRec) /\ Len(b) = Len(p) - 1 /\ Len(b) \in Nat
  /\ \A i \in 1..Len(b) : /\ p[i + 1] \in IdsIn(es) /\ b[i] = EntryOf(es, p[i + 1])
                          /\ b[i] \in EntryRec /\ b[i].id = p[i + 1] /\ b[i].parent = p[i]

\* The branch of a place of the tree has this shape.
LEMMA BranchFacts ==
    ASSUME NEW es \in Seq(EntryRec), Grown(es), NEW id \in Known(es)
    PROVE  Shape(es, id, Ancestry(es, id), getBranch(es, id))
<1> DEFINE p == Ancestry(es, id)
           b == getBranch(es, id)
<1>1. id \in Nat /\ p[1] = NoParent
  BY AncestryEnds
<1>2. p \in Paths(es, id)
  BY <1>1, AncestryType
<1>3. /\ b \in Seq(EntryRec) /\ Len(p) \in Nat \ {0} /\ Len(b) = Len(p) - 1 /\ Len(b) \in Nat
      /\ \A i \in 1..(Len(p) - 1) : b[i] = EntryOf(es, p[i + 1]) /\ p[i + 1] \in IdsIn(es)
  <2>1. /\ b \in Seq(EntryRec) /\ Len(p) \in Nat \ {0} /\ Len(b) = Len(p) - 1
        /\ \A i \in 1..(Len(p) - 1) : b[i] = EntryOf(es, p[i + 1]) /\ p[i + 1] \in IdsIn(es)
    BY <1>1, BranchType
  <2> HIDE DEF p, b
  <2> QED BY <2>1
<1>4. ASSUME NEW i \in 1..Len(b)
      PROVE  /\ p[i + 1] \in IdsIn(es) /\ b[i] = EntryOf(es, p[i + 1])
             /\ b[i] \in EntryRec /\ b[i].id = p[i + 1] /\ b[i].parent = p[i]
  <2>1. p[i + 1] \in IdsIn(es) /\ b[i] = EntryOf(es, p[i + 1]) /\ i + 1 \in 2..Len(p) /\ (i + 1) - 1 = i
    BY <1>3
  <2>2. b[i] \in EntryRec /\ b[i].id = p[i + 1]
    BY <2>1, EntryOfFacts
  <2>3. p[i] = EntryOf(es, p[i + 1]).parent
    BY <1>2, <2>1 DEF Paths
  <2> QED BY <2>1, <2>2, <2>3
<1>5. p \in Seq(Nat) /\ p[Len(p)] = id
  BY <1>2 DEF Paths
<1> HIDE DEF p, b
<1>6. Shape(es, id, p, b)
  BY <1>1, <1>2, <1>3, <1>4, <1>5 DEF Shape
<1> QED BY <1>6 DEF p, b

\* The branch ends with the entry it is the branch of.
LEMMA BranchEnds ==
    ASSUME NEW es \in Seq(EntryRec), Grown(es), NEW id \in Known(es)
    PROVE  /\ id = NoParent => getBranch(es, id) = <<>>
           /\ id # NoParent => /\ getBranch(es, id) # <<>>
                               /\ Last(getBranch(es, id)).id = id
<1> DEFINE p == Ancestry(es, id)
           b == getBranch(es, id)
<1>1. /\ p[1] = NoParent /\ Len(p) \in Nat \ {0} /\ p[Len(p)] = id
      /\ b \in Seq(EntryRec) /\ Len(b) = Len(p) - 1
      /\ \A i \in 1..Len(b) : p[i + 1] \in IdsIn(es) /\ b[i].id = p[i + 1]
  <2>1. Shape(es, id, p, b)
    BY BranchFacts
  <2> QED BY <2>1 DEF Shape
<1>2. NoParent \notin IdsIn(es)
  BY IdsFacts
<1> HIDE DEF p, b
<1>3. ASSUME Len(b) > 0 PROVE b # <<>> /\ Last(b).id = id /\ id \in IdsIn(es)
  <2>1. Len(b) \in 1..Len(b) /\ Len(b) + 1 = Len(p)
    BY <1>1, <1>3
  <2> QED BY <1>1, <1>3, <2>1 DEF Last
<1>4. ASSUME Len(b) = 0 PROVE b = <<>> /\ id = NoParent
  <2>1. Len(p) = 1
    BY <1>1, <1>4
  <2>2. b = <<>>
    BY <1>1, <1>4
  <2> QED BY <1>1, <2>1, <2>2
<1>5. Len(b) = 0 \/ Len(b) > 0
  BY <1>1
<1> QED BY <1>2, <1>3, <1>4, <1>5 DEF b

\* A branch is a log itself: createBranchedSession copies it as it is.
LEMMA BranchGrown ==
    ASSUME NEW es \in Seq(EntryRec), Grown(es), NEW id \in Known(es)
    PROVE  Grown(getBranch(es, id))
<1> DEFINE p == Ancestry(es, id)
           b == getBranch(es, id)
<1>1. /\ p[1] = NoParent /\ Len(p) \in Nat \ {0} /\ Len(b) = Len(p) - 1 /\ Len(b) \in Nat
      /\ \A i \in 1..Len(b) : /\ p[i + 1] \in IdsIn(es) /\ b[i] = EntryOf(es, p[i + 1])
                              /\ b[i] \in EntryRec /\ b[i].id = p[i + 1] /\ b[i].parent = p[i]
  <2>1. Shape(es, id, p, b)
    BY BranchFacts
  <2> QED BY <2>1 DEF Shape
<1> HIDE DEF p, b
<1>2. \A i \in 1..Len(b) : b[i].id \in Nat \ {0}
  <2>1. \A e \in EntryRec : e.id \in Nat \ {0}
    BY DEF EntryRec
  <2> QED BY <1>1, <2>1
<1>3. ASSUME NEW i \in 1..Len(b), i + 1 <= Len(b) PROVE b[i].id < b[i + 1].id
  <2>1. i + 1 \in 1..Len(b) /\ b[i + 1].parent = b[i].id /\ b[i].id # NoParent
    BY <1>1, <1>2, <1>3 DEF NoParent
  <2>2. b[i + 1] \in ToSet(es)
    BY <1>1, <2>1, EntryOfFacts
  <2>3. PICK k \in 1..Len(es) : b[i + 1] = es[k]
    BY <2>2 DEF ToSet
  <2>4. PICK j \in 1..(k - 1) : es[j].id = es[k].parent
    BY <2>1, <2>3 DEF Grown
  <2>5. j \in 1..Len(es) /\ j < k
    <3>1. Len(es) \in Nat
      OBVIOUS
    <3> QED BY <3>1
  <2>6. es[j].id < es[k].id
    BY <2>5 DEF Grown
  <2> QED BY <2>1, <2>3, <2>4, <2>6
<1>4. ASSUME NEW i \in 1..Len(b), NEW j \in 1..Len(b), i < j PROVE b[i].id < b[j].id
  <2> DEFINE T == {n \in Nat : i + 1 + n <= Len(b) => b[i].id < b[i + 1 + n].id}
  <2>1. 0 \in T
    <3>1. i + 1 + 0 = i + 1
      OBVIOUS
    <3> QED BY <1>3, <3>1
  <2>2. ASSUME NEW n \in T, i + 1 + (n + 1) <= Len(b) PROVE b[i].id < b[i + 1 + (n + 1)].id
    <3>1. i + 1 + n \in 1..Len(b) /\ i + 1 + (n + 1) = (i + 1 + n) + 1 /\ (i + 1 + n) + 1 \in 1..Len(b)
      BY <1>1, <2>2
    <3>2. b[i].id < b[i + 1 + n].id
      BY <1>1, <2>2
    <3>3. b[i + 1 + n].id < b[(i + 1 + n) + 1].id
      BY <1>3, <3>1
    <3>4. b[i].id \in Nat /\ b[i + 1 + n].id \in Nat /\ b[(i + 1 + n) + 1].id \in Nat
      BY <1>2, <3>1
    <3>5. b[i].id < b[(i + 1 + n) + 1].id
      <4>1. \A u, v, w \in Nat : u < v /\ v < w => u < w
        OBVIOUS
      <4> QED BY <3>2, <3>3, <3>4, <4>1, Zenon
    <3> QED BY <3>1, <3>5
  <2>3. T = Nat
    <3>1. T \in SUBSET Nat
      OBVIOUS
    <3>2. ASSUME NEW n \in T PROVE n + 1 \in T
      <4>1. n + 1 \in Nat /\ (i + 1 + (n + 1) <= Len(b) => b[i].id < b[i + 1 + (n + 1)].id)
        BY <2>2
      <4> QED BY <4>1
    <3> HIDE DEF T
    <3> QED BY <2>1, <3>1, <3>2, Induction
  <2>4. j - (i + 1) \in T /\ i + 1 + (j - (i + 1)) = j
    <3>1. j - (i + 1) \in Nat /\ i + 1 + (j - (i + 1)) = j
      BY <1>1, <1>4
    <3> HIDE DEF T
    <3> QED BY <2>3, <3>1
  <2> QED BY <1>1, <2>4
<1>5. ASSUME NEW i \in 1..Len(b)
      PROVE  b[i].parent = NoParent \/ \E j \in 1..(i - 1) : b[j].id = b[i].parent
  <2>1. CASE i = 1
    BY <1>1, <2>1
  <2>2. CASE i # 1
    <3>1. i - 1 \in 1..Len(b) /\ (i - 1) + 1 = i /\ i - 1 \in 1..(i - 1)
      BY <1>1, <2>2
    <3>2. b[i - 1].id = b[i].parent
      BY <1>1, <3>1
    <3> QED BY <3>1, <3>2
  <2> QED BY <2>1, <2>2
<1>6. Grown(b)
  BY <1>4, <1>5 DEF Grown
<1> QED BY <1>6 DEF b

\* Two logs with the same entries on the way back have the same branch.
LEMMA SameBranch ==
    ASSUME NEW es \in Seq(EntryRec), Grown(es), NEW fs \in Seq(EntryRec), Grown(fs),
           NEW id, id \in Known(es), id \in Known(fs),
           \A i \in 1..Len(getBranch(es, id)) :
              EntryOf(fs, getBranch(es, id)[i].id) = getBranch(es, id)[i]
    PROVE  getBranch(fs, id) = getBranch(es, id)
<1> DEFINE p == Ancestry(es, id)
           q == Ancestry(fs, id)
           b == getBranch(es, id)
           c == getBranch(fs, id)
<1>1. /\ id \in Nat /\ p \in Paths(es, id) /\ p[1] = NoParent /\ Len(p) \in Nat \ {0}
      /\ b \in Seq(EntryRec) /\ Len(b) = Len(p) - 1
      /\ \A i \in 1..Len(b) : b[i] = EntryOf(es, p[i + 1]) /\ b[i].id = p[i + 1]
  <2>1. Shape(es, id, p, b)
    BY BranchFacts
  <2> QED BY <2>1 DEF Shape
<1>2. /\ q \in Paths(fs, id) /\ q[1] = NoParent
      /\ c \in Seq(EntryRec) /\ Len(c) = Len(q) - 1
      /\ \A i \in 1..Len(c) : c[i] = EntryOf(fs, q[i + 1])
  <2>1. Shape(fs, id, q, c)
    BY BranchFacts
  <2> QED BY <2>1 DEF Shape
<1>3. \A i \in 1..Len(b) : EntryOf(fs, b[i].id) = b[i]
  OBVIOUS
<1> HIDE DEF p, q, b, c
<1>4. ASSUME NEW i \in 2..Len(p) PROVE EntryOf(fs, p[i]).parent = EntryOf(es, p[i]).parent
  <2>1. i - 1 \in 1..Len(b) /\ (i - 1) + 1 = i
    BY <1>1
  <2>2. b[i - 1] = EntryOf(es, p[i]) /\ EntryOf(fs, p[i]) = b[i - 1]
    BY <1>1, <1>3, <2>1
  <2> QED BY <2>2
<1>5. p = q
  BY <1>1, <1>2, <1>4, PathsAgree
<1>6. Len(b) = Len(c) /\ \A i \in 1..Len(b) : b[i] = c[i]
  <2>1. Len(b) = Len(c)
    BY <1>1, <1>2, <1>5
  <2>2. ASSUME NEW i \in 1..Len(b) PROVE b[i] = c[i]
    BY <1>1, <1>2, <1>3, <1>5, <2>1
  <2> QED BY <2>1, <2>2
<1>7. b = c
  BY <1>1, <1>2, <1>6, SeqEqual
<1> QED BY <1>7 DEF b, c

\* The branch of an entry of a branch is the same in the copy.
LEMMA BranchOfBranch ==
    ASSUME NEW es \in Seq(EntryRec), Grown(es), NEW id \in Known(es),
           NEW x \in Known(getBranch(es, id))
    PROVE  x \in Known(es) /\ getBranch(getBranch(es, id), x) = getBranch(es, x)
<1> DEFINE p == Ancestry(es, id)
           b == getBranch(es, id)
<1>1. /\ id \in Nat /\ p \in Paths(es, id) /\ p \in Seq(Nat) /\ p[1] = NoParent /\ Len(p) \in Nat \ {0}
      /\ b \in Seq(EntryRec) /\ Len(b) = Len(p) - 1 /\ Len(b) \in Nat
      /\ \A i \in 1..Len(b) : p[i + 1] \in IdsIn(es) /\ b[i] = EntryOf(es, p[i + 1]) /\ b[i].id = p[i + 1]
  <2>1. Shape(es, id, p, b)
    BY BranchFacts
  <2> QED BY <2>1 DEF Shape
<1>2. Grown(b) /\ x \in Known(b)
  BY BranchGrown
<1> HIDE DEF p, b
<1>3. CASE x = NoParent
  <2>1. x \in Known(es)
    BY <1>3 DEF Known
  <2>2. getBranch(b, x) = <<>> /\ getBranch(es, x) = <<>>
    BY <1>1, <1>2, <1>3, <2>1, BranchEnds
  <2> QED BY <2>1, <2>2 DEF b
<1>4. CASE x # NoParent
  <2>1. PICK k \in 1..Len(b) : x = b[k].id
    BY <1>1, <1>2, <1>4, IdsFacts DEF Known
  <2>2. x = p[k + 1] /\ x \in IdsIn(es) /\ x \in Known(es) /\ k + 1 \in 1..Len(p)
    BY <1>1, <2>1 DEF Known
  <2> DEFINE r == Ancestry(es, x)
             c == getBranch(es, x)
  <2>3. /\ x \in Nat /\ r \in Paths(es, x) /\ r[1] = NoParent /\ Len(r) \in Nat \ {0}
        /\ c \in Seq(EntryRec) /\ Len(c) = Len(r) - 1
        /\ \A i \in 1..Len(c) : c[i] = EntryOf(es, r[i + 1]) /\ c[i].id = r[i + 1]
    <3>1. Shape(es, x, r, c)
      BY <2>2, BranchFacts
    <3> HIDE DEF r, c
    <3> QED BY <3>1 DEF Shape
  <2> DEFINE q == SubSeq(p, 1, k + 1)
  <2>4. q \in Seq(Nat) /\ Len(q) = k + 1 /\ \A i \in 1..(k + 1) : q[i] = p[i]
    BY <1>1, <2>2
  <2> HIDE DEF q, r, c
  <2>5. q \in Paths(es, x) /\ q[1] = NoParent
    <3>1. q # <<>> /\ q[Len(q)] = x /\ q[1] = NoParent
      BY <1>1, <2>2, <2>4
    <3>2. ASSUME NEW i \in 2..Len(q) PROVE q[i] \in IdsIn(es) /\ q[i - 1] = EntryOf(es, q[i]).parent
      <4>1. i \in 2..Len(p) /\ i \in 1..(k + 1) /\ i - 1 \in 1..(k + 1)
        BY <1>1, <2>2, <2>4
      <4>2. p[i] \in IdsIn(es) /\ p[i - 1] = EntryOf(es, p[i]).parent
        BY <1>1, <4>1 DEF Paths
      <4> QED BY <2>4, <4>1, <4>2
    <3> QED BY <2>4, <3>1, <3>2 DEF Paths
  <2>6. q = r
    BY <2>3, <2>5, PathsAgree
  <2>7. ASSUME NEW i \in 1..Len(c) PROVE EntryOf(b, c[i].id) = c[i]
    <3>1. i + 1 \in 1..(k + 1) /\ i \in 1..Len(b)
      BY <1>1, <2>3, <2>4, <2>6
    <3>2. c[i] = b[i]
      BY <1>1, <2>3, <2>4, <2>6, <3>1
    <3> QED BY <1>1, <1>2, <3>1, <3>2, EntryOfIs
  <2>8. getBranch(b, x) = getBranch(es, x)
    BY <1>1, <1>2, <2>2, <2>7, SameBranch DEF c
  <2> QED BY <2>2, <2>8 DEF b
<1> QED BY <1>3, <1>4
\* An entry is added: the branches there were stay what they are, and its own
\* branch is its parent's with the entry behind.
Continues(es, fs) == \A x \in Known(es) : getBranch(fs, x) = getBranch(es, x)

\* The facts of such an addition.
LEMMA AppendedEntry ==
    ASSUME NEW es \in Seq(EntryRec), Grown(es), NEW e \in EntryRec, e.parent \in Known(es),
           \A i \in 1..Len(es) : es[i].id < e.id,
           NEW fs, fs = Append(es, e)
    PROVE  /\ fs \in Seq(EntryRec) /\ Grown(fs) /\ IdsIn(fs) = IdsIn(es) \cup {e.id}
           /\ e.id \notin IdsIn(es)
           /\ Continues(es, fs)
           /\ getBranch(fs, e.id) = Append(getBranch(es, e.parent), e)
<1>1. /\ fs \in Seq(EntryRec) /\ Len(es) \in Nat /\ Len(fs) = Len(es) + 1 /\ fs[Len(es) + 1] = e
      /\ \A i \in 1..Len(es) : fs[i] = es[i]
  BY AppendProperties
<1>2. \A i \in 1..Len(fs) : i \in 1..Len(es) \/ i = Len(es) + 1
  BY <1>1
<1>3. IdsIn(es) = {es[i].id : i \in 1..Len(es)} /\ IdsIn(fs) = {fs[i].id : i \in 1..Len(fs)}
      /\ IdsIn(fs) \in SUBSET (Nat \ {0}) /\ NoParent \notin IdsIn(es) /\ NoParent \notin IdsIn(fs)
  BY <1>1, IdsFacts
<1>4. IdsIn(fs) = IdsIn(es) \cup {e.id}
  <2>1. ASSUME NEW x \in IdsIn(fs) PROVE x \in IdsIn(es) \cup {e.id}
    <3>1. PICK i \in 1..Len(fs) : x = fs[i].id
      BY <1>3
    <3> QED BY <1>1, <1>2, <1>3, <3>1
  <2>2. ASSUME NEW x \in IdsIn(es) PROVE x \in IdsIn(fs)
    <3>1. PICK i \in 1..Len(es) : x = es[i].id
      BY <1>3
    <3>2. i \in 1..Len(fs) /\ x = fs[i].id
      BY <1>1, <3>1
    <3> QED BY <1>3, <3>2
  <2>3. e.id \in IdsIn(fs)
    <3>1. Len(es) + 1 \in 1..Len(fs)
      BY <1>1
    <3> QED BY <1>1, <1>3, <3>1
  <2> QED BY <2>1, <2>2, <2>3
<1>5. e.id \notin IdsIn(es) /\ e.id # NoParent /\ e.parent # e.id
  <2>1. \A i \in 1..Len(es) : es[i].id \in Nat /\ e.id \in Nat
    <3>1. \A i \in 1..Len(es) : es[i] \in EntryRec
      OBVIOUS
    <3> QED BY <3>1 DEF EntryRec
  <2>2. e.id \notin IdsIn(es)
    BY <1>3, <2>1
  <2> QED BY <1>3, <1>4, <2>2 DEF Known
<1>6. Grown(fs)
  <2>1. ASSUME NEW i \in 1..Len(fs), NEW j \in 1..Len(fs), i < j PROVE fs[i].id < fs[j].id
    <3>1. i \in 1..Len(es) /\ fs[i] = es[i]
      BY <1>1, <2>1
    <3>2. CASE j \in 1..Len(es)
      BY <1>1, <2>1, <3>1, <3>2 DEF Grown
    <3>3. CASE j = Len(es) + 1
      BY <1>1, <3>1, <3>3
    <3> QED BY <1>2, <3>2, <3>3
  <2>2. ASSUME NEW i \in 1..Len(fs)
        PROVE  fs[i].parent = NoParent \/ \E j \in 1..(i - 1) : fs[j].id = fs[i].parent
    <3>1. CASE i \in 1..Len(es)
      <4>1. es[i].parent = NoParent \/ \E j \in 1..(i - 1) : es[j].id = es[i].parent
        BY <3>1 DEF Grown
      <4>2. \A j \in 1..(i - 1) : j \in 1..Len(es)
        BY <1>1, <3>1
      <4> QED BY <1>1, <3>1, <4>1, <4>2
    <3>2. CASE i = Len(es) + 1
      <4>1. e.parent = NoParent \/ \E j \in 1..Len(es) : es[j].id = e.parent
        BY <1>3 DEF Known
      <4>2. i - 1 = Len(es) /\ fs[i] = e
        BY <1>1, <3>2
      <4> QED BY <1>1, <4>1, <4>2
    <3> QED BY <1>2, <3>1, <3>2
  <2> QED BY <2>1, <2>2 DEF Grown
<1>7. ASSUME NEW i \in 1..Len(es) PROVE EntryOf(fs, es[i].id) = es[i]
  <2>1. i \in 1..Len(fs) /\ fs[i] = es[i]
    BY <1>1
  <2> QED BY <1>1, <1>6, <2>1, EntryOfIs
<1>8. ASSUME NEW x \in Known(es), NEW c, c = getBranch(es, x), NEW i \in 1..Len(c)
      PROVE  EntryOf(fs, c[i].id) = c[i]
  <2>1. Shape(es, x, Ancestry(es, x), c)
    BY <1>8, BranchFacts
  <2>2. PICK y \in IdsIn(es) : c[i] = EntryOf(es, y)
    BY <1>8, <2>1 DEF Shape
  <2>3. c[i] \in ToSet(es)
    BY <2>2, EntryOfFacts
  <2>4. PICK k \in 1..Len(es) : c[i] = es[k]
    BY <2>3 DEF ToSet
  <2> QED BY <1>7, <2>4
<1>9. ASSUME NEW x \in Known(es) PROVE getBranch(fs, x) = getBranch(es, x)
  <2>1. x \in Known(fs)
    BY <1>4 DEF Known
  <2>2. \A i \in 1..Len(getBranch(es, x)) :
          EntryOf(fs, getBranch(es, x)[i].id) = getBranch(es, x)[i]
    BY <1>8
  <2> QED BY <1>1, <1>6, <2>1, <2>2, SameBranch
<1>10. getBranch(fs, e.id) = Append(getBranch(es, e.parent), e)
  <2> DEFINE p == Ancestry(es, e.parent)
             b == getBranch(es, e.parent)
             r == Ancestry(fs, e.id)
             c == getBranch(fs, e.id)
  <2>1. /\ e.parent \in Nat /\ p \in Paths(es, e.parent) /\ p \in Seq(Nat) /\ p[1] = NoParent
        /\ Len(p) \in Nat \ {0} /\ p[Len(p)] = e.parent
        /\ b \in Seq(EntryRec) /\ Len(b) = Len(p) - 1 /\ Len(b) \in Nat
        /\ \A i \in 1..Len(b) : /\ p[i + 1] \in IdsIn(es) /\ b[i] = EntryOf(es, p[i + 1])
                                /\ b[i] \in EntryRec /\ b[i].id = p[i + 1] /\ b[i].parent = p[i]
    <3>1. Shape(es, e.parent, p, b)
      BY BranchFacts
    <3> QED BY <3>1 DEF Shape
  <2>2. e.id \in Known(fs)
    BY <1>4 DEF Known
  <2>3. /\ e.id \in Nat /\ r \in Paths(fs, e.id) /\ r \in Seq(Nat) /\ r[1] = NoParent
        /\ Len(r) \in Nat \ {0} /\ r[Len(r)] = e.id
        /\ c \in Seq(EntryRec) /\ Len(c) = Len(r) - 1 /\ Len(c) \in Nat
        /\ \A i \in 1..Len(c) : /\ r[i + 1] \in IdsIn(fs) /\ c[i] = EntryOf(fs, r[i + 1])
                                /\ c[i] \in EntryRec /\ c[i].id = r[i + 1] /\ c[i].parent = r[i]
    <3>1. fs \in Seq(EntryRec)
      BY <1>1
    <3>2. Shape(fs, e.id, r, c)
      BY <1>6, <2>2, <3>1, BranchFacts
    <3> HIDE DEF r, c
    <3> QED BY <3>2 DEF Shape
  <2> DEFINE q == Append(p, e.id)
             d == Append(b, e)
  <2>4. /\ q \in Seq(Nat) /\ Len(q) = Len(p) + 1 /\ q[Len(p) + 1] = e.id
        /\ \A i \in 1..Len(p) : q[i] = p[i]
    BY <2>1, <2>3, AppendProperties
  <2>5. /\ d \in Seq(EntryRec) /\ Len(d) = Len(b) + 1 /\ d[Len(b) + 1] = e
        /\ \A i \in 1..Len(b) : d[i] = b[i]
    BY <2>1, AppendProperties
  <2> HIDE DEF p, b, r, c, q, d
  <2>6. EntryOf(fs, e.id) = e
    <3>1. Len(es) + 1 \in 1..Len(fs) /\ fs[Len(es) + 1].id = e.id
      BY <1>1
    <3> QED BY <1>1, <1>6, <3>1, EntryOfIs
  <2>7. ASSUME NEW i \in 1..Len(b) PROVE EntryOf(fs, b[i].id) = b[i]
    BY <1>8, <2>7 DEF b
  <2>8. q \in Paths(fs, e.id) /\ q[1] = NoParent
    <3>1. q # <<>> /\ q[Len(q)] = e.id /\ q[1] = NoParent
      BY <2>1, <2>4
    <3>2. ASSUME NEW i \in 2..Len(q) PROVE q[i] \in IdsIn(fs) /\ q[i - 1] = EntryOf(fs, q[i]).parent
      <4>1. CASE i = Len(p) + 1
        <5>1. i - 1 = Len(p) /\ Len(p) \in 1..Len(p)
          BY <2>1, <4>1
        <5> QED BY <1>4, <2>1, <2>4, <2>6, <4>1, <5>1
      <4>2. CASE i # Len(p) + 1
        <5>1. i \in 1..Len(p) /\ i - 1 \in 1..Len(p) /\ i - 1 \in 1..Len(b) /\ (i - 1) + 1 = i
          BY <2>1, <2>4, <4>2
        <5>2. q[i] = b[i - 1].id /\ q[i - 1] = b[i - 1].parent /\ q[i] \in IdsIn(es)
          BY <2>1, <2>4, <5>1
        <5>3. EntryOf(fs, b[i - 1].id) = b[i - 1]
          BY <2>7, <5>1
        <5> QED BY <1>4, <5>2, <5>3
      <4> QED BY <4>1, <4>2
    <3> QED BY <2>4, <3>1, <3>2 DEF Paths
  <2>9. q = r
    <3>1. fs \in Seq(EntryRec) /\ e.id \in Nat /\ r \in Paths(fs, e.id) /\ r[1] = NoParent
      BY <1>1, <2>3
    <3> QED BY <2>8, <3>1, PathsAgree
  <2>10. Len(c) = Len(d)
    BY <2>1, <2>3, <2>4, <2>5, <2>9
  <2>11. ASSUME NEW i \in 1..Len(c) PROVE c[i] = d[i]
    <3>1. CASE i = Len(b) + 1
      <4>1. i + 1 = Len(p) + 1
        BY <2>1, <3>1
      <4> QED BY <2>3, <2>4, <2>5, <2>6, <2>9, <3>1, <4>1
    <3>2. CASE i # Len(b) + 1
      <4>1. i \in 1..Len(b) /\ i + 1 \in 1..Len(p)
        BY <2>1, <2>5, <2>10, <3>2
      <4>2. c[i] = EntryOf(fs, p[i + 1]) /\ b[i].id = p[i + 1]
        BY <2>1, <2>3, <2>4, <2>9, <4>1
      <4> QED BY <2>5, <2>7, <4>1, <4>2
    <3> QED BY <3>1, <3>2
  <2>12. c = d
    BY <2>3, <2>5, <2>10, <2>11, SeqEqual
  <2> QED BY <2>12 DEF c, d, b
<1>11. Continues(es, fs)
  BY <1>9 DEF Continues
<1> QED BY <1>1, <1>4, <1>5, <1>6, <1>10, <1>11

\* The ids of the model grow.
LEMMA IdIsNew ==
    ASSUME entries \in Seq(EntryRec), Grown(entries)
    PROVE  \A i \in 1..Len(entries) : entries[i].id < Id
<1> SUFFICES ASSUME NEW i \in 1..Len(entries) PROVE entries[i].id < Id
  OBVIOUS
<1>1. Len(entries) \in Nat /\ Len(entries) \in 1..Len(entries) /\ entries # <<>>
  OBVIOUS
<1>2. Id = entries[Len(entries)].id + 1
  BY <1>1 DEF Id, Last
<1>3. entries[i] \in EntryRec /\ entries[Len(entries)] \in EntryRec
  BY <1>1
<1>4. entries[i].id \in Nat /\ entries[Len(entries)].id \in Nat
  BY <1>3 DEF EntryRec
<1>5. i = Len(entries) \/ entries[i].id < entries[Len(entries)].id
  BY <1>1 DEF Grown
<1> QED BY <1>2, <1>4, <1>5
-----------------------------------------------------------------------------
(* A fork keeps the conversation.                                            *)

TInv == Grown(entries) /\ leaf \in Known(entries)

\* An entry is added at a place of the tree, and becomes the leaf.
Adds(e) ==
  /\ e \in EntryRec /\ e.id = Id /\ e.parent \in Known(entries)
  /\ entries' = Append(entries, e) /\ leaf' = e.id

\* The log stays a tree when an entry is added to it.
LEMMA AddsKeepsTree ==
    ASSUME entries \in Seq(EntryRec), TInv, NEW e, Adds(e)
    PROVE  TInv'
<1>1. \A i \in 1..Len(entries) : entries[i].id < e.id
  BY IdIsNew DEF TInv, Adds
<1>2. Grown(entries') /\ IdsIn(entries') = IdsIn(entries) \cup {e.id}
  BY <1>1, AppendedEntry DEF TInv, Adds
<1> QED BY <1>2 DEF TInv, Adds, Known

\* What is logged is added at the leaf.
LEMMA LogAdds ==
    ASSUME leaf \in Known(entries), NEW e \in EntryRec, e.id = Id, e.parent = leaf, Log(e)
    PROVE  Adds(e)
BY DEF Log, Adds

\* What the steps add to the log.
LEMMA SubmitAdds ==
    ASSUME PInv, TInv, Submit
    PROVE  \E e : Adds(e) /\ e.parent = leaf /\ e.kind = "message" /\ e.message = Spoken("user", {}, 0, {Id})
<1> DEFINE m == Spoken("user", {}, 0, {Id})
           e == Entry("message", m, {}, FALSE)
<1>1. entries \in Seq(EntryRec) /\ leaf \in Nat /\ leaf \in Known(entries)
  BY DEF PInv, TInv
<1>2. m \in Msg
  BY <1>1, IdType, SpokenType DEF Roles
<1>3. Log(e)
  BY DEF Submit
<1> HIDE DEF m
<1>4. e \in EntryRec /\ e.id = Id /\ e.parent = leaf /\ e.kind = "message" /\ e.message = m
  <2>1. e \in EntryRec
    BY <1>1, <1>2, EntryType DEF Kinds
  <2> QED BY <2>1 DEF Entry
<1> HIDE DEF e
<1>5. Adds(e)
  BY <1>1, <1>3, <1>4, LogAdds
<1> QED BY <1>4, <1>5 DEF m

\* An answer or a result adds its message.
LEMMA SpeakAdds ==
    ASSUME PInv, TInv, NEW r \in Roles, NEW c \in SUBSET (Nat \ {0}), NEW a \in Nat, NEW u \in BOOLEAN,
           NEW places, Speak(r, c, a, u, places)
    PROVE  \E e : Adds(e) /\ e.parent = leaf /\ e.kind = "message" /\ e.message = Spoken(r, c, a, {Id})
<1> DEFINE m == Spoken(r, c, a, {Id})
           e == Entry("message", m, {}, u)
<1>1. entries \in Seq(EntryRec) /\ leaf \in Nat /\ leaf \in Known(entries)
  BY DEF PInv, TInv
<1>2. m \in Msg
  BY <1>1, IdType, SpokenType
<1>3. Log(e)
  BY DEF Speak
<1> HIDE DEF m
<1>4. e \in EntryRec /\ e.id = Id /\ e.parent = leaf /\ e.kind = "message" /\ e.message = m
  <2>1. e \in EntryRec
    BY <1>1, <1>2, EntryType DEF Kinds
  <2> QED BY <2>1 DEF Entry
<1> HIDE DEF e
<1>5. Adds(e)
  BY <1>1, <1>3, <1>4, LogAdds
<1> QED BY <1>4, <1>5 DEF m

\* A compaction adds a summary with a tail that is paired.
LEMMA CheckpointAdds ==
    ASSUME PInv, TInv, CanCompact(live), Log(Checkpoint)
    PROVE  \E e : /\ Adds(e) /\ e.parent = leaf /\ e.kind = "compaction"
                  /\ e.message \in Msg /\ e.message.role = "user" /\ e.message.calls = {}
                  /\ \E t \in Seq(Msg) : WantedAfter(t) = {} /\ e.tail = {t}
                  /\ e.message = SummaryOf(Branch, live, Keep) /\ e.tail = {RetainedTail(live, Keep)}
<1> DEFINE m == SummaryOf(Branch, live, Keep)
           t == RetainedTail(live, Keep)
           e == Entry("compaction", m, {t}, FALSE)
<1>1. /\ entries \in Seq(EntryRec) /\ leaf \in Nat /\ leaf \in Known(entries)
      /\ live \in Seq(Msg) /\ Branch \in Seq(EntryRec)
  BY BranchIsSeq DEF PInv, TInv, Branch
<1>2. m \in Msg /\ m.role = "user" /\ m.calls = {} /\ t \in Seq(Msg) /\ WantedAfter(t) = {}
  BY <1>1, CheckpointFacts
<1>3. Log(e)
  BY DEF Checkpoint
<1> HIDE DEF m, t
<1>4. e \in EntryRec /\ e.id = Id /\ e.parent = leaf /\ e.kind = "compaction" /\ e.message = m /\ e.tail = {t}
  <2>1. {t} \in SUBSET Seq(Msg)
    BY <1>2
  <2>2. e \in EntryRec
    BY <1>1, <1>2, <2>1, EntryType DEF Kinds
  <2> QED BY <2>2 DEF Entry
<1> HIDE DEF e
<1>5. Adds(e)
  BY <1>1, <1>3, <1>4, LogAdds
<1>6. \E y \in Seq(Msg) : WantedAfter(y) = {} /\ e.tail = {y}
  BY <1>2, <1>4
<1>7. e.message = SummaryOf(Branch, live, Keep) /\ e.tail = {RetainedTail(live, Keep)}
  BY <1>4 DEF m, t
<1> QED BY <1>2, <1>4, <1>5, <1>6, <1>7

\* A note adds a setting.
LEMMA NoteAdds ==
    ASSUME PInv, TInv, TakeNote
    PROVE  \E e : Adds(e) /\ e.parent = leaf /\ e.kind = "model_change"
<1> DEFINE e == Entry("model_change", Note, {}, FALSE)
<1>1. entries \in Seq(EntryRec) /\ leaf \in Nat /\ leaf \in Known(entries)
  BY DEF PInv, TInv
<1>2. Note \in Msg
  BY SpokenType DEF Note, Roles
<1>3. Log(e)
  BY DEF TakeNote
<1>4. e \in EntryRec /\ e.id = Id /\ e.parent = leaf /\ e.kind = "model_change"
  <2>1. e \in EntryRec
    BY <1>1, <1>2, EntryType DEF Kinds
  <2> QED BY <2>1 DEF Entry
<1> HIDE DEF e
<1>5. Adds(e)
  BY <1>1, <1>3, <1>4, LogAdds
<1> QED BY <1>4, <1>5

\* A parent is in the tree.
LEMMA TargetKnown ==
    ASSUME entries \in Seq(EntryRec), TInv, NEW x \in IdsIn(entries)
    PROVE  x \in Known(entries) /\ EntryOf(entries, x).parent \in Known(entries)
<1>1. PICK i \in 1..Len(entries) : x = entries[i].id
  BY IdsFacts
<1>2. EntryOf(entries, x) = entries[i]
  BY <1>1, EntryOfIs DEF TInv
<1>3. entries[i].parent = NoParent \/ \E j \in 1..(i - 1) : entries[j].id = entries[i].parent
  BY DEF TInv, Grown
<1>4. \A j \in 1..(i - 1) : j \in 1..Len(entries)
  <2>1. Len(entries) \in Nat
    OBVIOUS
  <2> QED BY <2>1
<1>5. \A j \in 1..Len(entries) : entries[j].id \in IdsIn(entries)
  BY IdsFacts
<1> QED BY <1>2, <1>3, <1>4, <1>5 DEF Known

\* A navigation goes to a place of the tree, or adds a summary there.
LEMMA NavigateMoves ==
    ASSUME PInv, TInv, Navigate
    PROVE  \/ leaf' \in Known(entries) /\ entries' = entries
           \/ \E e : Adds(e) /\ e.kind = "branch_summary" /\ e.message = Spoken("user", {}, 0, {Id})
<1>1. entries \in Seq(EntryRec) /\ leaf \in Nat
  BY DEF PInv
<1>2. PICK id \in IdsIn(entries), position \in {"before", "after"} :
          LET target == BeforeOrAt(id, position)
          IN \/ leaf' = target /\ UNCHANGED entries
             \/ /\ leaf' = Id
                /\ entries' = Append(entries, [Entry("branch_summary", Spoken("user", {}, 0, {Id}), {}, FALSE)
                                                 EXCEPT !.parent = target])
  BY DEF Navigate
<1> DEFINE target == BeforeOrAt(id, position)
           m == Spoken("user", {}, 0, {Id})
           d == Entry("branch_summary", m, {}, FALSE)
           e == [d EXCEPT !.parent = target]
<1>3. target \in Known(entries)
  BY <1>1, TargetKnown DEF BeforeOrAt
<1>4. m \in Msg
  BY <1>1, IdType, SpokenType DEF Roles
<1>5. (leaf' = target /\ entries' = entries) \/ (leaf' = Id /\ entries' = Append(entries, e))
  BY <1>2
<1> HIDE DEF target, m
<1>6. d \in EntryRec /\ d.id = Id /\ d.kind = "branch_summary" /\ d.message = m
  <2>1. d \in EntryRec
    BY <1>1, <1>4, EntryType DEF Kinds
  <2> QED BY <2>1 DEF Entry
<1>7. target \in Nat
  BY <1>1, <1>3, IdsFacts DEF Known, NoParent
<1> HIDE DEF d
<1>8. e \in EntryRec /\ e.id = Id /\ e.kind = "branch_summary" /\ e.message = m /\ e.parent = target
  BY <1>6, <1>7 DEF EntryRec
<1> HIDE DEF e
<1>9. (leaf' = Id /\ entries' = Append(entries, e)) => Adds(e)
  BY <1>3, <1>8 DEF Adds
<1> QED BY <1>3, <1>5, <1>8, <1>9 DEF m

\* A fork is the branch of a place in the tree; it stands at its end.
LEMMA ForkMoves ==
    ASSUME PInv, TInv, Fork
    PROVE  \E x \in Known(entries) : entries' = getBranch(entries, x) /\ leaf' = x
<1>1. entries \in Seq(EntryRec) /\ Grown(entries)
  BY DEF PInv, TInv
<1>2. PICK id \in IdsIn(entries), position \in {"before", "after"} :
          entries' = createBranchedSession(entries, id, position) /\ leaf' = LeafAfterOpen(entries')
  BY DEF Fork
<1> DEFINE x == IF position = "before" THEN EntryOf(entries, id).parent ELSE id
<1>3. x \in Known(entries)
  BY <1>1, TargetKnown
<1>4. entries' = IF x = NoParent THEN <<>> ELSE getBranch(entries, x)
  BY <1>2 DEF createBranchedSession
<1> HIDE DEF x
<1>5. CASE x = NoParent
  <2>1. entries' = getBranch(entries, x)
    BY <1>1, <1>3, <1>4, <1>5, BranchEnds
  <2>2. leaf' = x
    BY <1>2, <1>4, <1>5 DEF LeafAfterOpen
  <2> QED BY <1>3, <2>1, <2>2
<1>6. CASE x # NoParent
  <2>1. entries' = getBranch(entries, x) /\ entries' # <<>> /\ Last(entries').id = x
    BY <1>1, <1>3, <1>4, <1>6, BranchEnds
  <2>2. leaf' = x
    BY <1>2, <2>1 DEF LeafAfterOpen
  <2> QED BY <1>3, <2>1, <2>2
<1> QED BY <1>5, <1>6

\* Every step keeps the log a tree and the leaf in it.
LEMMA TreeStep == PInv /\ TInv /\ [TalkNext]_talkVars => TInv'
<1> SUFFICES ASSUME PInv, TInv, [TalkNext]_talkVars PROVE TInv'
  OBVIOUS
<1>0. entries \in Seq(EntryRec) /\ leaf \in Nat /\ Grown(entries) /\ leaf \in Known(entries)
  BY DEF PInv, TInv
<1>a. ASSUME UNCHANGED <<entries, leaf>> PROVE TInv'
  BY <1>a DEF TInv
<1>b. ASSUME CanCompact(live), Log(Checkpoint) PROVE TInv'
  BY <1>0, <1>b, CheckpointAdds, AddsKeepsTree
<1>1. CASE Submit
  BY <1>0, <1>1, SubmitAdds, AddsKeepsTree
<1>2. CASE MaybeCompact
  BY <1>2, <1>a DEF MaybeCompact
<1>3. CASE EndCompaction
  <2>1. CanCompact(live) /\ (Log(Checkpoint) \/ UNCHANGED <<entries, leaf>>)
    BY <1>3 DEF EndCompaction, PInv
  <2> QED BY <1>a, <1>b, <2>1
<1>4. CASE FailCompaction
  BY <1>4, <1>a DEF FailCompaction
<1>5. CASE Overflow
  BY <1>5, <1>b DEF Overflow
<1>6. CASE TakeAnswer
  <2>1. PICK c \in {{}, {1, 2}}, u \in BOOLEAN :
          Speak("assistant", c, 0, u, {IF c = {} THEN "idle" ELSE "tools"})
    BY <1>6 DEF TakeAnswer
  <2>2. c \in SUBSET (Nat \ {0}) /\ "assistant" \in Roles /\ 0 \in Nat
    BY DEF Roles
  <2>3. \E e : Adds(e)
    BY <2>1, <2>2, SpeakAdds
  <2> QED BY <1>0, <2>3, AddsKeepsTree
<1>7. CASE Escape
  BY <1>7, <1>a DEF Escape
<1>8. CASE Result
  <2>1. Min(open) \in Nat
    <3>1. open # {} /\ open \in SUBSET Nat
      BY <1>8 DEF Result, PInv
    <3> QED BY <3>1, MinFacts
  <2>2. "tool" \in Roles /\ {} \in SUBSET (Nat \ {0}) /\ FALSE \in BOOLEAN
    BY DEF Roles
  <2>3. Speak("tool", {}, Min(open), FALSE, IF Cardinality(open) > 1 THEN {"tools"} ELSE {"head", "idle"})
    BY <1>8 DEF Result
  <2>4. \E e : Adds(e)
    BY <2>1, <2>2, <2>3, SpeakAdds
  <2> QED BY <1>0, <2>4, AddsKeepsTree
<1>9. CASE TakeNote
  BY <1>0, <1>9, NoteAdds, AddsKeepsTree
<1>10. CASE Compact
  BY <1>10, <1>a DEF Compact
<1>11. CASE Navigate
  <2>1. CASE leaf' \in Known(entries) /\ entries' = entries
    BY <1>0, <2>1 DEF TInv
  <2>2. CASE \E e : Adds(e)
    BY <1>0, <2>2, AddsKeepsTree
  <2> QED BY <1>11, <2>1, <2>2, NavigateMoves
<1>12. CASE Fork
  <2>1. PICK x \in Known(entries) : entries' = getBranch(entries, x) /\ leaf' = x
    BY <1>12, ForkMoves
  <2>2. Grown(entries')
    BY <1>0, <2>1, BranchGrown
  <2>3. leaf' \in Known(entries')
    <3>1. CASE x = NoParent
      BY <2>1, <3>1 DEF Known
    <3>2. CASE x # NoParent
      <4>1. entries' \in Seq(EntryRec) /\ entries' # <<>> /\ Last(entries').id = x
        <5>1. x \in Nat
          BY <1>0, IdsFacts DEF Known, NoParent
        <5> QED BY <1>0, <2>1, <3>2, <5>1, BranchEnds, BranchIsSeq
      <4>2. Len(entries') \in 1..Len(entries') /\ Last(entries') = entries'[Len(entries')]
        BY <4>1 DEF Last
      <4> QED BY <2>1, <4>1, <4>2, IdsFacts DEF Known
    <3> QED BY <3>1, <3>2
  <2> QED BY <2>2, <2>3 DEF TInv
<1>13. CASE Restart
  BY <1>13, <1>a DEF Restart
<1>14. CASE UNCHANGED talkVars
  BY <1>14, <1>a DEF talkVars
<1> QED BY <1>1, <1>2, <1>3, <1>4, <1>5, <1>6, <1>7, <1>8, <1>9, <1>10, <1>11, <1>12, <1>13, <1>14 DEF TalkNext

\* A fork of the node where the session stands continues with its conversation and
\* its settings, which are those of the whole branch (createBranchedSession,
\* buildSessionContext).
THEOREM ForksKeepContext == TalkSpec => []ForkKeepsContext
<1>1. TalkInit => PInv /\ TInv
  BY DEF TalkInit, PInv, TInv, Places, NoParent, Grown, Known
<1>2. PInv /\ TInv => ForkKeepsContext
  <2> SUFFICES ASSUME PInv, TInv, leaf # NoParent
               PROVE  LET copy == createBranchedSession(entries, leaf, "after")
                          context == buildSessionContext(entries, leaf)
                      IN /\ buildSessionContext(copy, LeafAfterOpen(copy)) = context
                         /\ context.model = LastSetting(Branch, "model_change")
    BY DEF ForkKeepsContext
  <2> DEFINE b == getBranch(entries, leaf)
  <2>1. entries \in Seq(EntryRec) /\ Grown(entries) /\ leaf \in Known(entries)
    BY DEF PInv, TInv
  <2>2. b # <<>> /\ Last(b).id = leaf
    BY <2>1, BranchEnds
  <2>3. b \in Seq(EntryRec)
    BY <2>1, BranchIsSeq DEF PInv
  <2>4. leaf \in Known(b)
    <3>1. Len(b) \in 1..Len(b) /\ Last(b) = b[Len(b)]
      BY <2>2, <2>3 DEF Last
    <3> HIDE DEF b
    <3> QED BY <2>2, <2>3, <3>1, IdsFacts DEF Known
  <2>5. getBranch(b, leaf) = b
    BY <2>1, <2>4, BranchOfBranch
  <2>6. createBranchedSession(entries, leaf, "after") = b
    BY DEF createBranchedSession
  <2>7. LeafAfterOpen(b) = leaf
    BY <2>2 DEF LeafAfterOpen
  <2>8. buildSessionContext(b, leaf) = buildSessionContext(entries, leaf)
    <3>1. getBranch(b, leaf) = getBranch(entries, leaf)
      BY <2>5
    <3> HIDE DEF b
    <3>2. buildContextEntries(b, leaf) = buildContextEntries(entries, leaf)
      BY <3>1 DEF buildContextEntries
    <3> QED BY <3>1, <3>2 DEF buildSessionContext, SettingsFrom
  <2>9. buildSessionContext(entries, leaf).model = LastSetting(Branch, "model_change")
    BY DEF buildSessionContext, SettingsFrom, Branch
  <2> QED BY <2>6, <2>7, <2>8, <2>9
<1>3. PInv /\ TInv /\ [TalkNext]_talkVars => (PInv /\ TInv)'
  BY PairedStep, TreeStep
<1> QED BY <1>1, <1>2, <1>3, PTL DEF TalkSpec

-----------------------------------------------------------------------------
(* The list in memory is the one the log gives.                              *)

\* The part of a branch the model is told of, and its messages.
Since(b) ==
  LET marks == {i \in DOMAIN b : IsCheckpoint(b[i])}
      from == IF marks = {} THEN 1 ELSE CHOOSE i \in marks : \A j \in marks : j <= i
  IN SubSeq(b, from, Len(b))

Told(b) == MessagesOf(Since(b))

\* The session's context is the clean-up of what is told of its branch.
LEMMA ContextIsTold ==
    ASSUME NEW es, NEW id
    PROVE  buildSessionContext(es, id).messages = closeOpenTurns(Told(getBranch(es, id)))
BY DEF buildSessionContext, buildContextEntries, Told, Since

\* An entry behind a branch: a checkpoint hides what was before it.
LEMMA SinceAppend ==
    ASSUME NEW b \in Seq(EntryRec), NEW e \in EntryRec
    PROVE  /\ Since(b) \in Seq(EntryRec)
           /\ IsCheckpoint(e) => Since(Append(b, e)) = <<e>>
           /\ ~IsCheckpoint(e) => Since(Append(b, e)) = Append(Since(b), e)
<1> DEFINE c == Append(b, e)
           L == Len(b)
           marks == {i \in 1..L : IsCheckpoint(b[i])}
           from == IF marks = {} THEN 1 ELSE CHOOSE i \in marks : \A j \in marks : j <= i
           more == {i \in 1..(L + 1) : IsCheckpoint(c[i])}
           to == IF more = {} THEN 1 ELSE CHOOSE i \in more : \A j \in more : j <= i
<1>1. /\ L \in Nat /\ DOMAIN b = 1..L /\ c \in Seq(EntryRec) /\ Len(c) = L + 1 /\ DOMAIN c = 1..(L + 1)
      /\ c[L + 1] = e /\ \A i \in 1..L : c[i] = b[i]
  BY AppendProperties
<1>2. Since(b) = SubSeq(b, from, L)
  BY <1>1 DEF Since
<1> HIDE DEF c
<1>3. Since(c) = SubSeq(c, to, L + 1)
  BY <1>1 DEF Since
<1>4. from \in 1..(L + 1)
  <2>1. CASE marks # {}
    <3> HIDE DEF marks
    <3>1. marks \in SUBSET (0..L) /\ marks \in SUBSET (1..L)
      BY <1>1 DEF marks
    <3>2. \E n \in marks : \A m \in marks : m <= n
      BY <1>1, <2>1, <3>1, GreatestNumber
    <3>3. from \in marks
      BY <2>1, <3>2
    <3> HIDE DEF from
    <3> QED BY <1>1, <3>1, <3>3
  <2>2. CASE marks = {}
    <3>1. from = 1
      BY <2>2
    <3> HIDE DEF from
    <3> QED BY <1>1, <3>1
  <2> QED BY <2>1, <2>2
<1>5. ASSUME IsCheckpoint(e) PROVE Since(c) = <<e>>
  <2>1. L + 1 \in more /\ \A j \in more : j <= L + 1 /\ j \in Nat
    BY <1>1, <1>5
  <2> HIDE DEF more
  <2>2. \E n \in more : \A m \in more : m <= n
    BY <2>1
  <2>3. to \in more /\ \A j \in more : j <= to
    BY <2>1, <2>2
  <2> HIDE DEF to
  <2>4. to = L + 1
    BY <1>1, <2>1, <2>3
  <2>5. SubSeq(c, L + 1, L + 1) = <<e>>
    <3> DEFINE x == SubSeq(c, L + 1, L + 1)
               y == <<e>>
    <3>1. x \in Seq(EntryRec) /\ y \in Seq(EntryRec) /\ Len(x) = 1 /\ Len(y) = 1
          /\ x[1] = e /\ y[1] = e
      BY <1>1
    <3> HIDE DEF x, y
    <3>2. \A i \in 1..Len(x) : x[i] = y[i]
      BY <3>1
    <3>3. x = y
      BY <3>1, <3>2, SeqEqual
    <3> QED BY <3>3 DEF x, y
  <2> QED BY <1>3, <2>4, <2>5
<1>6. ASSUME ~IsCheckpoint(e) PROVE Since(c) = Append(Since(b), e)
  <2>1. more = marks
    BY <1>1, <1>6
  <2> HIDE DEF more, marks
  <2>2. to = from
    BY <2>1
  <2> HIDE DEF to, from
  <2>3. SubSeq(c, from, L + 1) = Append(SubSeq(c, from, L), c[L + 1])
    <3>1. from \in 1..(Len(c) + 1) /\ L \in (from - 1)..(Len(c) - 1)
      BY <1>1, <1>4
    <3> QED BY <1>1, <3>1, SubSeqGrows
  <2>4. SubSeq(c, from, L) = SubSeq(b, from, L)
    <3> DEFINE x == SubSeq(c, from, L)
               y == SubSeq(b, from, L)
    <3>1. x \in Seq(EntryRec) /\ y \in Seq(EntryRec) /\ Len(x) = Len(y)
          /\ \A i \in 1..Len(x) : x[i] = y[i]
      BY <1>1, <1>4
    <3> HIDE DEF x, y
    <3>2. x = y
      BY <3>1, SeqEqual
    <3> QED BY <3>2 DEF x, y
  <2> QED BY <1>1, <1>2, <1>3, <2>2, <2>3, <2>4
<1>7. Since(b) \in Seq(EntryRec)
  <2> HIDE DEF from
  <2> QED BY <1>1, <1>2, <1>4
<1> QED BY <1>5, <1>6, <1>7 DEF c

\* So it does in the messages; any other entry adds what it contributes.
LEMMA ToldAppend ==
    ASSUME NEW b \in Seq(EntryRec), NEW e \in EntryRec
    PROVE  /\ Told(b) \in Seq(Msg) /\ Told(Append(b, e)) \in Seq(Msg)
           /\ IsCheckpoint(e) => Told(Append(b, e)) = Contribution(e)
           /\ ~IsCheckpoint(e) => Told(Append(b, e)) = Told(b) \o Contribution(e)
<1>1. Since(b) \in Seq(EntryRec) /\ Append(b, e) \in Seq(EntryRec)
  BY SinceAppend
<1>2. Since(Append(b, e)) \in Seq(EntryRec)
  BY <1>1, SinceAppend
<1>3. Told(b) \in Seq(Msg) /\ Told(Append(b, e)) \in Seq(Msg)
  BY <1>1, <1>2, MessagesType DEF Told
<1>4. MessagesOf(<<e>>) = Contribution(e)
  <2>1. <<>> \in Seq(EntryRec) /\ <<e>> = Append(<<>>, e)
    OBVIOUS
  <2>2. MessagesOf(<<>>) = <<>>
    <3>1. Fold(SaidStep, <<>>, <<>>) = <<>>
      BY FoldFacts
    <3> QED BY <2>1, <3>1, MessagesIsFold
  <2>3. MessagesOf(<<e>>) = <<>> \o Contribution(e)
    BY <2>1, <2>2, MessagesFacts
  <2>4. <<>> \o Contribution(e) = Contribution(e)
    BY ContributionType
  <2> QED BY <2>3, <2>4
<1>5. ~IsCheckpoint(e) => Told(Append(b, e)) = Told(b) \o Contribution(e)
  BY <1>1, SinceAppend, MessagesFacts DEF Told
<1>6. IsCheckpoint(e) => Told(Append(b, e)) = Contribution(e)
  BY <1>4, SinceAppend DEF Told
<1> QED BY <1>3, <1>5, <1>6

\* Between tool turns a message that is no result is taken as it is.
LEMMA MessageTaken ==
    ASSUME NEW t \in Sane, ~t.done, t.from = 0, NEW m \in Msg, m.role # "tool"
    PROVE  /\ TakeMessage(t, m).out = Append(t.out, m) /\ ~TakeMessage(t, m).done
           /\ TakeMessage(t, m).expected = m.calls
           /\ TakeMessage(t, m).from = 0 <=> m.calls = {}
<1> DEFINE f == IF m.calls = {} THEN 0 ELSE Len(t.out) + 1
           x == TakeMessage(t, m)
<1>1. t \in States /\ t.from \in Nat /\ Len(t.out) \in Nat
  BY DEF Sane, States
<1>2. x = [t EXCEPT !.out = Append(@, m), !.expected = m.calls, !.from = f]
  BY DEF TakeMessage, TakeOther
<1>3. f = 0 <=> m.calls = {}
  BY <1>1
<1> HIDE DEF f, x
<1>4. x.out = Append(t.out, m) /\ x.expected = m.calls /\ x.from = f /\ x.done = t.done
  BY <1>1, <1>2 DEF States
<1>5. x.out = Append(t.out, m) /\ ~x.done /\ x.expected = m.calls /\ (x.from = 0 <=> m.calls = {})
  BY <1>3, <1>4
<1> QED BY <1>5 DEF x

\* A result that is expected is taken as it is.
LEMMA ResultTaken ==
    ASSUME NEW t \in Sane, ~t.done, t.from # 0, NEW m \in Msg, m.role = "tool", m.answers \in t.expected
    PROVE  /\ TakeMessage(t, m).out = Append(t.out, m) /\ ~TakeMessage(t, m).done
           /\ TakeMessage(t, m).expected = t.expected \ {m.answers}
           /\ TakeMessage(t, m).from = 0 <=> t.expected \ {m.answers} = {}
<1> DEFINE gone == t.expected \ {m.answers}
           f == IF gone = {} THEN 0 ELSE t.from
           x == TakeMessage(t, m)
<1>1. t \in States /\ t.from \in Nat
  BY DEF Sane, States
<1>2. x = TakeResult(t, m)
  BY DEF TakeMessage
<1>3. x = [t EXCEPT !.out = Append(@, m), !.expected = gone, !.from = f]
  BY <1>1, <1>2 DEF TakeResult, States
<1>4. f = 0 <=> gone = {}
  OBVIOUS
<1> HIDE DEF f, gone, x
<1>5. x.out = Append(t.out, m) /\ x.expected = gone /\ x.from = f /\ x.done = t.done
  BY <1>1, <1>3 DEF States
<1>6. x.out = Append(t.out, m) /\ ~x.done /\ x.expected = gone /\ (x.from = 0 <=> gone = {})
  BY <1>4, <1>5
<1> QED BY <1>6 DEF x, gone

\* A message of the user ends what is open, and the list goes on.
LEMMA UserTaken ==
    ASSUME NEW t \in Sane, ~t.done, NEW m \in Msg, m.role = "user", m.calls = {}
    PROVE  TakeMessage(t, m).from = 0 /\ ~TakeMessage(t, m).done
<1>1. CASE t.from = 0
  BY <1>1, MessageTaken
<1>2. CASE t.from # 0
  <2> DEFINE c == Retracted(t)
  <2>1. c \in Sane /\ c.from = 0 /\ ~c.done
    BY <1>2, RetractedSane
  <2>2. TakeMessage(t, m) = TakeOther(c, m)
    BY <1>2 DEF TakeMessage
  <2>3. TakeMessage(c, m) = TakeOther(c, m)
    <3> HIDE DEF c
    <3> QED BY <2>1 DEF TakeMessage
  <2> HIDE DEF c
  <2>4. TakeMessage(c, m).from = 0 /\ ~TakeMessage(c, m).done
    BY <2>1, MessageTaken
  <2> QED BY <2>2, <2>3, <2>4
<1> QED BY <1>1, <1>2

\* A paired list is taken as it is.
Kept(s) ==
  /\ Taken(s).out = s /\ ~Taken(s).done /\ Taken(s).expected = WantedAfter(s)
  /\ Taken(s).from = 0 <=> WantedAfter(s) = {}

\* It is when one more message keeps it paired,
LEMMA KeptAppend ==
    ASSUME NEW s \in Seq(Msg), Kept(s), NEW m \in Msg, WantedAfter(Append(s, m)) # Never
    PROVE  Kept(Append(s, m))
<1> DEFINE t == Taken(s)
           w == WantedAfter(s)
           u == Append(s, m)
<1>1. /\ t \in Sane /\ Taken(u) = TakeMessage(t, m)
      /\ WantedAfter(u) = StillWanted(w, m) /\ WantedAfter(u) # Never
  BY TakenFacts, WantedFacts
<1>2. t.out = s /\ ~t.done /\ t.expected = w /\ (t.from = 0 <=> w = {})
  BY DEF Kept
<1>3. u = Append(s, m)
  OBVIOUS
<1> HIDE DEF t, w, u
<1>4. ASSUME m.role = "tool" PROVE Kept(u)
  <2>1. m.answers \in w \ Never /\ WantedAfter(u) = w \ {m.answers}
    BY <1>1, <1>4 DEF StillWanted
  <2>2. t.from # 0 /\ m.answers \in t.expected
    BY <1>2, <2>1
  <2>3. /\ Taken(u).out = u /\ ~Taken(u).done /\ Taken(u).expected = w \ {m.answers}
        /\ (Taken(u).from = 0 <=> w \ {m.answers} = {})
    BY <1>1, <1>2, <1>3, <1>4, <2>2, ResultTaken
  <2> QED BY <2>1, <2>3 DEF Kept
<1>5. ASSUME m.role # "tool" PROVE Kept(u)
  <2>1. w = {} /\ WantedAfter(u) = m.calls
    BY <1>1, <1>5 DEF StillWanted
  <2>2. /\ Taken(u).out = u /\ ~Taken(u).done /\ Taken(u).expected = m.calls
        /\ (Taken(u).from = 0 <=> m.calls = {})
    BY <1>1, <1>2, <1>3, <1>5, <2>1, MessageTaken
  <2> QED BY <2>1, <2>2 DEF Kept
<1>6. Kept(u)
  BY <1>4, <1>5
<1> QED BY <1>6 DEF u

\* and so whenever it wants no result for ever.
LEMMA PairedIsKept ==
    ASSUME NEW s \in Seq(Msg), WantedAfter(s) # Never
    PROVE  Kept(s)
<1> DEFINE T == {n \in Nat : n <= Len(s) => Kept(SubSeq(s, 1, n))}
<1>1. Len(s) \in Nat /\ SubSeq(s, 1, Len(s)) = s
  BY SubSeqWhole
<1>2. 0 \in T
  <2>1. SubSeq(s, 1, 0) = <<>>
    BY <1>1
  <2>2. Marker({}) \in Msg /\ <<>> \in Seq(Msg)
    BY MarkerType
  <2>3. WantedAfter(<<>>) = {}
    BY <2>2, WantedFacts
  <2>4. Taken(<<>>) = Fresh
    BY <2>2, TakenFacts
  <2>5. Fresh.out = <<>> /\ ~Fresh.done /\ Fresh.expected = {} /\ Fresh.from = 0
    BY DEF Fresh
  <2>6. Kept(<<>>)
    BY <2>3, <2>4, <2>5 DEF Kept
  <2> QED BY <2>1, <2>6
<1>3. ASSUME NEW n \in T, n + 1 <= Len(s) PROVE Kept(SubSeq(s, 1, n + 1))
  <2>1. Kept(SubSeq(s, 1, n)) /\ n + 1 \in 1..Len(s) /\ 1 \in 1..(Len(s) + 1)
        /\ n \in (1 - 1)..(Len(s) - 1) /\ SubSeq(s, 1, n) \in Seq(Msg) /\ s[n + 1] \in Msg
    BY <1>1, <1>3
  <2>2. SubSeq(s, 1, n + 1) = Append(SubSeq(s, 1, n), s[n + 1])
    BY <2>1, SubSeqGrows
  <2>3. WantedAfter(SubSeq(s, 1, n + 1)) # Never
    BY <2>1, NothingWantedAt
  <2> QED BY <2>1, <2>2, <2>3, KeptAppend
<1>4. T = Nat
  <2>1. T \in SUBSET Nat /\ \A n \in T : n + 1 \in T
    BY <1>3
  <2> HIDE DEF T
  <2> QED BY <1>2, <2>1, Induction
<1>5. Len(s) \in T
  <2> HIDE DEF T
  <2> QED BY <1>1, <1>4
<1>6. Kept(SubSeq(s, 1, Len(s)))
  BY <1>1, <1>5
<1> HIDE DEF T
<1> QED BY <1>1, <1>6
\* There are entries.
LEMMA SomeEntry == \E e \in EntryRec : e.message \in Msg
<1>1. PICK u \in BOOLEAN : TRUE
  OBVIOUS
<1> DEFINE m == Marker({})
           e == [id |-> 1, parent |-> 0, kind |-> "message", message |-> m, tail |-> {}, usage |-> u]
<1>2. m \in Msg
  BY MarkerType
<1> HIDE DEF m
<1>3. e \in EntryRec /\ e.message \in Msg
  BY <1>1, <1>2 DEF EntryRec, Kinds
<1> HIDE DEF e
<1> QED BY <1>3

\* What the clean-up makes of the messages of a branch.
TakenOn(b) == Taken(Told(b))

\* The clean-up of a branch is sane.
LEMMA TakenOnType ==
    ASSUME NEW b \in Seq(EntryRec)
    PROVE  Told(b) \in Seq(Msg) /\ TakenOn(b) \in Sane
<1>1. PICK e \in EntryRec : e.message \in Msg
  BY SomeEntry
<1>2. Told(b) \in Seq(Msg)
  BY ToldAppend
<1>3. Taken(Told(b)) \in Sane
  BY <1>1, <1>2, TakenFacts
<1> QED BY <1>2, <1>3 DEF TakenOn

\* Nothing is told of an empty branch.
LEMMA OnNothing == ~TakenOn(<<>>).done
<1>1. PICK e \in EntryRec : e.message \in Msg
  BY SomeEntry
<1>2. <<>> \in Seq(EntryRec) /\ <<>> \in Seq(Msg)
  OBVIOUS
<1>3. MessagesOf(<<>>) = <<>>
  <2>1. Fold(SaidStep, <<>>, <<>>) = <<>>
    BY <1>1, <1>2, FoldFacts
  <2> QED BY <1>2, <2>1, MessagesIsFold
<1>4. Since(<<>>) = <<>>
  BY DEF Since
<1>5. Taken(<<>>) = Fresh
  BY <1>1, <1>2, TakenFacts
<1> QED BY <1>3, <1>4, <1>5 DEF TakenOn, Told, Fresh

\* An entry with a message adds that message.
LEMMA OnMessage ==
    ASSUME NEW b \in Seq(EntryRec), NEW e \in EntryRec, e.kind \in {"message", "branch_summary"}
    PROVE  TakenOn(Append(b, e)) = TakeMessage(TakenOn(b), e.message) /\ e.message \in Msg
<1>1. ~IsCheckpoint(e) /\ Contribution(e) = <<e.message>> /\ e.message \in Msg
  BY DEF IsCheckpoint, Contribution, EntryRec
<1>2. Told(b) \in Seq(Msg) /\ Told(Append(b, e)) = Told(b) \o <<e.message>>
  BY <1>1, ToldAppend
<1>3. Told(b) \o <<e.message>> = Append(Told(b), e.message)
  BY <1>1, <1>2
<1> QED BY <1>1, <1>2, <1>3, TakenFacts DEF TakenOn

\* A setting adds nothing.
LEMMA OnSetting ==
    ASSUME NEW b \in Seq(EntryRec), NEW e \in EntryRec, e.kind = "model_change"
    PROVE  TakenOn(Append(b, e)) = TakenOn(b)
<1>1. ~IsCheckpoint(e) /\ Contribution(e) = <<>>
  BY DEF IsCheckpoint, Contribution
<1>2. Told(b) \in Seq(Msg) /\ Told(Append(b, e)) = Told(b) \o <<>>
  BY <1>1, ToldAppend
<1>3. Told(b) \o <<>> = Told(b)
  BY <1>2
<1> QED BY <1>2, <1>3 DEF TakenOn

\* A checkpoint starts again with a list that is paired.
LEMMA OnCheckpoint ==
    ASSUME NEW b \in Seq(EntryRec), NEW e \in EntryRec, e.kind = "compaction",
           e.message.role = "user", e.message.calls = {},
           NEW t \in Seq(Msg), WantedAfter(t) = {}, e.tail = {t}
    PROVE  /\ TakenOn(Append(b, e)).from = 0 /\ ~TakenOn(Append(b, e)).done
           /\ TakenOn(Append(b, e)).out = <<e.message>> \o t
<1> DEFINE m == e.message
           u == <<m>> \o t
<1>1. IsCheckpoint(e) /\ m \in Msg /\ (CHOOSE x \in e.tail : TRUE) = t
  BY DEF IsCheckpoint, EntryRec
<1>2. Contribution(e) = u
  BY <1>1 DEF Contribution, IsCheckpoint
<1>3. Told(Append(b, e)) = u
  BY <1>1, <1>2, ToldAppend
<1>4. /\ u \in Seq(Msg) /\ Len(u) = Len(t) + 1 /\ Len(t) \in Nat
      /\ u[1] = m /\ \A i \in 1..Len(t) : u[i + 1] = t[i]
  BY <1>1
<1>5. WantedAfter(SubSeq(u, 1, 1)) = {}
  <2>1. <<>> \in Seq(Msg)
    OBVIOUS
  <2>2. WantedAfter(<<>>) = {}
    BY <1>1, <2>1, WantedFacts
  <2>3. StillWanted({}, m) = {}
    BY DEF StillWanted
  <2>4. WantedAfter(Append(<<>>, m)) = {}
    BY <1>1, <2>1, <2>2, <2>3, WantedFacts
  <2>5. SubSeq(u, 1, 1) = Append(SubSeq(u, 1, 0), u[1])
    <3>1. 1 \in 1..(Len(u) + 1) /\ 0 \in (1 - 1)..(Len(u) - 1)
      BY <1>4
    <3> HIDE DEF u
    <3> QED BY <1>4, <3>1, SubSeqGrows
  <2>6. SubSeq(u, 1, 0) = <<>>
    BY <1>4
  <2> HIDE DEF u
  <2> QED BY <1>4, <2>4, <2>5, <2>6
<1>6. SubSeq(u, 2, Len(u)) = t
  <2> DEFINE x == SubSeq(u, 2, Len(u))
  <2> HIDE DEF u
  <2>1. x \in Seq(Msg) /\ Len(x) = Len(t) /\ \A i \in 1..Len(x) : x[i] = t[i]
    BY <1>4
  <2> HIDE DEF x
  <2>2. x = t
    BY <2>1, SeqEqual
  <2> QED BY <2>2 DEF x
<1> HIDE DEF u, m
<1>7. WantedAfter(u) = {}
  <2>1. 2 \in 1..(Len(u) + 1) /\ 2 - 1 = 1
    BY <1>4
  <2>2. WantedAfter(SubSeq(u, 2, Len(u))) = WantedAfter(u)
    BY <1>4, <1>5, <2>1, WantedFrom
  <2> QED BY <1>6, <2>2
<1>8. Kept(u)
  <2>1. WantedAfter(u) # Never
    BY <1>7 DEF Never
  <2> QED BY <1>4, <2>1, PairedIsKept
<1>9. TakenOn(Append(b, e)) = Taken(u)
  BY <1>3 DEF TakenOn
<1>10. TakenOn(Append(b, e)).from = 0 /\ ~TakenOn(Append(b, e)).done /\ TakenOn(Append(b, e)).out = u
  BY <1>7, <1>8, <1>9 DEF Kept
<1> QED BY <1>10 DEF u, m

\* Where no turn is open, the session continues with just these messages.
LEMMA ContextIsTaken ==
    ASSUME NEW es, NEW id, TakenOn(getBranch(es, id)).from = 0
    PROVE  buildSessionContext(es, id).messages = TakenOn(getBranch(es, id)).out
BY ContextIsTold DEF TakenOn, closeOpenTurns

-----------------------------------------------------------------------------

\* No branch holds a message that would end the list early, and a turn has in
\* memory what the log gives: nothing open before a request, and the running
\* calls open while tools run.
Unbroken(es) == \A x \in Known(es) : ~TakenOn(getBranch(es, x)).done

Here == TakenOn(Branch)

LInv ==
  /\ Unbroken(entries)
  /\ turn \in {"head", "auto", "ask"} => Here.out = live /\ Here.from = 0
  /\ turn = "tools" => Here.out = live /\ Here.from # 0 /\ Here.expected = open

\* An entry is added: what is told of the new leaf, and of all the others.
LEMMA AddsTaken ==
    ASSUME entries \in Seq(EntryRec), TInv, Unbroken(entries), NEW e, Adds(e)
    PROVE  /\ getBranch(entries, e.parent) \in Seq(EntryRec)
           /\ ~TakenOn(getBranch(entries, e.parent)).done
           /\ Branch' = Append(getBranch(entries, e.parent), e)
           /\ ~Here'.done => Unbroken(entries')
<1>1. \A i \in 1..Len(entries) : entries[i].id < e.id
  BY IdIsNew DEF TInv, Adds
<1>2. /\ IdsIn(entries') = IdsIn(entries) \cup {e.id}
      /\ Continues(entries, entries')
      /\ getBranch(entries', e.id) = Append(getBranch(entries, e.parent), e)
  <2>1. Grown(entries) /\ e \in EntryRec /\ e.parent \in Known(entries) /\ entries' = Append(entries, e)
    BY DEF TInv, Adds
  <2> QED BY <1>1, <2>1, AppendedEntry
<1>3. Branch' = getBranch(entries', leaf')
  BY DEF Branch
<1>4. Branch' = Append(getBranch(entries, e.parent), e)
  BY <1>2, <1>3 DEF Adds
<1>5. e.parent \in Nat /\ e.parent \in Known(entries)
  BY DEF Adds, EntryRec
<1>6. ASSUME ~Here'.done PROVE Unbroken(entries')
  <2>1. ASSUME NEW x \in Known(entries') PROVE ~TakenOn(getBranch(entries', x)).done
    <3>1. CASE x \in Known(entries)
      BY <1>2, <3>1 DEF Unbroken, Continues
    <3>2. CASE x = e.id
      <4>1. Here' = TakenOn(getBranch(entries', x))
        BY <1>3, <3>2 DEF Adds, Here
      <4> QED BY <1>6, <4>1
    <3> QED BY <1>2, <3>1, <3>2 DEF Known
  <2> QED BY <2>1 DEF Unbroken
<1> QED BY <1>4, <1>5, <1>6, BranchIsSeq DEF Unbroken
\* Every step keeps what a turn has in memory the list of the log.
LEMMA LogStep == PInv /\ TInv /\ LInv /\ [TalkNext]_talkVars => LInv'
<1> SUFFICES ASSUME PInv, TInv, LInv, [TalkNext]_talkVars PROVE LInv'
  OBVIOUS
<1>0. /\ entries \in Seq(EntryRec) /\ leaf \in Nat /\ leaf \in Known(entries) /\ Unbroken(entries)
      /\ Branch \in Seq(EntryRec) /\ Here \in Sane /\ ~Here.done /\ turn \in Places
      /\ live \in Seq(Msg) /\ open \in SUBSET {1, 2}
  <2>1. Branch \in Seq(EntryRec)
    BY BranchIsSeq DEF PInv, Branch
  <2>2. ~Here.done
    BY DEF TInv, LInv, Unbroken, Here, Branch
  <2> QED BY <2>1, <2>2, TakenOnType DEF PInv, TInv, LInv, Here
<1>a. ASSUME UNCHANGED <<entries, leaf>> PROVE Unbroken(entries') /\ Here' = Here
  BY <1>0, <1>a DEF Here, Branch
<1>b. ASSUME NEW e, Adds(e), e.parent = leaf
      PROVE  /\ e \in EntryRec /\ Here' = TakenOn(Append(Branch, e))
             /\ ~Here'.done => Unbroken(entries')
  <2>1. Branch' = Append(Branch, e) /\ (~Here'.done => Unbroken(entries'))
    BY <1>0, <1>b, AddsTaken DEF Branch
  <2> QED BY <1>b, <2>1 DEF Adds, Here
<1>c. ASSUME Here'.from = 0 PROVE buildSessionContext(entries', leaf').messages = Here'.out
  BY <1>c, ContextIsTaken DEF Here, Branch
<1>d. ASSUME CanCompact(live), Log(Checkpoint) PROVE Unbroken(entries') /\ Here'.from = 0
  <2>1. PICK e : /\ Adds(e) /\ e.parent = leaf /\ e.kind = "compaction"
                 /\ e.message \in Msg /\ e.message.role = "user" /\ e.message.calls = {}
                 /\ \E t \in Seq(Msg) : WantedAfter(t) = {} /\ e.tail = {t}
    BY <1>d, CheckpointAdds
  <2>2. PICK t \in Seq(Msg) : WantedAfter(t) = {} /\ e.tail = {t}
    BY <2>1
  <2>3. e \in EntryRec /\ Here' = TakenOn(Append(Branch, e)) /\ (~Here'.done => Unbroken(entries'))
    BY <1>b, <2>1
  <2>4. TakenOn(Append(Branch, e)).from = 0 /\ ~TakenOn(Append(Branch, e)).done
    BY <1>0, <2>1, <2>2, <2>3, OnCheckpoint
  <2> QED BY <2>3, <2>4
\* What is said in a turn, by the model or a tool.
<1>e. ASSUME NEW role \in Roles, NEW c \in SUBSET (Nat \ {0}), NEW n \in Nat, NEW u \in BOOLEAN,
             NEW places, Speak(role, c, n, u, places)
      PROVE  \E m \in Msg : /\ m.role = role /\ m.calls = c /\ m.answers = n
                            /\ Here' = TakeMessage(Here, m)
                            /\ ~Here'.done => Unbroken(entries')
                            /\ \E place \in places : Goto(place, Append(live, m))
  <2> DEFINE m == Spoken(role, c, n, {Id})
  <2>1. PICK e : Adds(e) /\ e.parent = leaf /\ e.kind = "message" /\ e.message = m
    BY <1>e, SpeakAdds
  <2>2. m \in Msg /\ m.role = role /\ m.calls = c /\ m.answers = n
    BY <1>0, IdType, SpokenType
  <2>3. \E place \in places : Goto(place, Append(live, m))
    BY <1>e DEF Speak
  <2> HIDE DEF m
  <2>4. e \in EntryRec /\ Here' = TakenOn(Append(Branch, e)) /\ (~Here'.done => Unbroken(entries'))
    BY <1>b, <2>1
  <2>5. Here' = TakeMessage(Here, m)
    BY <1>0, <2>1, <2>4, OnMessage DEF Here
  <2> QED BY <2>2, <2>3, <2>4, <2>5
<1>1. CASE Submit
  <2> DEFINE m == Spoken("user", {}, 0, {Id})
  <2>1. PICK e : Adds(e) /\ e.parent = leaf /\ e.kind = "message" /\ e.message = m
    BY <1>1, SubmitAdds
  <2>2. m \in Msg /\ m.role = "user" /\ m.calls = {}
    BY <1>0, IdType, SpokenType DEF Roles
  <2>3. turn' = "head" /\ live' = buildSessionContext(entries', leaf').messages
    BY <1>1 DEF Submit, Goto
  <2> HIDE DEF m
  <2>4. e \in EntryRec /\ Here' = TakenOn(Append(Branch, e)) /\ (~Here'.done => Unbroken(entries'))
    BY <1>b, <2>1
  <2>5. Here' = TakeMessage(Here, m)
    BY <1>0, <2>1, <2>4, OnMessage DEF Here
  <2>6. Here'.from = 0 /\ ~Here'.done
    BY <1>0, <2>2, <2>5, UserTaken
  <2> QED BY <1>c, <2>3, <2>4, <2>6 DEF LInv
<1>2. CASE MaybeCompact
  <2>1. turn = "head" /\ turn' \in {"auto", "ask"} /\ UNCHANGED <<entries, leaf, live, open>>
    BY <1>2 DEF MaybeCompact
  <2> QED BY <1>a, <2>1 DEF LInv
<1>3. CASE EndCompaction
  <2>1. /\ CanCompact(live) /\ Resumes \in {"ask", "idle"} /\ (Resumes = "ask" => turn = "auto")
        /\ open' = open
    BY <1>3 DEF EndCompaction, PInv, Resumes
  <2>2. CASE leaf = base
    <3>1. Log(Checkpoint) /\ Goto(Resumes, buildSessionContext(entries', leaf').messages)
      BY <1>3, <2>2 DEF EndCompaction
    <3>2. Unbroken(entries') /\ Here'.from = 0 /\ buildSessionContext(entries', leaf').messages = Here'.out
      BY <1>c, <1>d, <2>1, <3>1
    <3>3. turn' = Resumes /\ (turn' = "ask" => live' = Here'.out)
      BY <3>1, <3>2 DEF Goto
    <3> QED BY <2>1, <3>2, <3>3 DEF LInv
  <2>3. CASE leaf # base
    <3>1. UNCHANGED <<entries, leaf>> /\ Goto(Resumes, live)
      BY <1>3, <2>3 DEF EndCompaction
    <3>2. turn' = Resumes /\ (turn' = "ask" => live' = live)
      BY <3>1 DEF Goto
    <3> QED BY <1>a, <2>1, <3>1, <3>2 DEF LInv
  <2> QED BY <2>2, <2>3
<1>4. CASE FailCompaction
  <2>1. UNCHANGED <<entries, leaf, open>> /\ Goto(Resumes, live)
    BY <1>4 DEF FailCompaction
  <2>2. /\ turn' = Resumes /\ (turn' = "ask" => turn = "auto" /\ live' = live)
        /\ Resumes \in {"ask", "idle"}
    BY <2>1 DEF Goto, Resumes
  <2> QED BY <1>a, <2>1, <2>2 DEF LInv
<1>5. CASE Overflow
  <2>1. CanCompact(live) /\ Log(Checkpoint) /\ turn' = "head"
        /\ live' = buildSessionContext(entries', leaf').messages
    BY <1>5 DEF Overflow, Goto
  <2>2. Unbroken(entries') /\ Here'.from = 0
    BY <1>d, <2>1
  <2> QED BY <1>c, <2>1, <2>2 DEF LInv
<1>6. CASE TakeAnswer
  <2>1. PICK c \in {{}, {1, 2}}, u \in BOOLEAN :
          /\ Speak("assistant", c, 0, u, {IF c = {} THEN "idle" ELSE "tools"})
          /\ open' = c
    BY <1>6 DEF TakeAnswer
  <2>2. c \in SUBSET (Nat \ {0}) /\ "assistant" \in Roles /\ 0 \in Nat
    BY DEF Roles
  <2>3. turn = "ask" /\ Here.out = live /\ Here.from = 0
    BY <1>6 DEF TakeAnswer, LInv
  <2>4. PICK m \in Msg : /\ m.role = "assistant" /\ m.calls = c
                         /\ Here' = TakeMessage(Here, m)
                         /\ ~Here'.done => Unbroken(entries')
                         /\ \E place \in {IF c = {} THEN "idle" ELSE "tools"} : Goto(place, Append(live, m))
    BY <1>e, <2>1, <2>2
  <2>5. /\ Here'.out = Append(live, m) /\ ~Here'.done /\ Here'.expected = c
        /\ Here'.from = 0 <=> c = {}
    BY <1>0, <2>3, <2>4, MessageTaken
  <2>6. turn' = (IF c = {} THEN "idle" ELSE "tools") /\ (turn' # "idle" => live' = Append(live, m))
    BY <2>4 DEF Goto
  <2> QED BY <2>1, <2>4, <2>5, <2>6 DEF LInv
<1>7. CASE Escape
  <2>1. turn' = "idle" /\ UNCHANGED <<entries, leaf>>
    BY <1>7 DEF Escape, Goto
  <2> QED BY <1>a, <2>1 DEF LInv
<1>8. CASE Result
  <2> DEFINE n == Min(open)
             places == IF Cardinality(open) > 1 THEN {"tools"} ELSE {"head", "idle"}
  <2>1. /\ turn = "tools" /\ Here.out = live /\ Here.from # 0 /\ Here.expected = open
        /\ open # {} /\ open' = open \ {n}
    BY <1>8 DEF Result, LInv, PInv
  <2>2. n \in open /\ n \in Nat
    <3>1. open \in SUBSET Nat
      BY <1>0
    <3> QED BY <2>1, <3>1, MinFacts
  <2>3. "tool" \in Roles /\ {} \in SUBSET (Nat \ {0})
    BY DEF Roles
  <2>4. PICK u \in BOOLEAN : Speak("tool", {}, n, u, places)
    BY <1>8 DEF Result
  <2> HIDE DEF n, places
  <2>5. PICK m \in Msg : /\ m.role = "tool" /\ m.answers = n
                         /\ Here' = TakeMessage(Here, m)
                         /\ ~Here'.done => Unbroken(entries')
                         /\ \E place \in places : Goto(place, Append(live, m))
    BY <1>e, <2>2, <2>3, <2>4
  <2>6. /\ Here'.out = Append(live, m) /\ ~Here'.done /\ Here'.expected = open'
        /\ Here'.from = 0 <=> open' = {}
    BY <1>0, <2>1, <2>2, <2>5, ResultTaken
  <2>7. turn' \in places /\ (turn' # "idle" => live' = Append(live, m))
    BY <2>5 DEF Goto
  <2>8. IF open' = {} THEN places = {"head", "idle"} ELSE places = {"tools"}
    BY <1>0, <2>1, <2>2, OpenCalls DEF places
  <2> QED BY <2>5, <2>6, <2>7, <2>8 DEF LInv
<1>9. CASE TakeNote
  <2>1. PICK e : Adds(e) /\ e.parent = leaf /\ e.kind = "model_change"
    BY <1>9, NoteAdds
  <2>2. e \in EntryRec /\ Here' = TakenOn(Append(Branch, e)) /\ (~Here'.done => Unbroken(entries'))
    BY <1>b, <2>1
  <2>3. Here' = Here
    BY <1>0, <2>1, <2>2, OnSetting DEF Here
  <2>4. UNCHANGED <<live, turn, open>>
    BY <1>9 DEF TakeNote
  <2> QED BY <1>0, <2>2, <2>3, <2>4 DEF LInv
<1>10. CASE Compact
  <2>1. turn' = "command" /\ UNCHANGED <<entries, leaf>>
    BY <1>10 DEF Compact, Goto
  <2> QED BY <1>a, <2>1 DEF LInv
<1>11. CASE Navigate
  <2>1. turn' = "idle"
    BY <1>11 DEF Navigate, Jump, Busy
  <2>2. CASE entries' = entries
    BY <1>0, <2>1, <2>2 DEF LInv
  <2>3. CASE \E e : Adds(e) /\ e.kind = "branch_summary" /\ e.message = Spoken("user", {}, 0, {Id})
    <3> DEFINE m == Spoken("user", {}, 0, {Id})
    <3>1. PICK e : Adds(e) /\ e.kind = "branch_summary" /\ e.message = m
      BY <2>3
    <3>2. m \in Msg /\ m.role = "user" /\ m.calls = {}
      BY <1>0, IdType, SpokenType DEF Roles
    <3> HIDE DEF m
    <3> DEFINE b == getBranch(entries, e.parent)
    <3>3. /\ b \in Seq(EntryRec) /\ ~TakenOn(b).done /\ e \in EntryRec
          /\ Here' = TakenOn(Append(b, e)) /\ (~Here'.done => Unbroken(entries'))
      BY <1>0, <3>1, AddsTaken DEF Here, Adds
    <3> HIDE DEF b
    <3>4. Here' = TakeMessage(TakenOn(b), m) /\ TakenOn(b) \in Sane
      BY <3>1, <3>3, OnMessage, TakenOnType
    <3>5. ~Here'.done
      BY <3>2, <3>3, <3>4, UserTaken
    <3> QED BY <2>1, <3>3, <3>5 DEF LInv
  <2> QED BY <1>11, <2>2, <2>3, NavigateMoves
<1>12. CASE Fork
  <2>1. turn' = "idle"
    BY <1>12 DEF Fork, Jump, Busy
  <2>2. PICK x \in Known(entries) : entries' = getBranch(entries, x)
    BY <1>12, ForkMoves
  <2>3. \A y \in Known(entries') : y \in Known(entries) /\ getBranch(entries', y) = getBranch(entries, y)
    BY <1>0, <2>2, BranchOfBranch DEF TInv
  <2>4. Unbroken(entries')
    BY <1>0, <2>3 DEF Unbroken
  <2> QED BY <2>1, <2>4 DEF LInv
<1>13. CASE Restart
  <2>1. turn' = "idle" /\ UNCHANGED <<entries, leaf>>
    BY <1>13 DEF Restart, Goto
  <2> QED BY <1>a, <2>1 DEF LInv
<1>14. CASE UNCHANGED talkVars
  <2>1. UNCHANGED <<entries, leaf, live, turn, open>>
    BY <1>14 DEF talkVars
  <2> QED BY <1>a, <2>1 DEF LInv
<1> QED BY <1>1, <1>2, <1>3, <1>4, <1>5, <1>6, <1>7, <1>8, <1>9, <1>10, <1>11, <1>12, <1>13, <1>14 DEF TalkNext

\* The messages a turn has in memory are those a resume would build from the log at
\* that moment, whatever was navigated, compacted or noted before (agent-loop.ts:44,
\* compact.ts:585, buildSessionContext).
THEOREM MemoryIsTheLog == TalkSpec => []LiveIsTheLog
<1>1. TalkInit => PInv /\ TInv /\ LInv
  <2> SUFFICES ASSUME TalkInit PROVE PInv /\ TInv /\ LInv
    OBVIOUS
  <2>1. PInv /\ TInv
    BY DEF TalkInit, PInv, TInv, Places, NoParent, Grown, Known
  <2>2. ASSUME NEW x \in Known(entries) PROVE ~TakenOn(getBranch(entries, x)).done
    <3>1. IdsIn(entries) = {}
      BY DEF TalkInit, IdsIn, ToSet
    <3>2. getBranch(entries, x) = <<>>
      BY <2>1, <3>1, BranchEnds DEF TInv, PInv, Known
    <3> QED BY <3>2, OnNothing
  <2>3. LInv
    BY <2>2 DEF TalkInit, LInv, Unbroken
  <2> QED BY <2>1, <2>3
<1>2. PInv /\ TInv /\ LInv => LiveIsTheLog
  BY ContextIsTaken DEF LInv, LiveIsTheLog, Context, Here, Branch
<1>3. PInv /\ TInv /\ LInv /\ [TalkNext]_talkVars => (PInv /\ TInv /\ LInv)'
  BY PairedStep, TreeStep, LogStep
<1> QED BY <1>1, <1>2, <1>3, PTL DEF TalkSpec

-----------------------------------------------------------------------------
(* Lists made of the elements of another one, and sums of tokens.            *)

AmongStep(M, S) == [p \in Seq(M) \X M |-> IF p[2] \in S THEN Append(p[1], p[2]) ELSE p[1]]

\* Among is a fold over the list.
LEMMA AmongIsFold ==
    ASSUME NEW M, NEW s \in Seq(M), NEW S
    PROVE  /\ AmongStep(M, S) \in [Seq(M) \X M -> Seq(M)]
           /\ Among(s, S) = Fold(AmongStep(M, S), <<>>, s)
<1> DEFINE f == AmongStep(M, S)
           F(g) == [n \in 0..Len(s) |->
                      IF n = 0 THEN <<>>
                      ELSE IF s[n] \in S THEN Append(g[n - 1], s[n]) ELSE g[n - 1]]
           w == CHOOSE g : g = F(g)
<1>0. Len(s) \in Nat /\ (\A n \in 1..Len(s) : s[n] \in M) /\ <<>> \in Seq(M)
  OBVIOUS
<1>1. f \in [Seq(M) \X M -> Seq(M)]
  BY DEF AmongStep
<1>2. PICK h : FoldRun(h, f, <<>>, s)
  BY <1>0, FoldExists
<1>3. \A n \in 0..Len(s) : h[n] \in Seq(M)
  <2> HIDE DEF f
  <2> QED BY <1>0, <1>1, <1>2, FoldRunType, Zenon
<1>4. h = F(h)
  <2>1. ASSUME NEW n \in 0..Len(s)
        PROVE  h[n] = IF n = 0 THEN <<>>
                      ELSE IF s[n] \in S THEN Append(h[n - 1], s[n]) ELSE h[n - 1]
    <3>1. CASE n # 0
      <4>1. n - 1 \in 0..Len(s) /\ n \in 1..Len(s)
        BY <3>1
      <4>2. <<h[n - 1], s[n]>> \in Seq(M) \X M
        BY <1>0, <1>3, <4>1
      <4>3. h[n] = f[<<h[n - 1], s[n]>>]
        BY <1>2, <3>1 DEF FoldRun
      <4> QED BY <3>1, <4>2, <4>3 DEF AmongStep
    <3>2. CASE n = 0
      BY <1>2, <3>2 DEF FoldRun
    <3> QED BY <3>1, <3>2
  <2>2. h = [n \in 0..Len(s) |-> h[n]]
    BY <1>2 DEF FoldRun
  <2> QED BY <2>1, <2>2
<1>5. Among(s, S) = w[Len(s)]
  BY DEF Among
<1> HIDE DEF F, f
<1>6. w = F(w)
  BY <1>4
<1> HIDE DEF w
<1>7. w[Len(s)] = h[Len(s)]
  <2>1. w[0] = h[0]
    BY <1>0, <1>4, <1>6 DEF F
  <2>2. ASSUME NEW n \in 0..(Len(s) - 1), w[n] = h[n] PROVE w[n + 1] = h[n + 1]
    <3>1. n + 1 \in 0..Len(s) /\ n + 1 # 0 /\ (n + 1) - 1 = n
      BY <1>0
    <3>2. w[n + 1] = IF s[n + 1] \in S THEN Append(w[n], s[n + 1]) ELSE w[n]
      BY <1>6, <3>1 DEF F
    <3>3. h[n + 1] = IF s[n + 1] \in S THEN Append(h[n], s[n + 1]) ELSE h[n]
      BY <1>4, <3>1 DEF F
    <3> QED BY <2>2, <3>2, <3>3
  <2> QED BY <1>0, <2>1, <2>2, SameSteps
<1>8. Among(s, S) = Fold(f, <<>>, s)
  BY <1>0, <1>2, <1>5, <1>7, FoldMatches
<1> QED BY <1>1, <1>8 DEF f

\* One element more.
LEMMA AmongFacts ==
    ASSUME NEW M, NEW s \in Seq(M), NEW m \in M, NEW S
    PROVE  /\ Among(s, S) \in Seq(M)
           /\ Among(<<>>, S) = <<>>
           /\ Among(Append(s, m), S) = IF m \in S THEN Append(Among(s, S), m) ELSE Among(s, S)
<1> DEFINE f == AmongStep(M, S)
<1>1. <<>> \in Seq(M) /\ Append(s, m) \in Seq(M)
  OBVIOUS
<1>2. f \in [Seq(M) \X M -> Seq(M)] /\ Among(s, S) = Fold(f, <<>>, s)
  BY AmongIsFold
<1>3. Among(<<>>, S) = Fold(f, <<>>, <<>>)
  BY <1>1, AmongIsFold
<1>4. Among(Append(s, m), S) = Fold(f, <<>>, Append(s, m))
  BY <1>1, AmongIsFold
<1>5. f[<<Fold(f, <<>>, s), m>>]
        = IF m \in S THEN Append(Fold(f, <<>>, s), m) ELSE Fold(f, <<>>, s)
  <2>1. Fold(f, <<>>, s) \in Seq(M)
    <3> HIDE DEF f
    <3> QED BY <1>1, <1>2, FoldType, Zenon
  <2> QED BY <2>1 DEF AmongStep
<1> HIDE DEF f
<1>6. Fold(f, <<>>, s) \in Seq(M)
  BY <1>1, <1>2, FoldType, Zenon
<1>7. /\ Fold(f, <<>>, <<>>) = <<>>
      /\ Fold(f, <<>>, Append(s, m)) = f[<<Fold(f, <<>>, s), m>>]
  BY FoldFacts
<1> QED BY <1>2, <1>3, <1>4, <1>5, <1>6, <1>7

SumStep == [p \in Nat \X Msg |-> p[1] + p[2].tokens]

\* The tokens of a list are a fold over it.
LEMMA TokensIsFold ==
    ASSUME NEW s \in Seq(Msg)
    PROVE  TokensOf(s) = Fold(SumStep, 0, s)
<1> DEFINE F(g) == [n \in 0..Len(s) |-> IF n = 0 THEN 0 ELSE g[n - 1] + s[n].tokens]
           w == CHOOSE g : g = F(g)
<1>0. Len(s) \in Nat /\ (\A n \in 1..Len(s) : s[n] \in Msg) /\ 0 \in Nat
  OBVIOUS
<1>1. SumStep \in [Nat \X Msg -> Nat]
  BY DEF SumStep, Msg
<1>2. PICK h : FoldRun(h, SumStep, 0, s)
  BY <1>0, FoldExists
<1>3. \A n \in 0..Len(s) : h[n] \in Nat
  BY <1>0, <1>1, <1>2, FoldRunType, Zenon
<1>4. h = F(h)
  <2>1. ASSUME NEW n \in 0..Len(s) PROVE h[n] = IF n = 0 THEN 0 ELSE h[n - 1] + s[n].tokens
    <3>1. CASE n # 0
      <4>1. n - 1 \in 0..Len(s) /\ n \in 1..Len(s)
        BY <3>1
      <4>2. <<h[n - 1], s[n]>> \in Nat \X Msg
        BY <1>0, <1>3, <4>1
      <4>3. h[n] = SumStep[<<h[n - 1], s[n]>>]
        BY <1>2, <3>1 DEF FoldRun
      <4> QED BY <3>1, <4>2, <4>3 DEF SumStep
    <3>2. CASE n = 0
      BY <1>2, <3>2 DEF FoldRun
    <3> QED BY <3>1, <3>2
  <2>2. h = [n \in 0..Len(s) |-> h[n]]
    BY <1>2 DEF FoldRun
  <2> QED BY <2>1, <2>2
<1>5. TokensOf(s) = w[Len(s)]
  BY DEF TokensOf
<1> HIDE DEF F
<1>6. w = F(w)
  BY <1>4
<1> HIDE DEF w
<1>7. w[Len(s)] = h[Len(s)]
  <2>1. w[0] = h[0]
    BY <1>0, <1>4, <1>6 DEF F
  <2>2. ASSUME NEW n \in 0..(Len(s) - 1), w[n] = h[n] PROVE w[n + 1] = h[n + 1]
    <3>1. n + 1 \in 0..Len(s) /\ n + 1 # 0 /\ (n + 1) - 1 = n
      BY <1>0
    <3>2. w[n + 1] = w[n] + s[n + 1].tokens
      BY <1>6, <3>1 DEF F
    <3>3. h[n + 1] = h[n] + s[n + 1].tokens
      BY <1>4, <3>1 DEF F
    <3> QED BY <2>2, <3>2, <3>3
  <2> QED BY <1>0, <2>1, <2>2, SameSteps
<1> QED BY <1>0, <1>2, <1>5, <1>7, FoldMatches

\* One message more.
LEMMA TokensFacts ==
    ASSUME NEW s \in Seq(Msg), NEW m \in Msg
    PROVE  /\ TokensOf(s) \in Nat
           /\ TokensOf(<<>>) = 0
           /\ TokensOf(Append(s, m)) = TokensOf(s) + m.tokens
<1>1. <<>> \in Seq(Msg) /\ Append(s, m) \in Seq(Msg)
  OBVIOUS
<1>2. SumStep \in [Nat \X Msg -> Nat] /\ 0 \in Nat
  BY DEF SumStep, Msg
<1>3. Fold(SumStep, 0, s) \in Nat
  BY <1>2, FoldType, Zenon
<1>4. /\ Fold(SumStep, 0, <<>>) = 0
      /\ Fold(SumStep, 0, Append(s, m)) = SumStep[<<Fold(SumStep, 0, s), m>>]
  BY FoldFacts
<1>5. SumStep[<<Fold(SumStep, 0, s), m>>] = Fold(SumStep, 0, s) + m.tokens
  BY <1>3 DEF SumStep
<1> QED BY <1>1, <1>3, <1>4, <1>5, TokensIsFold

\* The tokens of a message and a list behind it.
LEMMA TokensBehind ==
    ASSUME NEW m \in Msg, NEW s \in Seq(Msg)
    PROVE  TokensOf(<<m>>) = m.tokens /\ TokensOf(<<m>> \o s) = m.tokens + TokensOf(s)
<1> DEFINE whole(n) == TokensOf(<<m>> \o SubSeq(s, 1, n))
           part(n) == TokensOf(SubSeq(s, 1, n))
           T == {n \in Nat : n <= Len(s) => whole(n) = m.tokens + part(n)}
<1>0. Len(s) \in Nat /\ <<>> \in Seq(Msg) /\ <<m>> \in Seq(Msg) /\ m.tokens \in Nat
  BY DEF Msg
<1>1. TokensOf(<<m>>) = m.tokens /\ TokensOf(<<>>) = 0
  <2>1. Append(<<>>, m) = <<m>>
    OBVIOUS
  <2>2. TokensOf(<<>>) = 0 /\ TokensOf(Append(<<>>, m)) = TokensOf(<<>>) + m.tokens
    BY <1>0, TokensFacts
  <2> QED BY <1>0, <2>1, <2>2
<1>2. whole(0) = m.tokens + part(0)
  <2>1. SubSeq(s, 1, 0) = <<>> /\ <<m>> \o <<>> = <<m>>
    OBVIOUS
  <2>2. whole(0) = m.tokens /\ part(0) = 0
    BY <1>1, <2>1
  <2> QED BY <1>0, <2>2
<1>3. ASSUME NEW n \in Nat, n + 1 <= Len(s), whole(n) = m.tokens + part(n)
      PROVE  whole(n + 1) = m.tokens + part(n + 1)
  <2> DEFINE a == SubSeq(s, 1, n)
             x == s[n + 1]
  <2>1. a \in Seq(Msg) /\ x \in Msg /\ <<m>> \o a \in Seq(Msg)
    BY <1>0, <1>3
  <2>2. SubSeq(s, 1, n + 1) = Append(a, x)
    BY <1>0, <1>3
  <2>3. TokensOf(<<m>> \o a) = m.tokens + TokensOf(a)
    BY <1>3
  <2>4. <<m>> \o Append(a, x) = Append(<<m>> \o a, x)
    <3> HIDE DEF a, x
    <3> QED BY <2>1
  <2>5. /\ TokensOf(Append(a, x)) = TokensOf(a) + x.tokens /\ TokensOf(a) \in Nat
        /\ TokensOf(Append(<<m>> \o a, x)) = TokensOf(<<m>> \o a) + x.tokens
    <3> HIDE DEF a, x
    <3> QED BY <2>1, TokensFacts
  <2>6. x.tokens \in Nat
    BY <2>1 DEF Msg
  <2>7. whole(n + 1) = TokensOf(Append(<<m>> \o a, x)) /\ part(n + 1) = TokensOf(Append(a, x))
    BY <2>2, <2>4
  <2> HIDE DEF whole, part, a, x
  <2> QED BY <1>0, <2>3, <2>5, <2>6, <2>7
<1> HIDE DEF whole, part
<1>4. T = Nat
  <2>1. T \in SUBSET Nat /\ 0 \in T
    BY <1>2
  <2>2. \A n \in T : n + 1 \in T
    BY <1>0, <1>3
  <2> HIDE DEF T
  <2> QED BY <2>1, <2>2, Induction
<1>5. whole(Len(s)) = m.tokens + part(Len(s))
  BY <1>0, <1>4
<1>6. SubSeq(s, 1, Len(s)) = s
  BY SubSeqWhole
<1> QED BY <1>1, <1>5, <1>6 DEF whole, part
\* The request for a summary fits, and begins with what was asked for first.
LEMMA SummaryInputFacts ==
    ASSUME NEW s \in Seq(Msg), NEW cap \in Nat
    PROVE  LET input == SummaryInput(s, cap) IN
           /\ TokensOf(input) <= cap
           /\ \A i \in DOMAIN s :
                s[i].role = "user" /\ (\A j \in 1..(i - 1) : s[j].role # "user")
                  => s[i].ids \in {m.ids : m \in ToSet(input)}
<1> DEFINE users == {i \in DOMAIN s : s[i].role = "user"}
           pin == Pinned(s, cap)
           rest == Among(s, {m \in ToSet(s) : pin = <<>> \/ m.ids # pin[1].ids})
           last(n) == SubSeq(rest, Len(rest) - n + 1, Len(rest))
           fits == {n \in 0..Len(rest) : TokensOf(pin) + TokensOf(last(n)) <= cap}
           input == SummaryInput(s, cap)
<1>1. Len(s) \in Nat /\ users \in SUBSET Nat /\ (\A i \in DOMAIN s : s[i] \in Msg)
      /\ DOMAIN s = 1..Len(s) /\ <<>> \in Seq(Msg)
  OBVIOUS
<1>2. TokensOf(<<>>) = 0
  <2>1. Marker({}) \in Msg
    BY MarkerType
  <2> QED BY <1>1, <2>1, TokensFacts
<1>3. \A m \in Msg, n \in Nat : [m EXCEPT !.tokens = n] \in Msg
        /\ [m EXCEPT !.tokens = n].ids = m.ids /\ [m EXCEPT !.tokens = n].tokens = n
  BY DEF Msg
<1>4. pin = <<>> \/ \E m \in Msg : pin = <<m>> /\ m.tokens <= cap
  <2>1. CASE users = {}
    BY <2>1 DEF Pinned
  <2>2. CASE users # {}
    <3> DEFINE x == s[Min(users)]
               n == IF x.tokens < cap \div 3 THEN x.tokens ELSE cap \div 3
    <3>1. Min(users) \in users
      <4> HIDE DEF users
      <4> QED BY <1>1, <2>2, MinFacts
    <3>2. x \in Msg /\ x.tokens \in Nat
      BY <1>1, <3>1 DEF Msg
    <3>3. n \in Nat /\ n <= cap
      <4> HIDE DEF x
      <4> QED BY <3>2
    <3>4. pin = <<[x EXCEPT !.tokens = n]>>
      BY <2>2 DEF Pinned
    <3> HIDE DEF n, x
    <3> QED BY <1>3, <3>2, <3>3, <3>4
  <2> QED BY <2>1, <2>2
<1>5. rest \in Seq(Msg)
  <2>1. Marker({}) \in Msg
    BY MarkerType
  <2> HIDE DEF pin
  <2> QED BY <2>1, AmongFacts
<1>6. input = IF TokensOf(s) <= cap THEN s ELSE pin \o last(Max(fits))
  BY DEF SummaryInput
<1>7. TokensOf(pin) \in Nat /\ TokensOf(pin) <= cap /\ pin \in Seq(Msg)
  <2>1. CASE pin = <<>>
    BY <1>1, <1>2, <2>1
  <2>2. CASE pin # <<>>
    <3>1. PICK m \in Msg : pin = <<m>> /\ m.tokens <= cap
      BY <1>4, <2>2
    <3>2. TokensOf(pin) = m.tokens
      BY <1>1, <3>1, TokensBehind
    <3> QED BY <3>1, <3>2 DEF Msg
  <2> QED BY <2>1, <2>2
<1> HIDE DEF pin, rest
<1>8. Max(fits) \in fits
  <2>1. Len(rest) \in Nat /\ fits \in SUBSET (0..Len(rest))
    BY <1>5
  <2>2. last(0) = <<>>
    BY <1>5
  <2>3. 0 \in fits
    <3> HIDE DEF last
    <3>1. TokensOf(pin) + TokensOf(last(0)) <= cap
      BY <1>2, <1>7, <2>2
    <3> QED BY <2>1, <3>1
  <2> HIDE DEF fits
  <2> QED BY <2>1, <2>3, MaxFacts
<1> DEFINE n == Max(fits)
<1>9. n \in 0..Len(rest) /\ TokensOf(pin) + TokensOf(last(n)) <= cap
  BY <1>8
<1>10. last(n) \in Seq(Msg)
  <2> HIDE DEF n
  <2>1. Len(rest) \in Nat /\ Len(rest) - n + 1 \in 1..(Len(rest) + 1) /\ Len(rest) \in 0..Len(rest)
    BY <1>5, <1>9
  <2> QED BY <1>5, <2>1, SubSeqType
<1> HIDE DEF n, last, fits
<1>11. TokensOf(input) <= cap
  <2>1. CASE TokensOf(s) <= cap
    BY <1>6, <2>1
  <2>2. CASE ~(TokensOf(s) <= cap)
    <3>1. input = pin \o last(n)
      BY <1>6, <2>2 DEF n
    <3>2. TokensOf(pin \o last(n)) = TokensOf(pin) + TokensOf(last(n))
      <4>1. CASE pin = <<>>
        <5>1. pin \o last(n) = last(n) /\ TokensOf(pin) = 0
          BY <1>2, <1>10, <4>1
        <5>2. TokensOf(last(n)) \in Nat
          <6>1. Marker({}) \in Msg
            BY MarkerType
          <6> QED BY <1>10, <6>1, TokensFacts
        <5> QED BY <5>1, <5>2
      <4>2. CASE pin # <<>>
        <5>1. PICK m \in Msg : pin = <<m>>
          BY <1>4, <4>2
        <5> QED BY <1>10, <5>1, TokensBehind
      <4> QED BY <4>1, <4>2
    <3> QED BY <1>9, <3>1, <3>2
  <2> QED BY <2>1, <2>2
<1>12. ASSUME NEW i \in DOMAIN s, s[i].role = "user", \A j \in 1..(i - 1) : s[j].role # "user"
       PROVE  s[i].ids \in {m.ids : m \in ToSet(input)}
  <2>1. CASE TokensOf(s) <= cap
    <3>1. s[i] \in ToSet(input)
      BY <1>6, <2>1 DEF ToSet
    <3> QED BY <3>1
  <2>2. CASE ~(TokensOf(s) <= cap)
    <3>1. i \in users /\ Min(users) \in users /\ Min(users) <= i
      <4>1. i \in users
        BY <1>12
      <4> HIDE DEF users
      <4> QED BY <1>1, <4>1, MinFacts
    <3>2. Min(users) = i
      <4>1. Min(users) \in Nat /\ Min(users) >= 1 /\ s[Min(users)].role = "user" /\ i \in Nat
        BY <1>1, <3>1
      <4> HIDE DEF users
      <4> QED BY <1>12, <3>1, <4>1
    <3> DEFINE k == IF s[i].tokens < cap \div 3 THEN s[i].tokens ELSE cap \div 3
    <3>3. pin = <<[s[i] EXCEPT !.tokens = k]>>
      BY <3>1, <3>2 DEF pin, Pinned
    <3>4. k \in Nat
      BY <1>1 DEF Msg
    <3>5. [s[i] EXCEPT !.tokens = k].ids = s[i].ids
      <4> HIDE DEF k
      <4> QED BY <1>1, <1>3, <3>4
    <3> HIDE DEF k
    <3>6. input = pin \o last(n) /\ Len(pin) = 1
      BY <1>6, <2>2, <3>3 DEF n
    <3>7. 1 \in DOMAIN input /\ input[1] = pin[1]
      <4> DEFINE l == last(n)
      <4>1. pin \in Seq(Msg) /\ l \in Seq(Msg) /\ Len(pin) = 1 /\ input = pin \o l
        BY <1>7, <1>10, <3>6
      <4> HIDE DEF l, input
      <4>2. 1 \in DOMAIN (pin \o l) /\ (pin \o l)[1] = pin[1]
        BY <4>1, ConcatProperties
      <4> QED BY <4>1, <4>2
    <3>8. input[1] \in ToSet(input) /\ input[1].ids = s[i].ids
      BY <3>3, <3>5, <3>7 DEF ToSet
    <3> QED BY <3>8
  <2> QED BY <2>1, <2>2
<1> HIDE DEF input
<1> QED BY <1>11, <1>12 DEF input

\* What a compaction keeps is less than what there was, and the pieces are complete.
LEMMA PiecesFacts ==
    ASSUME NEW s \in Seq(Msg), s # <<>>, WantedAfter(s) = {}, NEW b
    PROVE  LET p == prepareCompaction(s, b) IN
           /\ p.tail # s
           /\ WantedAfter(p.tail) = {} /\ WantedAfter(p.summarized) = {} /\ WantedAfter(p.prefix) = {}
<1>1. PICK k \in 2..(Len(s) + 1) : \E t \in 0..(k - 1) : prepareCompaction(s, b) = Prepared(s, k, t)
  BY CompactionCuts
<1>2. prepareCompaction(s, b).tail = SubSeq(s, k, Len(s))
  BY <1>1 DEF Prepared
<1>3. Len(SubSeq(s, k, Len(s))) < Len(s)
  BY <1>1
<1>4. Complete(prepareCompaction(s, b))
  BY PiecesAreComplete
<1> QED BY <1>2, <1>3, <1>4 DEF Complete

\* Whatever part of the branch a compaction keeps, it takes something out and cuts
\* between complete tool turns, and the request for its summary fits and begins with
\* what the user asked for first (compact.ts:193-273, buildSummaryPrompt).
THEOREM CompactionsAreSafe == TalkSpec => []CompactionIsSafe
<1>1. PInv => CompactionIsSafe
  <2> SUFFICES ASSUME PInv, turn = "ask"
               PROVE  CompactionIsSafe
    BY DEF CompactionIsSafe
  <2>1. live \in Seq(Msg) /\ WantedAfter(live) = {}
    BY DEF PInv
  <2>2. ASSUME CanCompact(live), NEW budget \in 0..(Keep + 2)
        PROVE  LET p == prepareCompaction(Uncompacted(live), budget) IN
               /\ p.tail # Uncompacted(live)
               /\ WellPaired(p.tail) /\ WellPaired(p.summarized) /\ WellPaired(p.prefix)
    <3>1. Uncompacted(live) \in Seq(Msg) /\ Uncompacted(live) # <<>>
          /\ WantedAfter(Uncompacted(live)) = {}
      BY <2>1, <2>2, UncompactedType DEF CanCompact, Cuttable, WellPaired
    <3> QED BY <3>1, PiecesFacts DEF WellPaired
  <2>3. ASSUME NEW cap \in 3..(Window + 2)
        PROVE  LET input == SummaryInput(live, cap) IN
               /\ TokensOf(input) <= cap
               /\ \A i \in DOMAIN live :
                    live[i].role = "user" /\ (\A j \in 1..(i - 1) : live[j].role # "user")
                      => live[i].ids \in {m.ids : m \in ToSet(input)}
    <3>1. cap \in Nat
      BY ConversationAssumption
    <3> QED BY <2>1, <3>1, SummaryInputFacts
  <2> QED BY <2>2, <2>3 DEF CompactionIsSafe
<1>2. TalkInit => PInv
  BY DEF TalkInit, PInv, Places, NoParent
<1> QED BY <1>1, <1>2, PairedStep, PTL DEF TalkSpec

-----------------------------------------------------------------------------
(* Nothing is forgotten: the ids a list of messages stands for.              *)

Ordered(l) == \A i, j \in DOMAIN l : i < j => \A a \in l[i].ids, b \in l[j].ids : a < b

\* The ids of a list are those of its messages.
LEMMA StoodFor ==
    ASSUME NEW l \in Seq(Msg)
    PROVE  /\ Len(l) \in Nat /\ DOMAIN l = 1..Len(l)
           /\ \A i \in 1..Len(l) : l[i] \in Msg /\ l[i].ids \in SUBSET Nat
           /\ \A n : n \in IdsStoodFor(l) <=> \E i \in 1..Len(l) : n \in l[i].ids
<1>1. Len(l) \in Nat /\ DOMAIN l = 1..Len(l) /\ \A i \in 1..Len(l) : l[i] \in Msg
  OBVIOUS
<1>2. \A m \in Msg : m.ids \in SUBSET Nat
  BY DEF Msg
<1>3. ToSet(l) = {l[i] : i \in 1..Len(l)}
  BY <1>1 DEF ToSet
<1>4. ASSUME NEW n PROVE n \in IdsStoodFor(l) <=> \E i \in 1..Len(l) : n \in l[i].ids
  BY <1>3 DEF IdsStoodFor
<1> QED BY <1>1, <1>2, <1>4

\* Messages are put together without changing their order: what the list stands
\* for stays, and so does its order.
LEMMA Gathered ==
    ASSUME NEW l \in Seq(Msg), NEW r \in Seq(Msg), NEW f \in [1..Len(l) -> 1..Len(r)],
           \A i, j \in 1..Len(l) : i <= j => f[i] <= f[j],
           \A j \in 1..Len(l) : l[j].ids \subseteq r[f[j]].ids,
           \A i \in 1..Len(r) : \A n \in r[i].ids : \E j \in 1..Len(l) : f[j] = i /\ n \in l[j].ids
    PROVE  /\ IdsStoodFor(r) = IdsStoodFor(l)
           /\ Ordered(l) => Ordered(r)
<1>1. IdsStoodFor(r) = IdsStoodFor(l)
  <2>1. ASSUME NEW n \in IdsStoodFor(l) PROVE n \in IdsStoodFor(r)
    <3>1. PICK j \in 1..Len(l) : n \in l[j].ids
      BY StoodFor
    <3>2. f[j] \in 1..Len(r) /\ n \in r[f[j]].ids
      BY <3>1
    <3> QED BY <3>2, StoodFor
  <2>2. ASSUME NEW n \in IdsStoodFor(r) PROVE n \in IdsStoodFor(l)
    <3>1. PICK i \in 1..Len(r) : n \in r[i].ids
      BY StoodFor
    <3>2. PICK j \in 1..Len(l) : f[j] = i /\ n \in l[j].ids
      BY <3>1
    <3> QED BY <3>2, StoodFor
  <2> QED BY <2>1, <2>2
<1>2. ASSUME Ordered(l), NEW i \in DOMAIN r, NEW j \in DOMAIN r, i < j,
             NEW a \in r[i].ids, NEW b \in r[j].ids
      PROVE  a < b
  <2>1. DOMAIN r = 1..Len(r) /\ DOMAIN l = 1..Len(l) /\ Len(l) \in Nat /\ Len(r) \in Nat
    BY StoodFor
  <2>2. PICK p \in 1..Len(l) : f[p] = i /\ a \in l[p].ids
    BY <2>1
  <2>3. PICK q \in 1..Len(l) : f[q] = j /\ b \in l[q].ids
    BY <2>1
  <2>4. p < q
    <3>1. q <= p => f[q] <= f[p]
      OBVIOUS
    <3>2. i \in Nat /\ j \in Nat /\ p \in Nat /\ q \in Nat
      BY <2>1
    <3> QED BY <1>2, <2>2, <2>3, <3>1, <3>2
  <2> QED BY <1>2, <2>1, <2>2, <2>3, <2>4 DEF Ordered
<1>3. Ordered(l) => Ordered(r)
  BY <1>2 DEF Ordered
<1> QED BY <1>1, <1>3

\* One message more, about what came after everything else.
LEMMA OneMore ==
    ASSUME NEW l \in Seq(Msg), NEW m \in Msg
    PROVE  /\ IdsStoodFor(Append(l, m)) = IdsStoodFor(l) \cup m.ids
           /\ Ordered(l) /\ (\A a \in IdsStoodFor(l), b \in m.ids : a < b) => Ordered(Append(l, m))
<1> DEFINE r == Append(l, m)
           L == Len(l)
<1>1. r \in Seq(Msg) /\ L \in Nat /\ Len(r) = L + 1 /\ r[L + 1] = m /\ \A i \in 1..L : r[i] = l[i]
  OBVIOUS
<1> HIDE DEF r
<1>2. \A i \in 1..Len(r) : i \in 1..L \/ i = L + 1
  BY <1>1
<1>3. \A n : n \in IdsStoodFor(r) <=> \E i \in 1..(L + 1) : n \in r[i].ids
  BY <1>1, StoodFor
<1>4. \A n : n \in IdsStoodFor(l) <=> \E i \in 1..L : n \in l[i].ids
  BY StoodFor
<1>5. IdsStoodFor(r) = IdsStoodFor(l) \cup m.ids
  <2>1. ASSUME NEW n PROVE n \in IdsStoodFor(r) <=> n \in IdsStoodFor(l) \/ n \in m.ids
    <3>1. (\E i \in 1..(L + 1) : n \in r[i].ids) <=> (\E i \in 1..L : n \in r[i].ids) \/ n \in r[L + 1].ids
      BY <1>1
    <3>2. (\E i \in 1..L : n \in r[i].ids) <=> (\E i \in 1..L : n \in l[i].ids)
      BY <1>1
    <3> QED BY <1>1, <1>3, <1>4, <3>1, <3>2
  <2> QED BY <2>1
<1>6. ASSUME Ordered(l), \A a \in IdsStoodFor(l), b \in m.ids : a < b,
             NEW i \in DOMAIN r, NEW j \in DOMAIN r, i < j, NEW a \in r[i].ids, NEW b \in r[j].ids
      PROVE  a < b
  <2>1. i \in 1..(L + 1) /\ j \in 1..(L + 1) /\ i \in 1..L /\ DOMAIN l = 1..L
    BY <1>1, <1>6, StoodFor
  <2>2. a \in l[i].ids /\ a \in IdsStoodFor(l)
    BY <1>1, <1>4, <2>1
  <2>3. CASE j = L + 1
    BY <1>1, <1>6, <2>2, <2>3
  <2>4. CASE j \in 1..L
    <3>1. b \in l[j].ids
      BY <1>1, <2>4
    <3> QED BY <1>6, <2>1, <2>2, <2>4, <3>1 DEF Ordered
  <2> QED BY <2>1, <2>3, <2>4
<1>7. Ordered(l) /\ (\A a \in IdsStoodFor(l), b \in m.ids : a < b) => Ordered(r)
  BY <1>6 DEF Ordered
<1> QED BY <1>5, <1>7 DEF r

\* A list whose end is taken back says the same with one message less or more.
LEMMA RetractedStands ==
    ASSUME NEW t \in Sane, t.from # 0
    PROVE  /\ Retracted(t).out \in Seq(Msg)
           /\ IdsStoodFor(Retracted(t).out) = IdsStoodFor(t.out)
           /\ Ordered(t.out) => Ordered(Retracted(t).out)
           /\ Len(Retracted(t).out) = t.from /\ Retracted(t).from = 0 /\ ~Retracted(t).done
           /\ \A i \in 1..(t.from - 1) : Retracted(t).out[i] = t.out[i]
           /\ Retracted(t).out[t.from] = Marker(IdsStoodFor(SubSeq(t.out, t.from, Len(t.out))))
<1> DEFINE l == t.out
           k == t.from
           rest == SubSeq(l, k, Len(l))
           x == Marker(IdsStoodFor(rest))
           r == Append(SubSeq(l, 1, k - 1), x)
           f == [j \in 1..Len(l) |-> IF j <= k THEN j ELSE k]
<1>1. l \in Seq(Msg) /\ k \in 1..Len(l) /\ Len(l) \in Nat
  BY DEF Sane, States, OpenTurn
<1>2. /\ rest \in Seq(Msg) /\ Len(rest) = Len(l) - k + 1
      /\ \A i \in 1..Len(rest) : rest[i] = l[k + i - 1]
  BY <1>1
<1>3. Retracted(t).out = r /\ Retracted(t).from = 0 /\ ~Retracted(t).done
  BY Zenon DEF Retracted
<1> HIDE DEF rest
<1>4. x \in Msg /\ x.ids = IdsStoodFor(rest)
  BY <1>2, IdsType, MarkerType
<1>5. \A n : n \in IdsStoodFor(rest) <=> \E j \in k..Len(l) : n \in l[j].ids
  <2>1. ASSUME NEW n PROVE n \in IdsStoodFor(rest) <=> \E i \in 1..Len(rest) : n \in rest[i].ids
    BY <1>2, StoodFor
  <2>2. ASSUME NEW i \in 1..Len(rest) PROVE rest[i] = l[k + i - 1] /\ k + i - 1 \in k..Len(l)
    BY <1>1, <1>2
  <2>3. ASSUME NEW j \in k..Len(l) PROVE j - k + 1 \in 1..Len(rest) /\ rest[j - k + 1] = l[j]
    <3>1. j - k + 1 \in 1..Len(rest) /\ k + (j - k + 1) - 1 = j
      BY <1>1, <1>2
    <3> QED BY <1>2, <3>1
  <2> QED BY <2>1, <2>2, <2>3
<1> HIDE DEF x
<1>6. /\ r \in Seq(Msg) /\ Len(r) = k /\ r[k] = x /\ \A i \in 1..(k - 1) : r[i] = l[i]
  BY <1>1, <1>4
<1> HIDE DEF l, k, r
<1>7. f \in [1..Len(l) -> 1..Len(r)] /\ \A i, j \in 1..Len(l) : i <= j => f[i] <= f[j]
  BY <1>1, <1>6
<1>8. ASSUME NEW j \in 1..Len(l) PROVE l[j].ids \subseteq r[f[j]].ids
  <2>1. CASE j < k
    BY <1>1, <1>6, <2>1
  <2>2. CASE j >= k
    <3>1. f[j] = k /\ j \in k..Len(l)
      BY <1>1, <2>2
    <3> QED BY <1>4, <1>5, <1>6, <3>1
  <2> QED BY <1>1, <2>1, <2>2
<1>9. ASSUME NEW i \in 1..Len(r), NEW n \in r[i].ids
      PROVE  \E j \in 1..Len(l) : f[j] = i /\ n \in l[j].ids
  <2>1. CASE i < k
    <3>1. i \in 1..Len(l) /\ f[i] = i /\ r[i] = l[i]
      BY <1>1, <1>6, <2>1
    <3> QED BY <3>1
  <2>2. CASE i = k
    <3>1. PICK j \in k..Len(l) : n \in l[j].ids
      BY <1>4, <1>5, <1>6, <2>2
    <3>2. j \in 1..Len(l) /\ f[j] = k
      BY <1>1
    <3> QED BY <2>2, <3>1, <3>2
  <2> QED BY <1>1, <1>6, <2>1, <2>2
<1> HIDE DEF f
<1>10. IdsStoodFor(r) = IdsStoodFor(l) /\ (Ordered(l) => Ordered(r))
  BY <1>1, <1>6, <1>7, <1>8, <1>9, Gathered
<1> QED BY <1>3, <1>6, <1>10 DEF r, l, k, x, rest
\* What a compaction writes begins with a summary, and nothing else does.
LEMMA SummaryMarks ==
    ASSUME NEW r \in Roles, NEW c \in SUBSET (Nat \ {0}), NEW n \in Nat, NEW i \in SUBSET Nat
    PROVE  /\ ~Spoken(r, c, n, i).summary /\ ~Marker(i).summary
           /\ Summary(i).summary
<1>1. ~Spoken(r, c, n, i).summary
  BY DEF Spoken
<1>2. ~Marker(i).summary
  BY DEF Marker, Spoken
<1>3. Summary(i).summary
  BY DEF Summary, Spoken
<1> QED BY <1>1, <1>2, <1>3

\* What a message does to a list that goes on: it is added, if need be to what is
\* left of the list when its open turn is taken back.
LEMMA TakenParts ==
    ASSUME NEW t \in Sane, ~t.done, NEW m \in Msg, ~TakeMessage(t, m).done
    PROVE  \/ /\ TakeMessage(t, m).out = Append(t.out, m)
              /\ TakeMessage(t, m).from \in {0, t.from, Len(t.out) + 1}
           \/ /\ t.from # 0 /\ TakeMessage(t, m).out = Append(Retracted(t).out, m)
              /\ TakeMessage(t, m).from \in {0, t.from + 1}
<1> DEFINE u == TakeMessage(t, m)
<1>1. t \in States /\ t.from \in Nat
  BY DEF Sane, States
<1>2. \A s \in States : Stopped(s).done
  BY DEF Stopped, States
<1>3. ASSUME NEW s \in States, m.role # "tool"
      PROVE  TakeOther(s, m).out = Append(s.out, m) /\ TakeOther(s, m).from \in {0, Len(s.out) + 1}
  BY DEF TakeOther, States
<1>4. CASE m.role = "tool"
  <2>1. u = TakeResult(t, m)
    BY <1>4 DEF TakeMessage
  <2>2. t.from # 0
    <3>1. ASSUME t.from = 0 PROVE FALSE
      <4> DEFINE s == [t EXCEPT !.out = Append(@, Marker({}))]
      <4>1. s \in States
        BY <1>1, MarkerType DEF States
      <4>2. u = Stopped(s)
        BY <2>1, <3>1 DEF TakeResult
      <4> HIDE DEF s
      <4> QED BY <1>2, <4>1, <4>2
    <3> QED BY <3>1
  <2>3. m.answers \in t.expected
    <3>1. ASSUME m.answers \notin t.expected PROVE FALSE
      <4>1. u = Stopped(Retracted(t))
        BY <2>1, <2>2, <3>1 DEF TakeResult
      <4>2. Retracted(t) \in States
        BY <2>2, RetractedSane DEF Sane
      <4> QED BY <1>2, <4>1, <4>2
    <3> QED BY <3>1
  <2>4. u.out = Append(t.out, m) /\ u.from \in {0, t.from}
    <3> DEFINE left == t.expected \ {m.answers}
               f == IF left = {} THEN 0 ELSE t.from
    <3>1. u = [t EXCEPT !.out = Append(@, m), !.expected = left, !.from = f]
      BY <1>1, <2>1, <2>2, <2>3 DEF TakeResult, States
    <3>2. f \in {0, t.from}
      OBVIOUS
    <3> HIDE DEF f, left, u
    <3> QED BY <1>1, <3>1, <3>2 DEF States
  <2> QED BY <2>4
<1>5. CASE m.role # "tool" /\ t.from = 0
  <2>1. u = TakeOther(t, m)
    BY <1>5 DEF TakeMessage
  <2> QED BY <1>1, <1>3, <1>5, <2>1
<1>6. CASE m.role # "tool" /\ t.from # 0
  <2> DEFINE c == Retracted(t)
  <2>1. c \in States
    BY <1>6, RetractedSane DEF Sane
  <2>2. m.role = "user"
    <3>1. ASSUME m.role # "user" PROVE FALSE
      <4>1. u = Stopped(c)
        BY <1>6, <3>1 DEF TakeMessage
      <4> HIDE DEF c
      <4> QED BY <1>2, <2>1, <4>1
    <3> QED BY <3>1
  <2>3. u = TakeOther(c, m)
    BY <1>6, <2>2 DEF TakeMessage
  <2>4. Len(c.out) = t.from
    BY <1>6, RetractedStands
  <2> HIDE DEF c, u
  <2>5. u.out = Append(c.out, m) /\ u.from \in {0, Len(c.out) + 1}
    BY <1>3, <1>6, <2>1, <2>3
  <2> QED BY <1>6, <2>4, <2>5 DEF c, u
<1> QED BY <1>4, <1>5, <1>6
\* What a list has to stand for: all that was said on the branch, in order and
\* nothing later than its leaf; and it begins with the last summary of the branch,
\* or with none.
Headed(b, l) ==
  IF Marks(b) = {} THEN ~Inline(l) ELSE Inline(l) /\ l[1].ids = b[Max(Marks(b))].message.ids

Stands(b, x, l) ==
  /\ SaidOn(b) \subseteq IdsStoodFor(l) /\ Ordered(l) /\ Headed(b, l)
  /\ \A n \in IdsStoodFor(l) : n <= x

\* An open turn that is taken back stands for what it said.
LEMMA StandsRetracted ==
    ASSUME NEW b, NEW x, NEW t \in Sane, t.from # 0, Stands(b, x, t.out), Marks(b) # {} => t.from # 1
    PROVE  Stands(b, x, Retracted(t).out)
<1> DEFINE l == t.out
           r == Retracted(t).out
           c == Marker(IdsStoodFor(SubSeq(l, t.from, Len(l))))
<1>1. /\ r \in Seq(Msg) /\ IdsStoodFor(r) = IdsStoodFor(l) /\ (Ordered(l) => Ordered(r))
      /\ Len(r) = t.from /\ (\A i \in 1..(t.from - 1) : r[i] = l[i]) /\ r[t.from] = c
  BY RetractedStands
<1>2. l \in Seq(Msg) /\ t.from \in 1..Len(l)
  BY DEF Sane, States, OpenTurn
<1>3. ~c.summary
  <2>1. SubSeq(l, t.from, Len(l)) \in Seq(Msg)
    BY <1>2
  <2>2. IdsStoodFor(SubSeq(l, t.from, Len(l))) \in SUBSET Nat
    BY <2>1, IdsType
  <2> QED BY <2>2, SummaryMarks DEF Roles
<1> HIDE DEF l, r, c
<1>4. r # <<>> /\ (t.from = 1 => r[1] = c) /\ (t.from # 1 => r[1] = l[1])
  BY <1>1, <1>2
<1>5. l # <<>>
  BY <1>2
<1>6. Headed(b, l)
  BY DEF Stands, l
<1>7. Headed(b, r)
  BY <1>3, <1>4, <1>5, <1>6 DEF Headed, Inline
<1> QED BY <1>1, <1>7 DEF Stands, l, r

\* The parts of a branch with one entry more.
LEMMA BranchAppend ==
    ASSUME NEW b \in Seq(EntryRec), NEW e \in EntryRec
    PROVE  /\ e.kind \in {"message", "branch_summary"} => SaidOn(Append(b, e)) = SaidOn(b) \cup {e.id}
           /\ e.kind \notin {"message", "branch_summary"} => SaidOn(Append(b, e)) = SaidOn(b)
           /\ e.kind # "compaction" => /\ Marks(Append(b, e)) = Marks(b)
                                       /\ \A i \in Marks(b) : Append(b, e)[i] = b[i]
           /\ e.kind = "compaction" => Max(Marks(Append(b, e))) = Len(b) + 1
           /\ Append(b, e)[Len(b) + 1] = e
           /\ Marks(b) # {} => Max(Marks(b)) \in Marks(b)
           /\ e.kind = "compaction" => Marks(Append(b, e)) # {}
<1> DEFINE c == Append(b, e)
           L == Len(b)
<1>1. /\ L \in Nat /\ DOMAIN b = 1..L /\ c \in Seq(EntryRec) /\ Len(c) = L + 1 /\ DOMAIN c = 1..(L + 1)
      /\ c[L + 1] = e /\ \A i \in 1..L : c[i] = b[i]
  BY AppendProperties
<1> HIDE DEF c, L
<1>2. ToSet(c) = ToSet(b) \cup {e}
  <2>1. ToSet(c) = {c[i] : i \in 1..(L + 1)} /\ ToSet(b) = {b[i] : i \in 1..L}
    BY <1>1 DEF ToSet
  <2>2. 1..(L + 1) = 1..L \cup {L + 1}
    BY <1>1
  <2> QED BY <1>1, <2>1, <2>2
<1>3. /\ e.kind \in {"message", "branch_summary"} => SaidOn(c) = SaidOn(b) \cup {e.id}
      /\ e.kind \notin {"message", "branch_summary"} => SaidOn(c) = SaidOn(b)
  BY <1>2 DEF SaidOn
<1>4. Marks(b) = {i \in 1..L : b[i].kind = "compaction"} /\ Marks(c) = {i \in 1..(L + 1) : c[i].kind = "compaction"}
  BY <1>1 DEF Marks
<1>5. e.kind # "compaction" => Marks(c) = Marks(b) /\ \A i \in Marks(b) : c[i] = b[i]
  BY <1>1, <1>4
<1>6. ASSUME e.kind = "compaction" PROVE Max(Marks(c)) = L + 1 /\ Marks(c) # {}
  <2>1. L + 1 \in Marks(c) /\ Marks(c) \in SUBSET (0..(L + 1)) /\ L + 1 \in Nat
    BY <1>1, <1>4, <1>6
  <2>2. Max(Marks(c)) \in Marks(c) /\ \A i \in Marks(c) : i <= Max(Marks(c))
    BY <2>1, MaxFacts
  <2>3. Max(Marks(c)) \in 0..(L + 1) /\ L + 1 <= Max(Marks(c))
    BY <2>1, <2>2
  <2> QED BY <1>1, <2>1, <2>3
<1>7. Marks(b) # {} => Max(Marks(b)) \in Marks(b)
  <2>1. Marks(b) \in SUBSET (0..L)
    BY <1>1, <1>4
  <2> QED BY <1>1, <2>1, MaxFacts
<1> QED BY <1>1, <1>3, <1>5, <1>6, <1>7 DEF c, L

\* What is said after everything else is stood for when it is added.
LEMMA StandsAppend ==
    ASSUME NEW b \in Seq(EntryRec), NEW x \in Nat, NEW e \in EntryRec, x < e.id,
           e.kind \in {"message", "branch_summary"}, e.message.ids = {e.id}, ~e.message.summary,
           NEW l \in Seq(Msg), Stands(b, x, l)
    PROVE  Stands(Append(b, e), e.id, Append(l, e.message))
<1> DEFINE m == e.message
           r == Append(l, m)
           c == Append(b, e)
<1>1. m \in Msg /\ m.ids = {e.id} /\ ~m.summary /\ e.id \in Nat
  BY DEF EntryRec
<1>2. IdsStoodFor(l) \in SUBSET Nat /\ \A n \in IdsStoodFor(l) : n <= x
  BY IdsType DEF Stands
<1>3. IdsStoodFor(r) = IdsStoodFor(l) \cup {e.id} /\ Ordered(r)
  <2>1. \A n \in IdsStoodFor(l), k \in m.ids : n < k
    BY <1>1, <1>2
  <2>2. Ordered(l)
    BY DEF Stands
  <2> HIDE DEF m
  <2> QED BY <1>1, <2>1, <2>2, OneMore
<1>4. \A n \in IdsStoodFor(r) : n <= e.id
  BY <1>1, <1>2, <1>3
<1>5. SaidOn(c) = SaidOn(b) \cup {e.id}
  BY BranchAppend
<1>6. Marks(c) = Marks(b) /\ (Marks(b) # {} => c[Max(Marks(b))] = b[Max(Marks(b))])
  BY BranchAppend
<1>7. /\ r # <<>> /\ (l = <<>> => r[1] = m) /\ (l # <<>> => r[1] = l[1])
  <2> HIDE DEF m
  <2> QED BY <1>1
<1>8. Headed(b, l)
  BY DEF Stands
<1> HIDE DEF m, r, c
<1>9. Headed(c, r)
  BY <1>1, <1>6, <1>7, <1>8 DEF Headed, Inline
<1>10. SaidOn(b) \subseteq IdsStoodFor(l)
  BY DEF Stands
<1>11. Stands(c, e.id, r)
  BY <1>3, <1>4, <1>5, <1>9, <1>10 DEF Stands
<1> QED BY <1>11 DEF c, r, m
\* A setting says nothing.
LEMMA StandsSetting ==
    ASSUME NEW b \in Seq(EntryRec), NEW x \in Nat, NEW e \in EntryRec, x < e.id,
           e.kind = "model_change", NEW l \in Seq(Msg), Stands(b, x, l)
    PROVE  Stands(Append(b, e), e.id, l) /\ Marks(Append(b, e)) = Marks(b)
<1>1. /\ SaidOn(Append(b, e)) = SaidOn(b) /\ Marks(Append(b, e)) = Marks(b)
      /\ Marks(b) # {} => Append(b, e)[Max(Marks(b))] = b[Max(Marks(b))]
  BY BranchAppend
<1>2. Headed(Append(b, e), l)
  BY <1>1 DEF Stands, Headed
<1>3. \A n \in IdsStoodFor(l) : n <= e.id
  <2>1. IdsStoodFor(l) \in SUBSET Nat /\ e.id \in Nat /\ \A n \in IdsStoodFor(l) : n <= x
    BY IdsType DEF Stands, EntryRec
  <2> QED BY <2>1
<1> QED BY <1>1, <1>2, <1>3 DEF Stands

\* A summary and a tail behind it stand for what they were made from.
LEMMA CompactedList ==
    ASSUME NEW l \in Seq(Msg), NEW n \in 1..Len(l), NEW m \in Msg, NEW t \in Seq(Msg),
           \A a : a \in m.ids <=> \E j \in 1..n : a \in l[j].ids,
           Len(t) = Len(l) - n, \A i \in 1..Len(t) : t[i] = l[n + i]
    PROVE  /\ IdsStoodFor(<<m>> \o t) = IdsStoodFor(l)
           /\ Ordered(l) => Ordered(<<m>> \o t)
<1> DEFINE r == <<m>> \o t
           f == [j \in 1..Len(l) |-> IF j <= n THEN 1 ELSE j - n + 1]
<1>1. Len(l) \in Nat /\ n \in Nat /\ 1 <= n /\ n <= Len(l) /\ Len(t) \in Nat
  OBVIOUS
<1>2. /\ r \in Seq(Msg) /\ Len(r) = Len(l) - n + 1 /\ r[1] = m
      /\ \A i \in 1..Len(t) : r[i + 1] = t[i]
  <2> DEFINE h == <<m>>
  <2>1. h \in Seq(Msg) /\ Len(h) = 1 /\ h[1] = m /\ r = h \o t
    OBVIOUS
  <2> HIDE DEF h, r
  <2>2. /\ r \in Seq(Msg) /\ Len(r) = 1 + Len(t)
        /\ \A i \in 1..Len(r) : r[i] = IF i <= Len(h) THEN h[i] ELSE t[i - Len(h)]
    <3>1. /\ h \o t \in Seq(Msg) /\ Len(h \o t) = Len(h) + Len(t)
          /\ \A i \in 1..(Len(h) + Len(t)) : (h \o t)[i] = IF i <= Len(h) THEN h[i] ELSE t[i - Len(h)]
      BY <2>1, ConcatProperties, Zenon
    <3> QED BY <2>1, <3>1
  <2>3. \A i \in 1..Len(t) : i + 1 \in 1..Len(r) /\ ~(i + 1 <= 1) /\ (i + 1) - 1 = i
    BY <1>1, <2>2
  <2>4. \A i \in 1..Len(t) : r[i + 1] = t[i]
    BY <2>1, <2>2, <2>3
  <2>5. 1 \in 1..Len(r) /\ 1 <= Len(h)
    BY <1>1, <2>1, <2>2
  <2>6. r[1] = m
    BY <2>1, <2>2, <2>5
  <2> QED BY <1>1, <2>2, <2>4, <2>6
<1> HIDE DEF r
<1>3. \A j \in 1..Len(l) : j > n => r[j - n + 1] = l[j] /\ j - n + 1 \in 2..Len(r)
  <2>1. ASSUME NEW j \in 1..Len(l), j > n PROVE r[j - n + 1] = l[j] /\ j - n + 1 \in 2..Len(r)
    <3>1. j - n \in 1..Len(t) /\ n + (j - n) = j /\ j - n + 1 \in 2..Len(r)
      BY <1>1, <1>2, <2>1
    <3>2. r[(j - n) + 1] = t[j - n] /\ t[j - n] = l[n + (j - n)]
      BY <1>2, <3>1
    <3> QED BY <3>1, <3>2
  <2> QED BY <2>1
<1>4. f \in [1..Len(l) -> 1..Len(r)] /\ \A i, j \in 1..Len(l) : i <= j => f[i] <= f[j]
  BY <1>1, <1>2
<1>5. ASSUME NEW j \in 1..Len(l) PROVE l[j].ids \subseteq r[f[j]].ids
  <2>1. CASE j <= n
    <3>1. f[j] = 1 /\ j \in 1..n
      BY <1>1, <2>1
    <3> QED BY <1>2, <3>1
  <2>2. CASE j > n
    <3>1. f[j] = j - n + 1
      BY <1>1, <2>2
    <3> HIDE DEF f
    <3> QED BY <1>3, <2>2, <3>1
  <2> QED BY <1>1, <2>1, <2>2
<1>6. ASSUME NEW i \in 1..Len(r), NEW a \in r[i].ids
      PROVE  \E j \in 1..Len(l) : f[j] = i /\ a \in l[j].ids
  <2>1. CASE i = 1
    <3>1. PICK j \in 1..n : a \in l[j].ids
      BY <1>2, <1>6, <2>1
    <3>2. j \in 1..Len(l) /\ f[j] = 1
      BY <1>1
    <3> QED BY <2>1, <3>1, <3>2
  <2>2. CASE i > 1
    <3>1. i - 1 + n \in 1..Len(l) /\ i - 1 + n > n /\ (i - 1 + n) - n + 1 = i
      BY <1>1, <1>2, <2>2
    <3>2. f[i - 1 + n] = i /\ r[i] = l[i - 1 + n]
      <4>1. r[(i - 1 + n) - n + 1] = l[i - 1 + n]
        BY <1>3, <3>1
      <4>2. f[i - 1 + n] = i
        BY <1>1, <3>1
      <4> QED BY <3>1, <4>1, <4>2
    <3> QED BY <1>6, <3>1, <3>2
  <2> QED BY <1>1, <1>2, <2>1, <2>2
<1> HIDE DEF f
<1> QED BY <1>2, <1>4, <1>5, <1>6, Gathered DEF r

\* A checkpoint stands for all that was stood for before it.
LEMMA StandsCheckpoint ==
    ASSUME NEW b \in Seq(EntryRec), NEW x \in Nat, NEW e \in EntryRec, x < e.id, e.kind = "compaction",
           NEW l \in Seq(Msg), Stands(b, x, l), CanCompact(l), NEW k,
           e.message = SummaryOf(b, l, k)
    PROVE  Stands(Append(b, e), e.id, <<e.message>> \o RetainedTail(l, k))
<1> DEFINE u == Uncompacted(l)
           off == IF Inline(l) THEN 1 ELSE 0
           m == e.message
           tail == RetainedTail(l, k)
           previous == previousSummary(b, l)
<1>1. /\ u \in Seq(Msg) /\ u # <<>> /\ WantedAfter(u) = {} /\ Len(u) = Len(l) - off
      /\ Len(l) \in Nat /\ off <= Len(l)
      /\ \A i \in 1..Len(u) : u[i] = l[i + off]
  <2>1. u \in Seq(Msg) /\ u # <<>> /\ WantedAfter(u) = {}
    BY UncompactedType DEF CanCompact, Cuttable, WellPaired
  <2>2. CASE Inline(l)
    <3>1. u = Tail(l) /\ off = 1 /\ l # <<>>
      BY <2>2 DEF Uncompacted, Inline
    <3> HIDE DEF u, off
    <3> QED BY <2>1, <3>1
  <2>3. CASE ~Inline(l)
    <3>1. u = l /\ off = 0
      BY <2>3 DEF Uncompacted
    <3> HIDE DEF u, off
    <3> QED BY <2>1, <3>1
  <2> QED BY <2>2, <2>3
<1>2. \A a : a \in previous <=> \E j \in 1..off : a \in l[j].ids
  <2>1. Headed(b, l)
    BY DEF Stands
  <2>2. CASE Inline(l)
    <3>1. previous = l[1].ids
      BY <2>1, <2>2 DEF Headed, previousSummary
    <3> HIDE DEF previous
    <3> QED BY <2>2, <3>1
  <2>3. CASE ~Inline(l)
    <3>1. previous = {}
      BY <2>1, <2>3 DEF Headed, previousSummary
    <3> HIDE DEF previous
    <3> QED BY <2>3, <3>1
  <2> QED BY <2>2, <2>3
<1> HIDE DEF u
<1>3. PICK cut \in 2..(Len(u) + 1) : \E t \in 0..(cut - 1) : prepareCompaction(u, k) = Prepared(u, cut, t)
  BY <1>1, CompactionCuts
<1>4. PICK t \in 0..(cut - 1) : prepareCompaction(u, k) = Prepared(u, cut, t)
  BY <1>3
<1> DEFINE p == prepareCompaction(u, k)
           n == off + cut - 1
<1>5. /\ p.summarized = SubSeq(u, 1, (IF t > 0 THEN t ELSE cut) - 1)
      /\ p.prefix = IF t > 0 THEN SubSeq(u, t, cut - 1) ELSE <<>>
      /\ p.tail = SubSeq(u, cut, Len(u))
  BY <1>4 DEF Prepared
<1>6. /\ m.ids = previous \cup IdsStoodFor(p.summarized) \cup IdsStoodFor(p.prefix)
      /\ m \in Msg /\ m.summary /\ tail = p.tail
  <2> DEFINE ids == previous \cup IdsStoodFor(p.summarized) \cup IdsStoodFor(p.prefix)
  <2>1. m = Summary(ids)
    BY DEF SummaryOf, u
  <2>2. tail = p.tail
    BY DEF RetainedTail, u
  <2>3. m \in Msg
    BY DEF EntryRec
  <2>4. ids \in SUBSET Nat
    <3>1. Complete(p)
      BY <1>1, PiecesAreComplete
    <3>2. previous \in SUBSET Nat
      BY PreviousType
    <3> QED BY <3>1, <3>2, IdsType DEF Complete
  <2> HIDE DEF ids
  <2>5. Summary(ids).summary /\ Summary(ids).ids = ids
    <3>1. "user" \in Roles /\ {} \in SUBSET (Nat \ {0}) /\ 0 \in Nat
      BY DEF Roles
    <3> QED BY <2>4, <3>1, SummaryMarks, SummaryType
  <2> QED BY <2>1, <2>2, <2>3, <2>5 DEF ids
<1> HIDE DEF p, m, tail, previous, off
<1>7. off \in 0..1 /\ off \in Nat
  BY DEF off
<1>8. \A i, j, a : i \in 1..(Len(u) + 1) /\ j \in 0..Len(u)
         => (a \in IdsStoodFor(SubSeq(u, i, j)) <=> \E q \in i..j : a \in u[q].ids)
  <2>1. ASSUME NEW i \in 1..(Len(u) + 1), NEW j \in 0..Len(u), NEW a
        PROVE  a \in IdsStoodFor(SubSeq(u, i, j)) <=> \E q \in i..j : a \in u[q].ids
    <3> DEFINE s == SubSeq(u, i, j)
    <3>1. Len(u) \in Nat /\ i \in Nat /\ j \in Nat
      BY <1>1
    <3>2. s \in Seq(Msg)
      BY <1>1, SubSeqType
    <3>3. Len(s) = (IF i <= j THEN j - i + 1 ELSE 0) /\ \A q \in 1..Len(s) : s[q] = u[i + q - 1]
      BY <1>1, <3>1
    <3> HIDE DEF s
    <3>4. a \in IdsStoodFor(s) <=> \E q \in 1..Len(s) : a \in s[q].ids
      BY <3>2, StoodFor
    <3>5. ASSUME NEW q \in 1..Len(s), a \in s[q].ids PROVE \E r \in i..j : a \in u[r].ids
      <4>1. i + q - 1 \in i..j
        BY <3>1, <3>3
      <4> QED BY <3>3, <3>5, <4>1
    <3>6. ASSUME NEW r \in i..j, a \in u[r].ids PROVE \E q \in 1..Len(s) : a \in s[q].ids
      <4>1. r - i + 1 \in 1..Len(s) /\ i + (r - i + 1) - 1 = r
        BY <3>1, <3>3
      <4>2. s[r - i + 1] = u[i + (r - i + 1) - 1]
        BY <3>3, <4>1
      <4> QED BY <3>6, <4>1, <4>2
    <3> QED BY <3>4, <3>5, <3>6 DEF s
  <2> QED BY <2>1
<1>9. \A a : a \in IdsStoodFor(p.summarized) \cup IdsStoodFor(p.prefix) <=> \E q \in 1..(cut - 1) : a \in u[q].ids
  <2>0. Len(u) \in Nat /\ cut \in Nat /\ t \in Nat /\ cut >= 2 /\ cut <= Len(u) + 1 /\ t < cut
    BY <1>1
  <2>1. CASE t > 0
    <3>1. p.summarized = SubSeq(u, 1, t - 1) /\ p.prefix = SubSeq(u, t, cut - 1)
      BY <1>5, <2>1
    <3>2. 1 \in 1..(Len(u) + 1) /\ t - 1 \in 0..Len(u) /\ t \in 1..(Len(u) + 1) /\ cut - 1 \in 0..Len(u)
      BY <2>0, <2>1
    <3>3. \A a : a \in IdsStoodFor(SubSeq(u, 1, t - 1)) <=> \E q \in 1..(t - 1) : a \in u[q].ids
      BY <1>8, <3>2
    <3>4. \A a : a \in IdsStoodFor(SubSeq(u, t, cut - 1)) <=> \E q \in t..(cut - 1) : a \in u[q].ids
      BY <1>8, <3>2
    <3>5. 1..(cut - 1) = (1..(t - 1)) \cup (t..(cut - 1))
      BY <2>0, <2>1
    <3> QED BY <3>1, <3>3, <3>4, <3>5
  <2>2. CASE t = 0
    <3>1. p.summarized = SubSeq(u, 1, cut - 1) /\ p.prefix = <<>>
      BY <1>5, <2>2
    <3>2. 1 \in 1..(Len(u) + 1) /\ cut - 1 \in 0..Len(u)
      BY <2>0
    <3>3. \A a : a \in IdsStoodFor(SubSeq(u, 1, cut - 1)) <=> \E q \in 1..(cut - 1) : a \in u[q].ids
      BY <1>8, <3>2
    <3>4. IdsStoodFor(<<>>) = {}
      BY DEF IdsStoodFor, ToSet
    <3> QED BY <3>1, <3>3, <3>4
  <2> QED BY <2>0, <2>1, <2>2
<1>10. n \in 1..Len(l) /\ n \in Nat
  <2>1. cut \in Nat /\ cut >= 2 /\ cut <= Len(u) + 1
    BY <1>1
  <2> QED BY <1>1, <1>7, <2>1
<1>11. \A a : a \in m.ids <=> \E j \in 1..n : a \in l[j].ids
  <2>1. \A q \in 1..(cut - 1) : u[q] = l[q + off] /\ q + off \in (off + 1)..n
    <3>1. \A q \in 1..(cut - 1) : q \in 1..Len(u) /\ q + off \in (off + 1)..n
      BY <1>1, <1>7
    <3> QED BY <1>1, <3>1
  <2>2. \A j \in (off + 1)..n : j - off \in 1..(cut - 1) /\ (j - off) + off = j
    BY <1>1, <1>7
  <2>3. \A a : (\E q \in 1..(cut - 1) : a \in u[q].ids) <=> (\E j \in (off + 1)..n : a \in l[j].ids)
    <3>1. ASSUME NEW a, NEW q \in 1..(cut - 1), a \in u[q].ids PROVE \E j \in (off + 1)..n : a \in l[j].ids
      BY <2>1, <3>1
    <3>2. ASSUME NEW a, NEW j \in (off + 1)..n, a \in l[j].ids PROVE \E q \in 1..(cut - 1) : a \in u[q].ids
      <4>1. u[j - off] = l[(j - off) + off]
        BY <2>1, <2>2
      <4> QED BY <2>2, <3>2, <4>1
    <3> QED BY <3>1, <3>2
  <2>4. 1..n = (1..off) \cup ((off + 1)..n)
    BY <1>1, <1>7, <1>10
  <2> HIDE DEF n
  <2> QED BY <1>2, <1>6, <1>9, <2>3, <2>4
<1>12. /\ tail \in Seq(Msg) /\ Len(tail) = Len(l) - n
       /\ \A i \in 1..Len(tail) : tail[i] = l[n + i]
  <2>0. cut \in 1..(Len(u) + 1) /\ Len(u) \in 0..Len(u) /\ cut \in Nat /\ Len(u) \in Nat
    BY <1>1
  <2>1. /\ tail \in Seq(Msg) /\ Len(tail) = Len(u) - cut + 1
        /\ \A i \in 1..Len(tail) : tail[i] = u[cut + i - 1]
    <3>1. tail = SubSeq(u, cut, Len(u))
      BY <1>5, <1>6
    <3> QED BY <1>1, <2>0, <3>1
  <2>2. Len(tail) = Len(l) - n
    BY <1>1, <1>7, <2>0, <2>1
  <2>3. ASSUME NEW i \in 1..Len(tail) PROVE tail[i] = l[n + i]
    <3>1. cut + i - 1 \in 1..Len(u) /\ cut + i - 1 + off = n + i
      BY <1>7, <2>0, <2>1
    <3>2. tail[i] = u[cut + i - 1] /\ u[cut + i - 1] = l[cut + i - 1 + off]
      BY <1>1, <2>1, <3>1
    <3> HIDE DEF n
    <3> QED BY <3>1, <3>2
  <2> QED BY <2>1, <2>2, <2>3
<1> DEFINE r == <<m>> \o tail
           c == Append(b, e)
<1>13. IdsStoodFor(r) = IdsStoodFor(l) /\ (Ordered(l) => Ordered(r))
  <2> HIDE DEF n
  <2> QED BY <1>6, <1>10, <1>11, <1>12, CompactedList
<1>14. SaidOn(b) \subseteq IdsStoodFor(l) /\ Ordered(l) /\ (\A q \in IdsStoodFor(l) : q <= x)
       /\ IdsStoodFor(l) \in SUBSET Nat /\ e.id \in Nat
  BY IdsType DEF Stands, EntryRec
<1>15. SaidOn(c) = SaidOn(b) /\ Marks(c) # {} /\ c[Max(Marks(c))] = e
  BY BranchAppend
<1>16. r # <<>> /\ r[1] = m
  BY <1>6, <1>12
<1>17. m = e.message
  BY DEF m
<1> HIDE DEF r, c
<1>18. Headed(c, r)
  BY <1>6, <1>15, <1>16, <1>17 DEF Headed, Inline
<1>19. \A q \in IdsStoodFor(r) : q <= e.id
  BY <1>13, <1>14
<1>20. Stands(c, e.id, r)
  BY <1>13, <1>14, <1>15, <1>18, <1>19 DEF Stands
<1> QED BY <1>20 DEF r, c, m, tail
\* What the clean-up makes of a branch stands for it, and an open turn is not its
\* summary; so for every branch of the log.  A compaction that waits has the context
\* of its base in memory.
Good(b, x) == Stands(b, x, TakenOn(b).out) /\ (Marks(b) # {} => TakenOn(b).from # 1)

AllGood(es) == \A x \in Known(es) : Good(getBranch(es, x), x)

NInv ==
  /\ AllGood(entries)
  /\ turn \in {"auto", "command"} => base \in Known(entries) /\ (leaf = base => live = Context)

\* Nothing was said on an empty branch.
LEMMA GoodNothing == Good(<<>>, NoParent)
<1>1. PICK e \in EntryRec : e.message \in Msg
  BY SomeEntry
<1>2. <<>> \in Seq(EntryRec) /\ <<>> \in Seq(Msg)
  OBVIOUS
<1>3. MessagesOf(<<>>) = <<>>
  <2>1. Fold(SaidStep, <<>>, <<>>) = <<>>
    BY <1>1, <1>2, FoldFacts
  <2> QED BY <1>2, <2>1, MessagesIsFold
<1>4. Since(<<>>) = <<>>
  BY DEF Since
<1>5. Taken(<<>>) = Fresh
  BY <1>1, <1>2, TakenFacts
<1>6. TakenOn(<<>>).out = <<>>
  BY <1>3, <1>4, <1>5 DEF TakenOn, Told, Fresh
<1>7. Marks(<<>>) = {} /\ SaidOn(<<>>) = {} /\ IdsStoodFor(<<>>) = {}
  BY DEF Marks, SaidOn, IdsStoodFor, ToSet
<1>8. Ordered(<<>>) /\ ~Inline(<<>>)
  BY DEF Ordered, Inline
<1> QED BY <1>6, <1>7, <1>8 DEF Good, Stands, Headed

\* A message added to a branch that goes on.
LEMMA GoodMessage ==
    ASSUME NEW b \in Seq(EntryRec), NEW x \in Nat, NEW e \in EntryRec, x < e.id,
           e.kind \in {"message", "branch_summary"}, e.message.ids = {e.id}, ~e.message.summary,
           Good(b, x), ~TakenOn(b).done, ~TakenOn(Append(b, e)).done
    PROVE  Good(Append(b, e), e.id)
<1> DEFINE t == TakenOn(b)
           m == e.message
           c == Append(b, e)
           u == TakeMessage(t, m)
<1>1. t \in Sane /\ m \in Msg /\ TakenOn(c) = u /\ ~t.done /\ ~u.done
  BY TakenOnType, OnMessage
<1>2. Stands(b, x, t.out) /\ (Marks(b) # {} => t.from # 1)
  BY DEF Good
<1>3. Marks(c) = Marks(b)
  BY BranchAppend
<1>4. t.out \in Seq(Msg) /\ t.from \in Nat /\ (Marks(b) # {} => t.out # <<>>)
  <2>1. t.out \in Seq(Msg) /\ t.from \in Nat
    BY <1>1 DEF Sane, States
  <2> QED BY <1>2, <2>1 DEF Stands, Headed, Inline
<1>5. \A l \in Seq(Msg) : Stands(b, x, l) => Stands(c, e.id, Append(l, m))
  BY StandsAppend
<1> HIDE DEF t, m, c, u
<1>6. CASE u.out = Append(t.out, m) /\ u.from \in {0, t.from, Len(t.out) + 1}
  <2>1. Stands(c, e.id, u.out)
    BY <1>2, <1>4, <1>5, <1>6
  <2>2. Marks(b) # {} => u.from # 1
    BY <1>2, <1>4, <1>6
  <2> QED BY <1>1, <1>3, <2>1, <2>2 DEF Good, c
<1>7. CASE t.from # 0 /\ u.out = Append(Retracted(t).out, m) /\ u.from \in {0, t.from + 1}
  <2>1. Retracted(t).out \in Seq(Msg)
    BY <1>1, <1>7, RetractedStands
  <2>2. Stands(b, x, Retracted(t).out)
    BY <1>1, <1>2, <1>7, StandsRetracted
  <2>3. Stands(c, e.id, u.out)
    BY <1>5, <1>7, <2>1, <2>2
  <2>4. u.from # 1
    BY <1>4, <1>7
  <2> QED BY <1>1, <1>3, <2>3, <2>4 DEF Good, c
<1>8. (u.out = Append(t.out, m) /\ u.from \in {0, t.from, Len(t.out) + 1})
      \/ (t.from # 0 /\ u.out = Append(Retracted(t).out, m) /\ u.from \in {0, t.from + 1})
  BY <1>1, TakenParts DEF u
<1> QED BY <1>6, <1>7, <1>8 DEF c

\* An entry is added that leaves its branch good: so are all the branches.
LEMMA AddsGood ==
    ASSUME entries \in Seq(EntryRec), TInv, AllGood(entries), NEW e, Adds(e)
    PROVE  /\ e \in EntryRec /\ e.parent \in Nat /\ e.parent < e.id /\ leaf' = e.id
           /\ e.id \notin Known(entries) /\ Known(entries) \subseteq Known(entries')
           /\ Good(getBranch(entries, e.parent), e.parent)
           /\ Good(Append(getBranch(entries, e.parent), e), e.id) => AllGood(entries')
<1>1. \A i \in 1..Len(entries) : entries[i].id < e.id
  BY IdIsNew DEF TInv, Adds
<1>2. /\ IdsIn(entries') = IdsIn(entries) \cup {e.id} /\ e.id \notin IdsIn(entries)
      /\ Continues(entries, entries')
      /\ getBranch(entries', e.id) = Append(getBranch(entries, e.parent), e)
  <2>1. Grown(entries) /\ e \in EntryRec /\ e.parent \in Known(entries) /\ entries' = Append(entries, e)
    BY DEF TInv, Adds
  <2> QED BY <1>1, <2>1, AppendedEntry
<1>3. e \in EntryRec /\ e.parent \in Nat /\ e.id \in Nat \ {0} /\ e.parent \in Known(entries) /\ leaf' = e.id
  BY DEF Adds, EntryRec
<1>4. e.parent < e.id
  <2>1. CASE e.parent = NoParent
    BY <1>3, <2>1 DEF NoParent
  <2>2. CASE e.parent \in IdsIn(entries)
    <3>1. PICK i \in 1..Len(entries) : e.parent = entries[i].id
      BY <2>2, IdsFacts
    <3> QED BY <1>1, <3>1
  <2> QED BY <1>3, <2>1, <2>2 DEF Known
<1>5. e.id \notin Known(entries) /\ Known(entries) \subseteq Known(entries')
  BY <1>2, <1>3 DEF Known, NoParent
<1>6. ASSUME Good(Append(getBranch(entries, e.parent), e), e.id) PROVE AllGood(entries')
  <2>1. ASSUME NEW x \in Known(entries') PROVE Good(getBranch(entries', x), x)
    <3>1. CASE x \in Known(entries)
      BY <1>2, <3>1 DEF AllGood, Continues
    <3>2. CASE x = e.id
      BY <1>2, <1>6, <3>2
    <3> QED BY <1>2, <3>1, <3>2 DEF Known
  <2> QED BY <2>1 DEF AllGood
<1> QED BY <1>3, <1>4, <1>5, <1>6 DEF AllGood

\* What a session continues with stands for its branch.
LEMMA ContextStands ==
    ASSUME NEW b \in Seq(EntryRec), NEW x, Good(b, x), ~TakenOn(b).done
    PROVE  Stands(b, x, closeOpenTurns(Told(b)))
<1>1. TakenOn(b) \in Sane /\ TakenOn(b) = Taken(Told(b))
  BY TakenOnType DEF TakenOn
<1>2. CASE TakenOn(b).from = 0
  BY <1>1, <1>2 DEF closeOpenTurns, Good
<1>3. CASE TakenOn(b).from # 0
  <2>1. closeOpenTurns(Told(b)) = Retracted(TakenOn(b)).out
    BY <1>1, <1>3 DEF closeOpenTurns
  <2> QED BY <1>1, <1>3, <2>1, StandsRetracted DEF Good
<1> QED BY <1>2, <1>3
\* Every step keeps every branch good, and what a waiting compaction has in memory.
LEMMA StandsStep == PInv /\ TInv /\ LInv /\ NInv /\ [TalkNext]_talkVars => NInv'
<1> SUFFICES ASSUME PInv, TInv, LInv, NInv, [TalkNext]_talkVars PROVE NInv'
  OBVIOUS
<1>0. /\ entries \in Seq(EntryRec) /\ leaf \in Nat /\ leaf \in Known(entries) /\ Unbroken(entries)
      /\ Branch \in Seq(EntryRec) /\ ~Here.done /\ turn \in Places /\ AllGood(entries)
      /\ live \in Seq(Msg) /\ open \in SUBSET {1, 2} /\ Good(Branch, leaf)
  <2>1. Branch \in Seq(EntryRec)
    BY BranchIsSeq DEF PInv, Branch
  <2>2. ~Here.done /\ Good(Branch, leaf)
    BY DEF TInv, LInv, Unbroken, Here, Branch, NInv, AllGood
  <2> QED BY <2>1, <2>2 DEF PInv, TInv, LInv, NInv
<1>1. TInv' /\ LInv' /\ Unbroken(entries')
  <2>1. TInv' /\ LInv'
    BY TreeStep, LogStep
  <2> QED BY <2>1 DEF LInv
<1>a. ASSUME UNCHANGED <<entries, leaf>> PROVE AllGood(entries') /\ Context' = Context
  BY <1>0, <1>a DEF Context
\* A message is added, at the leaf or elsewhere.
<1>b. ASSUME NEW e, Adds(e), e.kind \in {"message", "branch_summary"},
             NEW role \in Roles, NEW c \in SUBSET (Nat \ {0}), NEW n \in Nat,
             e.message = Spoken(role, c, n, {Id})
      PROVE  AllGood(entries')
  <2> DEFINE b == getBranch(entries, e.parent)
  <2>1. /\ e \in EntryRec /\ e.parent \in Nat /\ e.parent < e.id /\ leaf' = e.id /\ Good(b, e.parent)
        /\ Good(Append(b, e), e.id) => AllGood(entries')
    BY <1>0, <1>b, AddsGood
  <2>2. b \in Seq(EntryRec) /\ ~TakenOn(b).done /\ Branch' = Append(b, e)
    BY <1>0, <1>b, AddsTaken
  <2>3. ~TakenOn(Append(b, e)).done
    <3>1. leaf' \in Known(entries') /\ Branch' = getBranch(entries', leaf')
      BY <1>1 DEF TInv, Branch
    <3>2. ~TakenOn(getBranch(entries', leaf')).done
      BY <1>1, <3>1 DEF Unbroken
    <3> HIDE DEF b
    <3> QED BY <2>2, <3>1, <3>2
  <2>4. e.message.ids = {e.id} /\ ~e.message.summary
    <3>1. {Id} \in SUBSET Nat /\ e.id = Id
      BY <1>0, <1>b, IdType DEF Adds
    <3>2. Spoken(role, c, n, {Id}).ids = {Id} /\ ~Spoken(role, c, n, {Id}).summary
      BY <3>1, SpokenType, SummaryMarks
    <3> QED BY <1>b, <3>1, <3>2
  <2> HIDE DEF b
  <2>5. Good(Append(b, e), e.id)
    BY <1>b, <2>1, <2>2, <2>3, <2>4, GoodMessage
  <2> QED BY <2>1, <2>5
<1>c. ASSUME NEW role \in Roles, NEW c \in SUBSET (Nat \ {0}), NEW n \in Nat, NEW u \in BOOLEAN,
             NEW places, Speak(role, c, n, u, places)
      PROVE  AllGood(entries') /\ turn' \in places
  <2>1. PICK e : Adds(e) /\ e.parent = leaf /\ e.kind = "message" /\ e.message = Spoken(role, c, n, {Id})
    BY <1>c, SpeakAdds
  <2>2. turn' \in places
    BY <1>c DEF Speak, Goto
  <2> QED BY <1>b, <2>1, <2>2
\* A compaction of what the log gives.
<1>d. ASSUME CanCompact(live), Log(Checkpoint), live = Context PROVE AllGood(entries')
  <2> DEFINE t == RetainedTail(live, Keep)
  <2>1. PICK e : /\ Adds(e) /\ e.parent = leaf /\ e.kind = "compaction"
                 /\ e.message \in Msg /\ e.message.role = "user" /\ e.message.calls = {}
                 /\ \E y \in Seq(Msg) : WantedAfter(y) = {} /\ e.tail = {y}
                 /\ e.message = SummaryOf(Branch, live, Keep) /\ e.tail = {t}
    BY <1>d, CheckpointAdds
  <2>2. t \in Seq(Msg) /\ WantedAfter(t) = {}
    <3> HIDE DEF t
    <3> QED BY <2>1
  <2>3. Stands(Branch, leaf, live)
    <3>1. Context = closeOpenTurns(Told(Branch))
      BY ContextIsTold DEF Context, Branch
    <3>2. Stands(Branch, leaf, closeOpenTurns(Told(Branch)))
      BY <1>0, ContextStands DEF Here
    <3> QED BY <1>d, <3>1, <3>2
  <2>4. /\ e \in EntryRec /\ leaf < e.id
        /\ Good(Append(Branch, e), e.id) => AllGood(entries')
    BY <1>0, <2>1, AddsGood DEF Branch
  <2>5. Stands(Append(Branch, e), e.id, <<e.message>> \o t)
    BY <1>0, <1>d, <2>1, <2>3, <2>4, StandsCheckpoint
  <2> HIDE DEF t
  <2>6. TakenOn(Append(Branch, e)).from = 0 /\ TakenOn(Append(Branch, e)).out = <<e.message>> \o t
    BY <1>0, <2>1, <2>2, <2>4, OnCheckpoint
  <2>7. Good(Append(Branch, e), e.id)
    BY <2>5, <2>6 DEF Good
  <2> QED BY <2>4, <2>7
<1>e. ASSUME turn \in {"head", "auto", "ask"} PROVE live = Context
  BY <1>e, ContextIsTaken DEF LInv, Context, Here, Branch
<1>2. CASE Submit
  <2>1. PICK e : Adds(e) /\ e.kind = "message" /\ e.message = Spoken("user", {}, 0, {Id})
    BY <1>2, SubmitAdds
  <2>2. "user" \in Roles /\ {} \in SUBSET (Nat \ {0}) /\ 0 \in Nat
    BY DEF Roles
  <2>3. AllGood(entries')
    BY <1>b, <2>1, <2>2
  <2>4. turn' = "head"
    BY <1>2 DEF Submit, Goto
  <2> QED BY <2>3, <2>4 DEF NInv
<1>3. CASE MaybeCompact
  <2>1. /\ turn = "head" /\ UNCHANGED <<entries, leaf, live>>
        /\ turn' = "ask" \/ (turn' = "auto" /\ base' = leaf)
    BY <1>3 DEF MaybeCompact
  <2>2. live = Context /\ AllGood(entries') /\ Context' = Context
    BY <1>a, <1>e, <2>1
  <2> QED BY <1>0, <2>1, <2>2 DEF NInv
<1>4. CASE EndCompaction
  <2>1. CanCompact(live) /\ turn \in {"auto", "command"}
    BY <1>4 DEF EndCompaction, PInv
  <2>2. turn' \in {"ask", "idle"}
    BY <1>4 DEF EndCompaction, Resumes, Goto
  <2>3. (leaf = base /\ Log(Checkpoint)) \/ UNCHANGED <<entries, leaf>>
    BY <1>4 DEF EndCompaction
  <2>4. AllGood(entries')
    BY <1>a, <1>d, <2>1, <2>3 DEF NInv
  <2> QED BY <2>2, <2>4 DEF NInv
<1>5. CASE FailCompaction
  <2>1. turn' \in {"ask", "idle"} /\ UNCHANGED <<entries, leaf>>
    BY <1>5 DEF FailCompaction, Resumes, Goto
  <2> QED BY <1>a, <2>1 DEF NInv
<1>6. CASE Overflow
  <2>1. CanCompact(live) /\ Log(Checkpoint) /\ turn = "ask" /\ turn' = "head"
    BY <1>6 DEF Overflow, Goto
  <2> QED BY <1>d, <1>e, <2>1 DEF NInv
<1>7. CASE TakeAnswer
  <2>1. PICK c \in {{}, {1, 2}}, u \in BOOLEAN :
          Speak("assistant", c, 0, u, {IF c = {} THEN "idle" ELSE "tools"})
    BY <1>7 DEF TakeAnswer
  <2>2. c \in SUBSET (Nat \ {0}) /\ "assistant" \in Roles /\ 0 \in Nat
    BY DEF Roles
  <2>3. AllGood(entries') /\ turn' \in {IF c = {} THEN "idle" ELSE "tools"}
    BY <1>c, <2>1, <2>2
  <2> QED BY <2>3 DEF NInv
<1>8. CASE Escape
  <2>1. turn' = "idle" /\ UNCHANGED <<entries, leaf>>
    BY <1>8 DEF Escape, Goto
  <2> QED BY <1>a, <2>1 DEF NInv
<1>9. CASE Result
  <2> DEFINE n == Min(open)
             places == IF Cardinality(open) > 1 THEN {"tools"} ELSE {"head", "idle"}
  <2>1. open # {}
    BY <1>9 DEF Result, PInv
  <2>2. n \in Nat
    <3>1. open \in SUBSET Nat
      BY <1>0
    <3> QED BY <2>1, <3>1, MinFacts
  <2>3. "tool" \in Roles /\ {} \in SUBSET (Nat \ {0})
    BY DEF Roles
  <2>4. PICK u \in BOOLEAN : Speak("tool", {}, n, u, places)
    BY <1>9 DEF Result
  <2>5. places \subseteq {"tools", "head", "idle"}
    OBVIOUS
  <2> HIDE DEF n, places
  <2>6. AllGood(entries') /\ turn' \in places
    BY <1>c, <2>2, <2>3, <2>4
  <2> QED BY <2>5, <2>6 DEF NInv
<1>10. CASE TakeNote
  <2>1. PICK e : Adds(e) /\ e.parent = leaf /\ e.kind = "model_change"
    BY <1>10, NoteAdds
  <2>2. /\ e \in EntryRec /\ leaf < e.id /\ leaf' = e.id
        /\ e.id \notin Known(entries) /\ Known(entries) \subseteq Known(entries')
        /\ Good(Append(Branch, e), e.id) => AllGood(entries')
    BY <1>0, <2>1, AddsGood DEF Branch
  <2>3. TakenOn(Append(Branch, e)) = Here
    BY <1>0, <2>1, <2>2, OnSetting DEF Here
  <2>4. Here.out \in Seq(Msg)
    BY <1>0, TakenOnType DEF Here, Sane, States
  <2>5. Stands(Branch, leaf, Here.out) /\ (Marks(Branch) # {} => Here.from # 1)
    BY <1>0 DEF Good, Here
  <2>6. Stands(Append(Branch, e), e.id, Here.out) /\ Marks(Append(Branch, e)) = Marks(Branch)
    BY <1>0, <2>1, <2>2, <2>4, <2>5, StandsSetting
  <2>7. Good(Append(Branch, e), e.id)
    BY <2>3, <2>5, <2>6 DEF Good
  <2>8. UNCHANGED <<turn, base>>
    BY <1>10 DEF TakeNote
  <2> QED BY <2>2, <2>7, <2>8 DEF NInv
<1>11. CASE Compact
  <2>1. turn' = "command" /\ live' = Context /\ base' = leaf /\ UNCHANGED <<entries, leaf>>
    BY <1>11 DEF Compact, Goto
  <2>2. AllGood(entries') /\ Context' = Context
    BY <1>a, <2>1
  <2> QED BY <1>0, <2>1, <2>2 DEF NInv
<1>12. CASE Navigate
  <2>1. turn' = "idle"
    BY <1>12 DEF Navigate, Jump, Busy
  <2>2. CASE entries' = entries
    BY <1>0, <2>1, <2>2 DEF NInv
  <2>3. CASE \E e : Adds(e) /\ e.kind = "branch_summary" /\ e.message = Spoken("user", {}, 0, {Id})
    <3>1. "user" \in Roles /\ {} \in SUBSET (Nat \ {0}) /\ 0 \in Nat
      BY DEF Roles
    <3>2. AllGood(entries')
      BY <1>b, <2>3, <3>1
    <3> QED BY <2>1, <3>2 DEF NInv
  <2> QED BY <1>12, <2>2, <2>3, NavigateMoves
<1>13. CASE Fork
  <2>1. turn' = "idle"
    BY <1>13 DEF Fork, Jump, Busy
  <2>2. PICK x \in Known(entries) : entries' = getBranch(entries, x)
    BY <1>13, ForkMoves
  <2>3. \A y \in Known(entries') : y \in Known(entries) /\ getBranch(entries', y) = getBranch(entries, y)
    BY <1>0, <2>2, BranchOfBranch DEF TInv
  <2>4. AllGood(entries')
    BY <1>0, <2>3 DEF AllGood
  <2> QED BY <2>1, <2>4 DEF NInv
<1>14. CASE Restart
  <2>1. turn' = "idle" /\ UNCHANGED <<entries, leaf>>
    BY <1>14 DEF Restart, Goto
  <2> QED BY <1>a, <2>1 DEF NInv
<1>15. CASE UNCHANGED talkVars
  <2>1. UNCHANGED <<entries, leaf, live, turn, base>>
    BY <1>15 DEF talkVars
  <2> QED BY <1>a, <2>1 DEF NInv
<1> QED BY <1>2, <1>3, <1>4, <1>5, <1>6, <1>7, <1>8, <1>9, <1>10, <1>11, <1>12, <1>13, <1>14, <1>15 DEF TalkNext

\* Nothing that was said on the branch is lost from a request: it is in it word for
\* word or stands behind a summary or an interruption mark, once and in the order it
\* was said, after any compactions, navigations, forks and restarts
\* (compact.ts:193-273, 516-596, closeOpenTurns).
THEOREM NothingIsForgotten == TalkSpec => []NothingForgotten
<1>1. TalkInit => PInv /\ TInv /\ LInv /\ NInv
  <2> SUFFICES ASSUME TalkInit PROVE PInv /\ TInv /\ LInv /\ NInv
    OBVIOUS
  <2>1. PInv /\ TInv
    BY DEF TalkInit, PInv, TInv, Places, NoParent, Grown, Known
  <2>2. ASSUME NEW x \in Known(entries) PROVE x = NoParent /\ getBranch(entries, x) = <<>>
    <3>1. IdsIn(entries) = {}
      BY DEF TalkInit, IdsIn, ToSet
    <3>2. x = NoParent
      BY <3>1 DEF Known
    <3> QED BY <2>1, <3>2, BranchEnds DEF TInv, PInv
  <2>3. LInv /\ NInv
    BY <2>2, OnNothing, GoodNothing DEF TalkInit, LInv, Unbroken, NInv, AllGood
  <2> QED BY <2>1, <2>3
<1>2. PInv /\ TInv /\ LInv /\ NInv => NothingForgotten
  <2> SUFFICES ASSUME PInv, TInv, LInv, NInv, turn = "ask"
               PROVE  /\ SaidOn(Branch) \subseteq IdsStoodFor(live)
                      /\ \A i, j \in DOMAIN live : i < j => \A a \in live[i].ids, b \in live[j].ids : a < b
    BY DEF NothingForgotten
  <2>1. Stands(Branch, leaf, live)
    BY DEF TInv, LInv, NInv, AllGood, Good, Here, Branch
  <2>2. SaidOn(Branch) \subseteq IdsStoodFor(live) /\ Ordered(live)
    BY <2>1 DEF Stands
  <2> QED BY <2>2 DEF Ordered
<1>3. PInv /\ TInv /\ LInv /\ NInv /\ [TalkNext]_talkVars => (PInv /\ TInv /\ LInv /\ NInv)'
  BY PairedStep, TreeStep, LogStep, StandsStep
<1> QED BY <1>1, <1>2, <1>3, PTL DEF TalkSpec

-----------------------------------------------------------------------------
(* The list of /tree.                                                        *)

\* The elements of a log that are in a set: all of them, in the log's order.
Selected(a, es, n, S) ==
  /\ a \in Seq(EntryRec)
  /\ \A i \in 1..Len(a) : a[i] \in S /\ \E j \in 1..n : a[i] = es[j]
  /\ \A j \in 1..n : es[j] \in S => \E i \in 1..Len(a) : a[i] = es[j]
  /\ \A i, j \in 1..Len(a) : i < j => a[i].id < a[j].id

\* Among is that selection.
LEMMA AmongSelects ==
    ASSUME NEW es \in Seq(EntryRec), \A i, j \in 1..Len(es) : i < j => es[i].id < es[j].id, NEW S
    PROVE  Selected(Among(es, S), es, Len(es), S)
<1> DEFINE part(n) == Among(SubSeq(es, 1, n), S)
           T == {n \in Nat : n <= Len(es) => Selected(part(n), es, n, S)}
<1>0. Len(es) \in Nat /\ (\A i \in 1..Len(es) : es[i] \in EntryRec /\ es[i].id \in Nat)
  <2>1. \A e \in EntryRec : e.id \in Nat
    BY DEF EntryRec
  <2> QED BY <2>1
<1>1. Selected(part(0), es, 0, S)
  <2>1. PICK e \in EntryRec : e.message \in Msg
    BY SomeEntry
  <2>2. SubSeq(es, 1, 0) = <<>> /\ <<>> \in Seq(EntryRec) /\ Len(<<>>) = 0
    OBVIOUS
  <2>3. Among(<<>>, S) = <<>>
    BY <2>1, <2>2, AmongFacts
  <2>4. part(0) = <<>>
    BY <2>2, <2>3
  <2> HIDE DEF part
  <2>5. Selected(<<>>, es, 0, S)
    <3>1. 1..0 = {}
      OBVIOUS
    <3> QED BY <2>2, <3>1 DEF Selected
  <2> QED BY <2>4, <2>5
<1>2. ASSUME NEW n \in Nat, n + 1 <= Len(es), Selected(part(n), es, n, S)
      PROVE  Selected(part(n + 1), es, n + 1, S)
  <2> DEFINE a == part(n)
             x == es[n + 1]
  <2>1. SubSeq(es, 1, n) \in Seq(EntryRec) /\ x \in EntryRec /\ SubSeq(es, 1, n + 1) = Append(SubSeq(es, 1, n), x)
    BY <1>0, <1>2
  <2>2. part(n + 1) = IF x \in S THEN Append(a, x) ELSE a
    <3> DEFINE b == SubSeq(es, 1, n)
    <3>1. part(n + 1) = Among(Append(b, x), S) /\ a = Among(b, S) /\ b \in Seq(EntryRec)
      BY <2>1
    <3> HIDE DEF a, b, part, x
    <3>2. Among(Append(b, x), S) = IF x \in S THEN Append(Among(b, S), x) ELSE Among(b, S)
      <4>1. b \in Seq(EntryRec) /\ x \in EntryRec
        BY <2>1, <3>1
      <4> QED BY <4>1, AmongFacts
    <3> QED BY <3>1, <3>2
  <2>3. Selected(a, es, n, S)
    BY <1>2
  <2>4. \A j \in 1..(n + 1) : j \in 1..n \/ j = n + 1
    OBVIOUS
  <2>5. \A j \in 1..n : j \in 1..(n + 1) /\ es[j].id < x.id
    BY <1>0, <1>2
  <2>6. CASE x \notin S
    <3> HIDE DEF a, part
    <3>1. part(n + 1) = a
      BY <2>2, <2>6
    <3> HIDE DEF x
    <3>2. a \in Seq(EntryRec) /\ (\A i, j \in 1..Len(a) : i < j => a[i].id < a[j].id)
      BY <2>3 DEF Selected
    <3>3. \A i \in 1..Len(a) : a[i] \in S /\ \E j \in 1..(n + 1) : a[i] = es[j]
      BY <2>3, <2>5 DEF Selected
    <3>4. \A j \in 1..(n + 1) : es[j] \in S => \E i \in 1..Len(a) : a[i] = es[j]
      BY <2>3, <2>4, <2>6 DEF Selected, x
    <3> QED BY <3>1, <3>2, <3>3, <3>4 DEF Selected
  <2>7. CASE x \in S
    <3> DEFINE c == Append(a, x)
               L == Len(a)
    <3>0. a \in Seq(EntryRec) /\ (\A i, j \in 1..Len(a) : i < j => a[i].id < a[j].id)
          /\ (\A i \in 1..Len(a) : a[i] \in S /\ \E j \in 1..n : a[i] = es[j])
          /\ (\A j \in 1..n : es[j] \in S => \E i \in 1..Len(a) : a[i] = es[j])
      BY <2>3 DEF Selected
    <3> HIDE DEF a, part
    <3>1. part(n + 1) = c
      BY <2>2, <2>7
    <3>2. c \in Seq(EntryRec) /\ L \in Nat /\ Len(c) = L + 1 /\ c[L + 1] = x /\ \A i \in 1..L : c[i] = a[i]
      BY <2>1, <3>0, AppendProperties
    <3> HIDE DEF c
    <3>3. \A i \in 1..Len(c) : i \in 1..L \/ i = L + 1
      BY <3>2
    <3>4. \A i \in 1..Len(c) : c[i] \in S /\ \E j \in 1..(n + 1) : c[i] = es[j]
      <4>1. ASSUME NEW i \in 1..L PROVE c[i] \in S /\ \E j \in 1..(n + 1) : c[i] = es[j]
        BY <2>5, <3>0, <3>2
      <4>2. c[L + 1] \in S /\ \E j \in 1..(n + 1) : c[L + 1] = es[j]
        BY <2>7, <3>2
      <4> QED BY <3>3, <4>1, <4>2
    <3>5. \A j \in 1..(n + 1) : es[j] \in S => \E i \in 1..Len(c) : c[i] = es[j]
      <4>1. ASSUME NEW j \in 1..n, es[j] \in S PROVE \E i \in 1..Len(c) : c[i] = es[j]
        <5>1. PICK i \in 1..L : a[i] = es[j]
          BY <3>0, <4>1
        <5>2. i \in 1..Len(c) /\ c[i] = es[j]
          BY <3>2, <5>1
        <5> QED BY <5>2
      <4>2. L + 1 \in 1..Len(c) /\ c[L + 1] = es[n + 1]
        BY <3>2
      <4> QED BY <2>4, <4>1, <4>2
    <3>6. ASSUME NEW i \in 1..Len(c), NEW j \in 1..Len(c), i < j PROVE c[i].id < c[j].id
      <4>1. i \in 1..L
        BY <3>2, <3>6
      <4>2. CASE j \in 1..L
        BY <3>0, <3>2, <3>6, <4>1, <4>2
      <4>3. CASE j = L + 1
        <5>1. PICK k \in 1..n : a[i] = es[k]
          BY <3>0, <4>1
        <5> QED BY <2>5, <3>2, <4>1, <4>3, <5>1
      <4> QED BY <3>3, <4>2, <4>3
    <3>7. Selected(c, es, n + 1, S)
      BY <3>2, <3>4, <3>5, <3>6 DEF Selected
    <3> QED BY <3>1, <3>7
  <2> QED BY <2>6, <2>7
<1> HIDE DEF part
<1>3. T = Nat
  <2>1. T \in SUBSET Nat /\ 0 \in T
    BY <1>1
  <2>2. \A n \in T : n + 1 \in T
    BY <1>0, <1>2
  <2> HIDE DEF T
  <2> QED BY <2>1, <2>2, Induction
<1>4. Selected(part(Len(es)), es, Len(es), S)
  BY <1>0, <1>3
<1>5. SubSeq(es, 1, Len(es)) = es
  BY SubSeqWhole
<1> QED BY <1>4, <1>5 DEF part

\* The children of an entry: all of them, in the log's order.
LEMMA ChildrenFacts ==
    ASSUME NEW es \in Seq(EntryRec), Grown(es), NEW p
    PROVE  /\ Children(es, p) \in Seq(EntryRec)
           /\ \A i \in 1..Len(Children(es, p)) :
                 Children(es, p)[i] \in ToSet(es) /\ Children(es, p)[i].parent = p
           /\ \A e \in ToSet(es) : e.parent = p => \E i \in 1..Len(Children(es, p)) : Children(es, p)[i] = e
           /\ \A i, j \in 1..Len(Children(es, p)) : i < j => Children(es, p)[i].id < Children(es, p)[j].id
<1> DEFINE S == {e \in ToSet(es) : e.parent = p}
           c == Children(es, p)
<1>1. \A i, j \in 1..Len(es) : i < j => es[i].id < es[j].id
  BY DEF Grown
<1>2. Selected(c, es, Len(es), S)
  BY <1>1, AmongSelects DEF Children
<1>3. \A e \in ToSet(es) : \E j \in 1..Len(es) : e = es[j]
  BY DEF ToSet
<1> HIDE DEF c
<1>4. /\ c \in Seq(EntryRec)
      /\ \A i \in 1..Len(c) : c[i] \in S
      /\ \A j \in 1..Len(es) : es[j] \in S => \E i \in 1..Len(c) : c[i] = es[j]
      /\ \A i, j \in 1..Len(c) : i < j => c[i].id < c[j].id
  BY <1>2, Zenon DEF Selected
<1>5. \A e \in ToSet(es) : e.parent = p => \E i \in 1..Len(c) : c[i] = e
  <2>1. ASSUME NEW e \in ToSet(es), e.parent = p PROVE \E i \in 1..Len(c) : c[i] = e
    BY <1>3, <1>4, <2>1
  <2> QED BY <2>1
<1> QED BY <1>4, <1>5 DEF c

\* The branch of an entry is the branch of its parent and the entry.
LEMMA BranchOfChild ==
    ASSUME NEW es \in Seq(EntryRec), Grown(es), NEW e \in ToSet(es)
    PROVE  /\ e \in EntryRec /\ e.id \in Known(es) /\ e.parent \in Known(es) /\ e.id # NoParent
           /\ getBranch(es, e.id) = Append(getBranch(es, e.parent), e)
<1>1. PICK i \in 1..Len(es) : e = es[i]
  BY DEF ToSet
<1>2. e \in EntryRec /\ EntryOf(es, e.id) = e /\ e.id \in IdsIn(es) /\ e.id \in Nat \ {0}
  <2>1. \A d \in EntryRec : d.id \in Nat \ {0}
    BY DEF EntryRec
  <2>2. e \in EntryRec
    BY <1>1
  <2>3. EntryOf(es, es[i].id) = es[i] /\ es[i].id \in IdsIn(es)
    BY EntryOfIs
  <2> QED BY <1>1, <2>1, <2>2, <2>3
<1>3. e.parent \in Known(es)
  <2>1. e.parent = NoParent \/ \E j \in 1..(i - 1) : es[j].id = e.parent
    BY <1>1 DEF Grown
  <2>2. \A j \in 1..(i - 1) : j \in 1..Len(es)
    <3>1. Len(es) \in Nat
      OBVIOUS
    <3> QED BY <3>1
  <2> QED BY <2>1, <2>2, IdsFacts DEF Known
<1> DEFINE p == Ancestry(es, e.id)
           q == Ancestry(es, e.parent)
           a == getBranch(es, e.id)
           b == getBranch(es, e.parent)
           r == Append(q, e.id)
<1>4. e.id \in Known(es)
  BY <1>2 DEF Known
<1>5. Shape(es, e.id, p, a) /\ Shape(es, e.parent, q, b)
  BY <1>3, <1>4, BranchFacts
<1> HIDE DEF p, q, a, b
<1>6. /\ p \in Paths(es, e.id) /\ p[1] = NoParent /\ a \in Seq(EntryRec) /\ Len(a) = Len(p) - 1
      /\ \A k \in 1..Len(a) : a[k] = EntryOf(es, p[k + 1])
  BY <1>5 DEF Shape
<1>7. /\ q \in Paths(es, e.parent) /\ q \in Seq(Nat) /\ q[1] = NoParent /\ b \in Seq(EntryRec)
      /\ Len(b) = Len(q) - 1 /\ Len(q) \in Nat \ {0} /\ q[Len(q)] = e.parent
      /\ \A k \in 1..Len(b) : b[k] = EntryOf(es, q[k + 1])
  BY <1>5 DEF Shape
<1>8. /\ r \in Seq(Nat) /\ Len(r) = Len(q) + 1 /\ r[Len(q) + 1] = e.id
      /\ \A k \in 1..Len(q) : r[k] = q[k]
  BY <1>2, <1>7, AppendProperties
<1> HIDE DEF r
<1>9. r \in Paths(es, e.id)
  <2>1. ASSUME NEW k \in 2..Len(r)
        PROVE  r[k] \in IdsIn(es) /\ r[k - 1] = EntryOf(es, r[k]).parent
    <3>1. CASE k = Len(q) + 1
      <4>1. k - 1 = Len(q) /\ Len(q) \in 1..Len(q)
        BY <1>7, <3>1
      <4> QED BY <1>2, <1>7, <1>8, <3>1, <4>1
    <3>2. CASE k # Len(q) + 1
      <4>1. k \in 2..Len(q) /\ k \in 1..Len(q) /\ k - 1 \in 1..Len(q)
        BY <1>7, <1>8, <3>2
      <4>2. q[k] \in IdsIn(es) /\ q[k - 1] = EntryOf(es, q[k]).parent
        BY <1>7, <4>1 DEF Paths
      <4> QED BY <1>8, <4>1, <4>2
    <3> QED BY <3>1, <3>2
  <2>2. r # <<>> /\ r[Len(r)] = e.id
    BY <1>7, <1>8
  <2> QED BY <1>8, <2>1, <2>2 DEF Paths
<1>10. r[1] = NoParent
  BY <1>7, <1>8
<1>11. p = r
  BY <1>2, <1>6, <1>9, <1>10, PathsAgree
<1>12. Len(a) = Len(b) + 1 /\ Len(b) \in Nat
  BY <1>6, <1>7, <1>8, <1>11
<1>13. \A k \in 1..Len(b) : a[k] = b[k]
  <2>1. ASSUME NEW k \in 1..Len(b) PROVE a[k] = b[k]
    <3>1. k \in 1..Len(a) /\ k + 1 \in 1..Len(q)
      BY <1>7, <1>12
    <3>2. a[k] = EntryOf(es, r[k + 1]) /\ r[k + 1] = q[k + 1] /\ b[k] = EntryOf(es, q[k + 1])
      BY <1>6, <1>7, <1>8, <1>11, <3>1
    <3> QED BY <3>2
  <2> QED BY <2>1
<1>14. a[Len(b) + 1] = e
  <2>1. Len(b) + 1 \in 1..Len(a) /\ Len(b) + 1 = Len(q)
    BY <1>7, <1>12
  <2>2. a[Len(q)] = EntryOf(es, r[Len(q) + 1])
    BY <1>6, <1>11, <2>1
  <2> QED BY <1>2, <1>8, <2>1, <2>2
<1>15. a = Append(b, e)
  <2> DEFINE c == Append(b, e)
  <2>1. c \in Seq(EntryRec) /\ Len(c) = Len(b) + 1 /\ c[Len(b) + 1] = e /\ \A k \in 1..Len(b) : c[k] = b[k]
    BY <1>2, <1>7, AppendProperties
  <2> HIDE DEF c
  <2>2. \A k \in 1..Len(a) : a[k] = c[k]
    <3>1. \A k \in 1..Len(a) : k \in 1..Len(b) \/ k = Len(b) + 1
      BY <1>12
    <3> QED BY <1>13, <1>14, <2>1, <3>1
  <2>3. a = c
    BY <1>6, <1>12, <2>1, <2>2, SeqEqual
  <2> QED BY <2>3 DEF c
<1>16. e.id # NoParent
  BY <1>2 DEF NoParent
<1> QED BY <1>2, <1>3, <1>4, <1>15, <1>16 DEF a, b
\* A walk over the tree: c is what is listed and behind it what is still to be, and n
\* of them are listed.  Every entry stands at its depth and at most once, siblings in
\* order; an entry is there just when its parent is listed or it has none; and what is
\* to be listed next hangs on the branch of what comes before it.
Item == [entry : EntryRec, depth : Nat]

Placed(es, c) ==
  \A i \in 1..Len(c) : c[i].entry \in ToSet(es) /\ c[i].depth + 1 = Len(getBranch(es, c[i].entry.id))

Distinct(c) == \A i, j \in 1..Len(c) : i < j => c[i].entry.id # c[j].entry.id

Siblings(c) ==
  \A i, j \in 1..Len(c) : i < j /\ c[i].entry.parent = c[j].entry.parent => c[i].entry.id < c[j].entry.id

ParentListed(e, c, n) == e.parent = NoParent \/ \E k \in 1..n : c[k].entry.id = e.parent

Rooted(c, n) == \A i \in 1..Len(c) : ParentListed(c[i].entry, c, n)

Whole(es, c, n) ==
  \A e \in ToSet(es) : ParentListed(e, c, n) => \E i \in 1..Len(c) : c[i].entry = e

HangsOn(es, e, f) == e.parent # NoParent => e.parent \in IdsIn(getBranch(es, f.id))

Followed(es, c, n) ==
  \A k, l \in 1..Len(c) : k < l /\ (k > n \/ l = k + 1) => HangsOn(es, c[l].entry, c[k].entry)

Walked(es, c, n) ==
  /\ c \in Seq(Item) /\ n \in 0..Len(c)
  /\ Placed(es, c) /\ Distinct(c) /\ Siblings(c)
  /\ Rooted(c, n) /\ Whole(es, c, n) /\ Followed(es, c, n)

\* The next of the walk is listed, and its children come right behind it.
Spliced(c, n, x, d) ==
  /\ d \in Seq(Item) /\ Len(d) = Len(c) + Len(x)
  /\ \A i \in 1..(n + 1) : d[i] = c[i]
  /\ \A i \in 1..Len(x) : d[n + 1 + i] = Listed(x[i], c[n + 1].depth + 1)
  /\ \A i \in (n + 2)..Len(c) : d[i + Len(x)] = c[i]

\* An entry is known by its id.
LEMMA OneEntry ==
    ASSUME NEW es \in Seq(EntryRec), Grown(es), NEW e \in ToSet(es), NEW f \in ToSet(es), e.id = f.id
    PROVE  e = f
<1>1. PICK i \in 1..Len(es) : e = es[i]
  BY DEF ToSet
<1>2. PICK j \in 1..Len(es) : f = es[j]
  BY DEF ToSet
<1>3. EntryOf(es, es[i].id) = es[i] /\ EntryOf(es, es[j].id) = es[j]
  BY EntryOfIs
<1> QED BY <1>1, <1>2, <1>3

\* The ids of a branch with one entry more.
LEMMA IdsAppend ==
    ASSUME NEW b \in Seq(EntryRec), NEW e \in EntryRec
    PROVE  IdsIn(Append(b, e)) = IdsIn(b) \cup {e.id}
<1> DEFINE c == Append(b, e)
           L == Len(b)
<1>1. c \in Seq(EntryRec) /\ L \in Nat /\ Len(c) = L + 1 /\ c[L + 1] = e /\ \A i \in 1..L : c[i] = b[i]
  BY AppendProperties
<1> HIDE DEF c
<1>2. IdsIn(c) = {c[i].id : i \in 1..(L + 1)} /\ IdsIn(b) = {b[i].id : i \in 1..L}
  BY <1>1, IdsFacts
<1>3. 1..(L + 1) = 1..L \cup {L + 1}
  BY <1>1
<1> QED BY <1>1, <1>2, <1>3 DEF c

\* On the branch of an entry are its own id, its parent's and those of the parent's branch.
LEMMA IdsOfBranch ==
    ASSUME NEW es \in Seq(EntryRec), Grown(es), NEW e \in ToSet(es)
    PROVE  /\ IdsIn(getBranch(es, e.id)) = IdsIn(getBranch(es, e.parent)) \cup {e.id}
           /\ Len(getBranch(es, e.id)) = Len(getBranch(es, e.parent)) + 1
           /\ Len(getBranch(es, e.parent)) \in Nat
<1> DEFINE b == getBranch(es, e.parent)
<1>1. e \in EntryRec /\ e.parent \in Known(es) /\ getBranch(es, e.id) = Append(b, e)
  BY BranchOfChild
<1>2. b \in Seq(EntryRec)
  <2>1. e.parent \in Nat
    BY <1>1 DEF EntryRec
  <2> QED BY <2>1, BranchIsSeq
<1> HIDE DEF b
<1>3. IdsIn(Append(b, e)) = IdsIn(b) \cup {e.id} /\ Len(Append(b, e)) = Len(b) + 1 /\ Len(b) \in Nat
  BY <1>1, <1>2, IdsAppend
<1> QED BY <1>1, <1>3 DEF b

\* Listing the next entry keeps it a walk.
LEMMA WalkStep ==
    ASSUME NEW es \in Seq(EntryRec), Grown(es), NEW c, NEW n, Walked(es, c, n), n < Len(c),
           NEW d, Spliced(c, n, Children(es, c[n + 1].entry.id), d)
    PROVE  Walked(es, d, n + 1)
<1> DEFINE top == c[n + 1].entry
           x == Children(es, top.id)
           K == Len(x)
           Kid(i) == i \in (n + 2)..(n + 1 + K)
           old(i) == IF i <= n + 1 THEN i ELSE i - K
           N == Len(c)
           M == Len(d)
<1>1. /\ c \in Seq(Item) /\ N \in Nat /\ n \in Nat /\ n + 1 <= N /\ n + 1 \in 1..N
      /\ Placed(es, c) /\ Distinct(c) /\ Siblings(c)
      /\ Rooted(c, n) /\ Whole(es, c, n) /\ Followed(es, c, n)
  <2>1. c \in Seq(Item) /\ n \in 0..Len(c)
    BY DEF Walked
  <2>2. Placed(es, c) /\ Distinct(c) /\ Siblings(c) /\ Rooted(c, n) /\ Whole(es, c, n) /\ Followed(es, c, n)
    BY DEF Walked
  <2> QED BY <2>1, <2>2
<1>2. /\ x \in Seq(EntryRec) /\ K \in Nat
      /\ \A i \in 1..K : x[i] \in ToSet(es) /\ x[i].parent = top.id
      /\ \A e \in ToSet(es) : e.parent = top.id => \E i \in 1..K : x[i] = e
      /\ \A i, j \in 1..K : i < j => x[i].id < x[j].id
  <2>1. x \in Seq(EntryRec)
    BY ChildrenFacts
  <2> QED BY <2>1, ChildrenFacts
<1>3. /\ d \in Seq(Item) /\ M = N + K
      /\ \A i \in 1..(n + 1) : d[i] = c[i]
      /\ \A i \in 1..K : d[n + 1 + i] = Listed(x[i], c[n + 1].depth + 1)
      /\ \A i \in (n + 2)..N : d[i + K] = c[i]
  BY DEF Spliced
<1>4. top \in ToSet(es) /\ top \in EntryRec /\ top.id # NoParent
  <2>1. top \in ToSet(es)
    BY <1>1 DEF Placed
  <2> QED BY <2>1, BranchOfChild
<1> HIDE DEF x, K, N, M
<1> DEFINE D == c[n + 1].depth
<1>5. D + 1 = Len(getBranch(es, top.id))
  BY <1>1 DEF Placed, N
<1>6. \A i \in 1..M : ~Kid(i) => old(i) \in 1..N /\ d[i] = c[old(i)]
  <2>1. ASSUME NEW i \in 1..M, ~Kid(i) PROVE old(i) \in 1..N /\ d[i] = c[old(i)]
    <3>1. CASE i <= n + 1
      <4>1. old(i) = i /\ i \in 1..(n + 1) /\ i \in 1..N
        BY <1>1, <1>2, <3>1
      <4> QED BY <1>3, <4>1
    <3>2. CASE i > n + 1
      <4>1. old(i) = i - K /\ i - K \in (n + 2)..N /\ (i - K) + K = i /\ i - K \in 1..N
        BY <1>1, <1>2, <1>3, <2>1, <3>2
      <4> QED BY <1>3, <4>1
    <3> QED BY <1>1, <3>1, <3>2
  <2> QED BY <2>1
<1>7. \A i \in 1..M : Kid(i) => /\ i - n - 1 \in 1..K /\ d[i].entry = x[i - n - 1] /\ d[i].depth = D + 1
                                /\ d[i].entry \in ToSet(es) /\ d[i].entry.parent = top.id
  <2>1. ASSUME NEW i \in 1..M, Kid(i)
        PROVE  /\ i - n - 1 \in 1..K /\ d[i].entry = x[i - n - 1] /\ d[i].depth = D + 1
               /\ d[i].entry \in ToSet(es) /\ d[i].entry.parent = top.id
    <3>1. i - n - 1 \in 1..K /\ n + 1 + (i - n - 1) = i
      <4>1. n \in Nat /\ K \in Nat /\ i \in (n + 2)..(n + 1 + K)
        BY <1>1, <1>2, <2>1
      <4> QED BY <4>1
    <3>2. d[i] = Listed(x[i - n - 1], D + 1)
      BY <1>3, <3>1
    <3>3. d[i].entry = x[i - n - 1] /\ d[i].depth = D + 1
      BY <3>2 DEF Listed
    <3> QED BY <1>2, <3>1, <3>3
  <2> QED BY <2>1
\* No other entry of the walk has the same parent.
<1>8. \A i \in 1..N : c[i].entry \in ToSet(es) /\ c[i].entry.parent # top.id
  <2>1. ASSUME NEW i \in 1..N PROVE c[i].entry.parent # top.id
    <3>1. CASE c[i].entry.parent = NoParent
      BY <1>4, <3>1
    <3>2. CASE \E k \in 1..n : c[k].entry.id = c[i].entry.parent
      <4>1. PICK k \in 1..n : c[k].entry.id = c[i].entry.parent
        BY <3>2
      <4>2. k \in 1..N /\ k < n + 1
        BY <1>1
      <4>3. c[k].entry.id # c[n + 1].entry.id
        BY <1>1, <4>2 DEF Distinct, N
      <4> QED BY <4>1, <4>3
    <3> QED BY <1>1, <3>1, <3>2 DEF Rooted, ParentListed, N
  <2> QED BY <1>1, <2>1 DEF Placed, N
<1>9. \A i \in 1..M : d[i].entry \in ToSet(es)
  BY <1>6, <1>7, <1>8
<1> HIDE DEF top, D
<1>10. Placed(es, d)
  <2>1. ASSUME NEW i \in 1..M PROVE d[i].depth + 1 = Len(getBranch(es, d[i].entry.id))
    <3>1. CASE Kid(i)
      <4>1. Len(getBranch(es, d[i].entry.id)) = Len(getBranch(es, top.id)) + 1
        BY <1>7, <1>9, <3>1, IdsOfBranch
      <4> QED BY <1>5, <1>7, <3>1, <4>1
    <3>2. CASE ~Kid(i)
      <4>1. old(i) \in 1..N /\ d[i] = c[old(i)]
        BY <1>6, <3>2
      <4>2. \A j \in 1..N : c[j].depth + 1 = Len(getBranch(es, c[j].entry.id))
        BY <1>1 DEF Placed, N
      <4> HIDE DEF old
      <4> QED BY <4>1, <4>2
    <3> QED BY <3>1, <3>2
  <2> QED BY <1>9, <2>1 DEF Placed, M
<1>11. \A i, j \in 1..M : i < j /\ ~Kid(i) /\ ~Kid(j) => old(i) < old(j)
  BY <1>1, <1>2, <1>3
<1>12. \A i, j \in 1..M : i < j /\ Kid(i) /\ Kid(j) => d[i].entry.id < d[j].entry.id
  <2>1. ASSUME NEW i \in 1..M, NEW j \in 1..M, i < j, Kid(i), Kid(j)
        PROVE  d[i].entry.id < d[j].entry.id
    <3>1. i - n - 1 \in 1..K /\ j - n - 1 \in 1..K /\ i - n - 1 < j - n - 1
      BY <1>1, <1>7, <2>1
    <3>2. d[i].entry = x[i - n - 1] /\ d[j].entry = x[j - n - 1]
      BY <1>7, <2>1
    <3>3. x[i - n - 1].id < x[j - n - 1].id
      BY <1>2, <3>1
    <3> QED BY <3>2, <3>3
  <2> QED BY <2>1
<1>13. \A i, j \in 1..M : Kid(i) /\ ~Kid(j) => d[i].entry.parent # d[j].entry.parent
  <2>1. ASSUME NEW i \in 1..M, NEW j \in 1..M, Kid(i), ~Kid(j)
        PROVE  d[i].entry.parent # d[j].entry.parent
    <3>1. d[i].entry.parent = top.id
      BY <1>7, <2>1
    <3>2. old(j) \in 1..N /\ d[j] = c[old(j)]
      BY <1>6, <2>1
    <3> HIDE DEF old
    <3> QED BY <1>8, <3>1, <3>2
  <2> QED BY <2>1
<1> HIDE DEF Kid, old
<1>14. Distinct(d)
  <2>1. ASSUME NEW i \in 1..M, NEW j \in 1..M, i < j PROVE d[i].entry.id # d[j].entry.id
    <3>1. CASE Kid(i) /\ Kid(j)
      <4>1. d[i].entry.id < d[j].entry.id /\ d[i].entry \in EntryRec
        BY <1>9, <1>12, <2>1, <3>1, BranchOfChild
      <4>2. d[i].entry.id \in Nat
        BY <4>1 DEF EntryRec
      <4> QED BY <4>1, <4>2
    <3>2. CASE Kid(i) /\ ~Kid(j)
      BY <1>9, <1>13, <3>2, OneEntry
    <3>3. CASE ~Kid(i) /\ Kid(j)
      BY <1>9, <1>13, <3>3, OneEntry
    <3>4. CASE ~Kid(i) /\ ~Kid(j)
      <4>1. old(i) \in 1..N /\ d[i] = c[old(i)] /\ old(j) \in 1..N /\ d[j] = c[old(j)] /\ old(i) < old(j)
        BY <1>6, <1>11, <2>1, <3>4
      <4> QED BY <1>1, <4>1 DEF Distinct, N
    <3> QED BY <3>1, <3>2, <3>3, <3>4
  <2> QED BY <2>1 DEF Distinct, M
<1>15. Siblings(d)
  <2>1. ASSUME NEW i \in 1..M, NEW j \in 1..M, i < j, d[i].entry.parent = d[j].entry.parent
        PROVE  d[i].entry.id < d[j].entry.id
    <3>1. CASE Kid(i) /\ Kid(j)
      BY <1>12, <2>1, <3>1
    <3>2. CASE (Kid(i) /\ ~Kid(j)) \/ (~Kid(i) /\ Kid(j))
      BY <1>13, <2>1, <3>2
    <3>3. CASE ~Kid(i) /\ ~Kid(j)
      <4>1. old(i) \in 1..N /\ d[i] = c[old(i)] /\ old(j) \in 1..N /\ d[j] = c[old(j)] /\ old(i) < old(j)
        BY <1>6, <1>11, <2>1, <3>3
      <4> QED BY <1>1, <2>1, <4>1 DEF Siblings, N
    <3> QED BY <3>1, <3>2, <3>3
  <2> QED BY <2>1 DEF Siblings, M
<1>16. n + 1 \in 1..M /\ d[n + 1] = c[n + 1] /\ \A k \in 1..n : k \in 1..(n + 1) /\ d[k] = c[k]
  <2>1. n + 1 \in 1..M /\ n + 1 \in 1..(n + 1) /\ \A k \in 1..n : k \in 1..(n + 1)
    BY <1>1, <1>2, <1>3
  <2> QED BY <1>3, <2>1
<1>17. Rooted(d, n + 1)
  <2>1. ASSUME NEW i \in 1..M PROVE ParentListed(d[i].entry, d, n + 1)
    <3>1. CASE Kid(i)
      <4>1. d[i].entry.parent = d[n + 1].entry.id /\ n + 1 \in 1..(n + 1)
        BY <1>1, <1>7, <1>16, <3>1 DEF top
      <4> QED BY <4>1 DEF ParentListed
    <3>2. CASE ~Kid(i)
      <4>1. old(i) \in 1..N /\ d[i] = c[old(i)]
        BY <1>6, <3>2
      <4>2. ParentListed(d[i].entry, c, n)
        BY <1>1, <4>1 DEF Rooted, N
      <4> QED BY <1>16, <4>2 DEF ParentListed
    <3> QED BY <3>1, <3>2
  <2> QED BY <2>1 DEF Rooted, M
<1>18. Whole(es, d, n + 1)
  <2>1. ASSUME NEW e \in ToSet(es), ParentListed(e, d, n + 1) PROVE \E i \in 1..M : d[i].entry = e
    <3>1. CASE ParentListed(e, c, n)
      <4>1. PICK i \in 1..N : c[i].entry = e
        BY <1>1, <3>1 DEF Whole, N
      <4>2. CASE i <= n + 1
        <5>1. i \in 1..(n + 1) /\ i \in 1..M
          BY <1>1, <1>2, <1>3, <4>2
        <5> QED BY <1>3, <4>1, <5>1
      <4>3. CASE i > n + 1
        <5>1. i \in (n + 2)..N /\ i + K \in 1..M
          BY <1>1, <1>2, <1>3, <4>3
        <5>2. d[i + K] = c[i]
          BY <1>3, <5>1
        <5> QED BY <4>1, <5>1, <5>2
      <4> QED BY <1>1, <4>2, <4>3
    <3>2. CASE e.parent = top.id
      <4>1. PICK i \in 1..K : x[i] = e
        BY <1>2, <3>2
      <4>2. n + 1 + i \in 1..M /\ d[n + 1 + i] = Listed(x[i], D + 1)
        <5>1. n + 1 + i \in 1..M
          BY <1>1, <1>2, <1>3
        <5> QED BY <1>3, <5>1 DEF D
      <4>3. d[n + 1 + i].entry = e
        BY <4>1, <4>2 DEF Listed
      <4> QED BY <4>2, <4>3
    <3>3. ParentListed(e, c, n) \/ e.parent = top.id
      <4>1. CASE e.parent = NoParent
        BY <4>1 DEF ParentListed
      <4>2. CASE \E k \in 1..(n + 1) : d[k].entry.id = e.parent
        <5>1. PICK k \in 1..(n + 1) : d[k].entry.id = e.parent
          BY <4>2
        <5>2. k \in 1..n \/ k = n + 1
          BY <1>1
        <5> QED BY <1>16, <5>1, <5>2 DEF ParentListed, top
      <4> QED BY <2>1, <4>1, <4>2 DEF ParentListed
    <3> QED BY <3>1, <3>2, <3>3
  <2> QED BY <2>1 DEF Whole, M
<1>19. Followed(es, d, n + 1)
  <2>0. /\ IdsIn(getBranch(es, top.id)) = IdsIn(getBranch(es, top.parent)) \cup {top.id}
        /\ \A i \in 1..M : Kid(i) => IdsIn(getBranch(es, d[i].entry.id)) = IdsIn(getBranch(es, top.id)) \cup {d[i].entry.id}
    <3>1. IdsIn(getBranch(es, top.id)) = IdsIn(getBranch(es, top.parent)) \cup {top.id}
      BY <1>4, IdsOfBranch
    <3>2. ASSUME NEW i \in 1..M, Kid(i)
          PROVE  IdsIn(getBranch(es, d[i].entry.id)) = IdsIn(getBranch(es, top.id)) \cup {d[i].entry.id}
      <4>1. d[i].entry \in ToSet(es) /\ d[i].entry.parent = top.id
        BY <1>7, <3>2
      <4> QED BY <4>1, IdsOfBranch
    <3> QED BY <3>1, <3>2
  <2>1. ASSUME NEW k \in 1..M, NEW l \in 1..M, k < l, k > n + 1 \/ l = k + 1
        PROVE  HangsOn(es, d[l].entry, d[k].entry)
    <3>1. CASE Kid(k) /\ Kid(l)
      BY <1>7, <2>0, <3>1 DEF HangsOn
    <3>2. CASE Kid(k) /\ ~Kid(l)
      <4>1. old(l) \in 1..N /\ d[l] = c[old(l)]
        BY <1>6, <3>2
      <4>2. n + 1 < old(l)
        BY <1>1, <1>2, <2>1, <3>2 DEF old, Kid
      <4>3. HangsOn(es, c[old(l)].entry, c[n + 1].entry)
        <5>1. n + 1 > n /\ n + 1 \in 1..N
          BY <1>1
        <5> QED BY <1>1, <4>1, <4>2, <5>1 DEF Followed, N
      <4> QED BY <2>0, <3>2, <4>1, <4>3 DEF HangsOn, top
    <3>3. CASE ~Kid(k) /\ Kid(l)
      <4>1. k = n + 1
        BY <1>1, <1>2, <2>1, <3>3 DEF Kid
      <4>2. d[k].entry = top /\ d[l].entry.parent = top.id
        BY <1>7, <1>16, <3>3, <4>1 DEF top
      <4> QED BY <2>0, <4>2 DEF HangsOn
    <3>4. CASE ~Kid(k) /\ ~Kid(l)
      <4>1. old(k) \in 1..N /\ d[k] = c[old(k)] /\ old(l) \in 1..N /\ d[l] = c[old(l)] /\ old(k) < old(l)
        BY <1>6, <1>11, <2>1, <3>4
      <4>2. old(k) > n \/ old(l) = old(k) + 1
        BY <1>1, <1>2, <2>1, <3>4 DEF old, Kid
      <4> QED BY <1>1, <4>1, <4>2 DEF Followed, N
    <3> QED BY <3>1, <3>2, <3>3, <3>4
  <2> QED BY <2>1 DEF Followed, M
<1>20. n + 1 \in 0..M
  BY <1>1, <1>16
<1> QED BY <1>3, <1>10, <1>14, <1>15, <1>17, <1>18, <1>19, <1>20 DEF Walked, M
\* The states of getTreeEntries that are walks, and its next step.
Walks(es) ==
  {s \in [stack : Seq(Item), out : Seq(Item)] : Walked(es, s.out \o s.stack, Len(s.out))}

Onward(es, s) == IF s.stack = <<>> THEN s ELSE Popped(es, s)

\* What is pushed are items.
LEMMA PushedType ==
    ASSUME NEW x \in Seq(EntryRec), NEW k \in Nat, NEW t \in Seq(Item)
    PROVE  /\ Pushed(t, x, k) \in Seq(Item) /\ Len(Pushed(t, x, k)) = Len(x) + Len(t)
           /\ \A i \in 1..Len(x) : Pushed(t, x, k)[i] = Listed(x[i], k)
           /\ \A i \in 1..Len(t) : Pushed(t, x, k)[Len(x) + i] = t[i]
<1> DEFINE a == [i \in DOMAIN x |-> Listed(x[i], k)]
           p == a \o t
<1>1. DOMAIN x = 1..Len(x) /\ Len(x) \in Nat /\ Len(t) \in Nat /\ \A i \in 1..Len(x) : x[i] \in EntryRec
  OBVIOUS
<1>2. \A i \in 1..Len(x) : Listed(x[i], k) \in Item
  BY <1>1 DEF Listed, Item
<1>3. a \in Seq(Item) /\ Len(a) = Len(x) /\ \A i \in 1..Len(x) : a[i] = Listed(x[i], k)
  BY <1>1, <1>2
<1>4. Pushed(t, x, k) = p
  BY DEF Pushed
<1> HIDE DEF a
<1>5. /\ p \in Seq(Item) /\ Len(p) = Len(a) + Len(t)
      /\ \A i \in 1..(Len(a) + Len(t)) : p[i] = IF i <= Len(a) THEN a[i] ELSE t[i - Len(a)]
  BY <1>3, ConcatProperties
<1> HIDE DEF p
<1>6. \A i \in 1..Len(x) : p[i] = Listed(x[i], k)
  BY <1>1, <1>3, <1>5
<1>7. ASSUME NEW i \in 1..Len(t) PROVE p[Len(x) + i] = t[i]
  <2>1. Len(x) + i \in 1..(Len(a) + Len(t)) /\ ~(Len(x) + i <= Len(a)) /\ (Len(x) + i) - Len(a) = i
    BY <1>1, <1>3
  <2> QED BY <1>5, <2>1
<1> QED BY <1>3, <1>4, <1>5, <1>6, <1>7

\* A step of it goes on with the walk; it lists one entry more unless nothing is left.
LEMMA OnwardWalks ==
    ASSUME NEW es \in Seq(EntryRec), Grown(es), NEW s \in Walks(es)
    PROVE  /\ Onward(es, s) \in Walks(es)
           /\ s.stack = <<>> => Onward(es, s) = s
           /\ s.stack # <<>> => Len(Onward(es, s).out) = Len(s.out) + 1
<1>1. CASE s.stack = <<>>
  BY <1>1 DEF Onward
<1>2. CASE s.stack # <<>>
  <2> DEFINE o == s.out
             k == s.stack
             n == Len(o)
             c == o \o k
             top == k[1]
             rest == Tail(k)
             x == Children(es, top.entry.id)
             p == Pushed(rest, x, top.depth + 1)
             q == Append(o, top)
             d == q \o p
             t == Popped(es, s)
  <2>1. /\ o \in Seq(Item) /\ k \in Seq(Item) /\ k # <<>> /\ Walked(es, c, n)
        /\ s = [stack |-> k, out |-> o]
    BY <1>2 DEF Walks
  <2>2. t = IF top.entry.id \in {y.entry.id : y \in ToSet(o)}
            THEN [s EXCEPT !.stack = rest] ELSE [stack |-> p, out |-> q]
    BY DEF Popped
  <2>3. x \in Seq(EntryRec)
    BY ChildrenFacts
  <2> HIDE DEF o, k, x, t
  <2>4. /\ n \in Nat /\ Len(k) \in Nat \ {0} /\ top \in Item /\ rest \in Seq(Item) /\ Len(rest) = Len(k) - 1
        /\ \A i \in 1..Len(rest) : rest[i] = k[i + 1]
    BY <2>1
  <2>5. /\ c \in Seq(Item) /\ Len(c) = n + Len(k)
        /\ \A i \in 1..(n + Len(k)) : c[i] = IF i <= n THEN o[i] ELSE k[i - n]
    BY <2>1, ConcatProperties
  <2>6. top.depth + 1 \in Nat
    BY <2>4 DEF Item
  <2> HIDE DEF rest, c
  <2>7. /\ p \in Seq(Item) /\ Len(p) = Len(x) + Len(rest)
        /\ \A i \in 1..Len(x) : p[i] = Listed(x[i], top.depth + 1)
        /\ \A i \in 1..Len(rest) : p[Len(x) + i] = rest[i]
    <3> DEFINE h == top.depth + 1
    <3>1. h \in Nat
      BY <2>6
    <3> HIDE DEF h, top
    <3>2. /\ Pushed(rest, x, h) \in Seq(Item) /\ Len(Pushed(rest, x, h)) = Len(x) + Len(rest)
          /\ \A i \in 1..Len(x) : Pushed(rest, x, h)[i] = Listed(x[i], h)
          /\ \A i \in 1..Len(rest) : Pushed(rest, x, h)[Len(x) + i] = rest[i]
      BY <2>3, <2>4, <3>1, PushedType
    <3> QED BY <3>2 DEF h
  <2> HIDE DEF p, top
  <2>8. q \in Seq(Item) /\ Len(q) = n + 1 /\ q[n + 1] = top /\ \A i \in 1..n : q[i] = o[i]
    BY <2>1, <2>4, AppendProperties
  <2> HIDE DEF q
  <2>9. /\ d \in Seq(Item) /\ Len(d) = Len(q) + Len(p)
        /\ \A i \in 1..(Len(q) + Len(p)) : d[i] = IF i <= Len(q) THEN q[i] ELSE p[i - Len(q)]
    <3>1. q \in Seq(Item) /\ p \in Seq(Item)
      BY <2>7, <2>8
    <3> QED BY <3>1, ConcatProperties
  <2> HIDE DEF d
  <2>10. c[n + 1] = top /\ n < Len(c) /\ \A i \in 1..n : c[i] = o[i]
    <3>1. n + 1 \in 1..(n + Len(k)) /\ ~(n + 1 <= n) /\ (n + 1) - n = 1
      BY <2>4
    <3>2. c[n + 1] = k[1]
      BY <2>5, <3>1
    <3>3. \A i \in 1..n : i \in 1..(n + Len(k)) /\ i <= n
      BY <2>4
    <3> QED BY <2>4, <2>5, <3>2, <3>3 DEF top
  <2>11. top.entry.id \notin {y.entry.id : y \in ToSet(o)}
    <3>1. Distinct(c)
      BY <2>1 DEF Walked
    <3>2. ASSUME NEW y \in ToSet(o) PROVE y.entry.id # top.entry.id
      <4>1. PICK i \in 1..n : y = o[i]
        BY <2>1, <3>2 DEF ToSet
      <4>2. i \in 1..Len(c) /\ n + 1 \in 1..Len(c) /\ i < n + 1 /\ y = c[i]
        BY <2>4, <2>5, <2>10, <4>1
      <4> QED BY <2>10, <3>1, <4>2 DEF Distinct
    <3> QED BY <3>2
  <2>12. t = [stack |-> p, out |-> q]
    BY <2>2, <2>11
  <2>13. Spliced(c, n, x, d)
    <3>0. n \in Nat /\ Len(x) \in Nat /\ Len(k) \in Nat
      BY <2>3, <2>4
    <3>1. Len(d) = Len(c) + Len(x)
      BY <2>4, <2>5, <2>7, <2>8, <2>9, <3>0
    <3>2. ASSUME NEW i \in 1..(n + 1) PROVE d[i] = c[i]
      <4>1. i \in 1..(Len(q) + Len(p)) /\ i <= Len(q) /\ (i \in 1..n \/ i = n + 1)
        BY <2>4, <2>7, <2>8, <3>0
      <4> QED BY <2>8, <2>9, <2>10, <4>1
    <3>3. ASSUME NEW i \in 1..Len(x) PROVE d[n + 1 + i] = Listed(x[i], c[n + 1].depth + 1)
      <4>1. n + 1 + i \in 1..(Len(q) + Len(p)) /\ ~(n + 1 + i <= Len(q)) /\ (n + 1 + i) - Len(q) = i
        BY <2>4, <2>7, <2>8, <3>0
      <4> QED BY <2>7, <2>9, <2>10, <4>1
    <3>4. ASSUME NEW i \in (n + 2)..Len(c) PROVE d[i + Len(x)] = c[i]
      <4>1. /\ i + Len(x) \in 1..(Len(q) + Len(p)) /\ ~(i + Len(x) <= Len(q))
            /\ (i + Len(x)) - Len(q) = Len(x) + (i - n - 1) /\ i - n - 1 \in 1..Len(rest)
        BY <2>4, <2>5, <2>7, <2>8, <3>0
      <4>2. d[i + Len(x)] = rest[i - n - 1]
        BY <2>7, <2>9, <4>1
      <4>3. rest[i - n - 1] = k[i - n] /\ i \in 1..(n + Len(k)) /\ ~(i <= n)
        <5>1. (i - n - 1) + 1 = i - n /\ i \in 1..(n + Len(k)) /\ ~(i <= n)
          BY <2>4, <2>5, <3>0
        <5> QED BY <2>4, <4>1, <5>1
      <4> QED BY <2>5, <4>2, <4>3
    <3> QED BY <2>9, <3>1, <3>2, <3>3, <3>4 DEF Spliced
  <2>14. Walked(es, d, n + 1)
    <3>1. Spliced(c, n, Children(es, c[n + 1].entry.id), d)
      BY <2>10, <2>13 DEF x
    <3> QED BY <2>1, <2>10, <3>1, WalkStep
  <2>15. t \in Walks(es) /\ Len(t.out) = n + 1
    <3>1. t.out = q /\ t.stack = p /\ t \in [stack : Seq(Item), out : Seq(Item)]
      BY <2>7, <2>8, <2>12
    <3>2. Walked(es, q \o p, Len(q))
      BY <2>8, <2>14 DEF d
    <3> QED BY <2>8, <3>1, <3>2 DEF Walks
  <2>16. Onward(es, s) = t
    BY <1>2 DEF Onward, t
  <2> QED BY <1>2, <2>15, <2>16 DEF o
<1> QED BY <1>1, <1>2

\* It begins with the roots.
LEMMA RootsWalk ==
    ASSUME NEW es \in Seq(EntryRec), Grown(es)
    PROVE  [stack |-> Pushed(<<>>, Children(es, NoParent), 0), out |-> <<>>] \in Walks(es)
<1> DEFINE x == Children(es, NoParent)
           p == Pushed(<<>>, x, 0)
           c == <<>> \o p
           s == [stack |-> p, out |-> <<>>]
<1>1. /\ x \in Seq(EntryRec)
      /\ \A i \in 1..Len(x) : x[i] \in ToSet(es) /\ x[i].parent = NoParent
      /\ \A e \in ToSet(es) : e.parent = NoParent => \E i \in 1..Len(x) : x[i] = e
      /\ \A i, j \in 1..Len(x) : i < j => x[i].id < x[j].id
  <2>1. x \in Seq(EntryRec)
    BY ChildrenFacts
  <2> QED BY <2>1, ChildrenFacts
<1> HIDE DEF x
<1>2. <<>> \in Seq(Item) /\ Len(<<>>) = 0 /\ 0 \in Nat /\ Len(x) \in Nat
  BY <1>1
<1>3. p \in Seq(Item) /\ Len(p) = Len(x) /\ \A i \in 1..Len(x) : p[i] = Listed(x[i], 0)
  <2> DEFINE r == <<>>
  <2>1. r \in Seq(Item) /\ Len(r) = 0
    BY <1>2
  <2> HIDE DEF r
  <2>2. /\ Pushed(r, x, 0) \in Seq(Item) /\ Len(Pushed(r, x, 0)) = Len(x) + Len(r)
        /\ \A i \in 1..Len(x) : Pushed(r, x, 0)[i] = Listed(x[i], 0)
    BY <1>1, <1>2, <2>1, PushedType
  <2> QED BY <1>2, <2>1, <2>2 DEF r
<1> HIDE DEF p
<1>4. c = p
  BY <1>3
<1>5. \A i \in 1..Len(p) : p[i].entry = x[i] /\ p[i].depth = 0 /\ x[i] \in ToSet(es) /\ x[i].parent = NoParent
  <2>1. \A i \in 1..Len(x) : Listed(x[i], 0).entry = x[i] /\ Listed(x[i], 0).depth = 0
    BY DEF Listed
  <2>2. ASSUME NEW i \in 1..Len(x)
        PROVE  p[i].entry = x[i] /\ p[i].depth = 0 /\ x[i] \in ToSet(es) /\ x[i].parent = NoParent
    <3>1. p[i] = Listed(x[i], 0)
      BY <1>3
    <3> QED BY <1>1, <2>1, <3>1
  <2> QED BY <1>3, <2>2
<1>6. Placed(es, p)
  <2>1. ASSUME NEW i \in 1..Len(p) PROVE p[i].depth + 1 = Len(getBranch(es, p[i].entry.id))
    <3>1. Len(getBranch(es, x[i].id)) = Len(getBranch(es, x[i].parent)) + 1
      BY <1>5, IdsOfBranch
    <3>2. getBranch(es, NoParent) = <<>>
      <4>1. NoParent \in Known(es)
        BY DEF Known
      <4> QED BY <4>1, BranchEnds
    <3> QED BY <1>2, <1>5, <3>1, <3>2
  <2> QED BY <1>5, <2>1 DEF Placed
<1>7. \A i, j \in 1..Len(p) : i < j => p[i].entry.id < p[j].entry.id /\ p[i].entry.id \in Nat
  <2>1. ASSUME NEW i \in 1..Len(p) PROVE x[i].id \in Nat
    <3>1. x[i] \in EntryRec
      BY <1>1, <1>3
    <3> QED BY <3>1 DEF EntryRec
  <2>2. ASSUME NEW i \in 1..Len(p), NEW j \in 1..Len(p), i < j
        PROVE  p[i].entry.id < p[j].entry.id /\ p[i].entry.id \in Nat
    BY <1>1, <1>3, <1>5, <2>1, <2>2
  <2> QED BY <2>2
<1>8. Distinct(p) /\ Siblings(p)
  BY <1>7 DEF Distinct, Siblings
<1>9. Rooted(p, 0) /\ Followed(es, p, 0)
  BY <1>5 DEF Rooted, ParentListed, Followed, HangsOn
<1>10. Whole(es, p, 0)
  <2>1. ASSUME NEW e \in ToSet(es), ParentListed(e, p, 0) PROVE \E i \in 1..Len(p) : p[i].entry = e
    <3>1. e.parent = NoParent
      BY <2>1 DEF ParentListed
    <3>2. PICK i \in 1..Len(x) : x[i] = e
      BY <1>1, <3>1
    <3> QED BY <1>3, <1>5, <3>2
  <2> QED BY <2>1 DEF Whole
<1>11. Walked(es, p, 0)
  <2>1. 0 \in 0..Len(p)
    BY <1>2, <1>3
  <2> QED BY <1>3, <1>6, <1>8, <1>9, <1>10, <2>1 DEF Walked
<1>12. s \in Walks(es)
  <2>1. s.out \o s.stack = p /\ Len(s.out) = 0
    BY <1>4
  <2> QED BY <1>2, <1>3, <1>11, <2>1 DEF Walks
<1> QED BY <1>12 DEF p, x
\* The walk of getTreeEntries goes on until nothing is left, or as often as there are entries.
LEMMA TreeRun ==
    ASSUME NEW es \in Seq(EntryRec), Grown(es)
    PROVE  \E s \in Walks(es) : /\ getTreeEntries(es) = s.out
                                /\ s.stack = <<>> \/ Len(s.out) = Len(es)
<1> DEFINE start == [stack |-> Pushed(<<>>, Children(es, NoParent), 0), out |-> <<>>]
           F(g) == [n \in 0..Len(es) |->
                      IF n = 0 THEN start
                      ELSE IF g[n - 1].stack = <<>> THEN g[n - 1] ELSE Popped(es, g[n - 1])]
           w == CHOOSE g : g = F(g)
           S == Walks(es)
           f == [q \in S \X EntryRec |-> Onward(es, q[1])]
<1>0. Len(es) \in Nat /\ \A n \in 1..Len(es) : es[n] \in EntryRec
  OBVIOUS
<1>1. start \in S /\ start.out = <<>>
  BY RootsWalk
<1>2. getTreeEntries(es) = w[Len(es)].out
  BY DEF getTreeEntries
<1>3. \A s \in S : /\ Onward(es, s) \in S
                   /\ s.stack = <<>> => Onward(es, s) = s
                   /\ s.stack # <<>> => Len(Onward(es, s).out) = Len(s.out) + 1
  BY OnwardWalks
<1>4. f \in [S \X EntryRec -> S]
  BY <1>3
<1> HIDE DEF start
<1>5. PICK h : FoldRun(h, f, start, es)
  BY <1>0, FoldExists
<1> HIDE DEF S
<1>6. \A n \in 0..Len(es) : h[n] \in S
  <2> HIDE DEF f
  <2> QED BY <1>1, <1>4, <1>5, FoldRunType, Zenon
<1>7. ASSUME NEW n \in 1..Len(es) PROVE h[n] = Onward(es, h[n - 1])
  <2>1. n - 1 \in 0..Len(es) /\ n \in 0..Len(es) /\ n # 0
    BY <1>0
  <2>2. <<h[n - 1], es[n]>> \in S \X EntryRec
    BY <1>0, <1>6, <2>1
  <2>3. h[n] = f[<<h[n - 1], es[n]>>]
    <3> HIDE DEF f
    <3> QED BY <1>5, <2>1 DEF FoldRun
  <2> QED BY <2>2, <2>3
<1>8. h[0] = start /\ h = [n \in 0..Len(es) |-> h[n]]
  <2> HIDE DEF f
  <2> QED BY <1>0, <1>5 DEF FoldRun
<1>9. h = F(h)
  <2>1. ASSUME NEW n \in 0..Len(es) PROVE h[n] = F(h)[n]
    <3>1. CASE n = 0
      BY <1>8, <3>1
    <3>2. CASE n # 0
      <4>1. h[n] = Onward(es, h[n - 1])
        BY <1>7, <3>2
      <4> QED BY <3>2, <4>1 DEF Onward
    <3> QED BY <3>1, <3>2
  <2> QED BY <1>8, <2>1
<1> HIDE DEF F, f
<1>10. w = F(w)
  BY <1>9
<1> HIDE DEF w
<1>11. w[0] = start /\ \A n \in 1..Len(es) : w[n] = Onward(es, w[n - 1])
  <2>1. \A n \in 0..Len(es) :
          w[n] = IF n = 0 THEN start
                 ELSE IF w[n - 1].stack = <<>> THEN w[n - 1] ELSE Popped(es, w[n - 1])
    BY <1>10 DEF F
  <2>2. 0 \in 0..Len(es) /\ \A n \in 1..Len(es) : n \in 0..Len(es) /\ n # 0
    BY <1>0
  <2> QED BY <2>1, <2>2 DEF Onward
<1>12. w[Len(es)] = h[Len(es)]
  <2>1. \A k \in 0..(Len(es) - 1) : w[k] = h[k] => w[k + 1] = h[k + 1]
    <3> SUFFICES ASSUME NEW k \in 0..(Len(es) - 1), w[k] = h[k] PROVE w[k + 1] = h[k + 1]
      OBVIOUS
    <3>1. k + 1 \in 1..Len(es) /\ (k + 1) - 1 = k
      BY <1>0
    <3> QED BY <1>7, <1>11, <3>1
  <2>2. w[0] = h[0]
    BY <1>8, <1>11
  <2> QED BY <1>0, <2>1, <2>2, SameSteps
<1> DEFINE done(n) == h[n].stack = <<>> \/ Len(h[n].out) = n
           T == {n \in Nat : n <= Len(es) => done(n)}
<1>13. done(0)
  BY <1>1, <1>8
<1>14. ASSUME NEW n \in Nat, n + 1 <= Len(es), done(n) PROVE done(n + 1)
  <2>1. n \in 0..Len(es) /\ n + 1 \in 1..Len(es) /\ (n + 1) - 1 = n
    BY <1>0, <1>14
  <2>2. h[n] \in S /\ h[n + 1] = Onward(es, h[n])
    BY <1>6, <1>7, <2>1
  <2>3. CASE h[n].stack = <<>>
    BY <1>3, <2>2, <2>3
  <2>4. CASE h[n].stack # <<>>
    BY <1>3, <1>14, <2>2, <2>4
  <2> QED BY <2>3, <2>4
<1> HIDE DEF done
<1>15. T = Nat
  <2>1. T \in SUBSET Nat /\ 0 \in T
    BY <1>13
  <2>2. \A n \in T : n + 1 \in T
    BY <1>0, <1>14
  <2> HIDE DEF T
  <2> QED BY <2>1, <2>2, Induction
<1>16. h[Len(es)] \in Walks(es) /\ done(Len(es))
  <2>1. Len(es) \in 0..Len(es) /\ Len(es) \in T
    BY <1>0, <1>15
  <2> QED BY <1>6, <2>1 DEF S
<1> QED BY <1>2, <1>12, <1>16 DEF done

\* What is counted off against as many things, each once, is no more of them.
LEMMA NoMore ==
    ASSUME NEW k \in Nat, NEW n \in Nat, NEW g \in [1..k -> 1..n],
           \A i, j \in 1..k : i < j => g[i] # g[j]
    PROVE  k <= n
<1> SUFFICES ASSUME n < k PROVE FALSE
  OBVIOUS
<1>1. IsFiniteSet(1..k) /\ IsFiniteSet(1..n) /\ Cardinality(1..k) = k /\ Cardinality(1..n) = n
  BY FS_Interval
<1>2. PICK x, y \in 1..k : x # y /\ g[x] = g[y]
  BY <1>1, FS_PigeonHole
<1>3. x < y \/ y < x
  BY <1>2
<1> QED BY <1>2, <1>3

\* A walk that has nothing left, or has listed as many as there are, has listed them all.
LEMMA WalkIsOver ==
    ASSUME NEW es \in Seq(EntryRec), Grown(es), NEW s \in Walks(es),
           s.stack = <<>> \/ Len(s.out) = Len(es)
    PROVE  /\ Walked(es, s.out, Len(s.out)) /\ Len(s.out) = Len(es)
           /\ \A e \in ToSet(es) : \E i \in 1..Len(s.out) : s.out[i].entry = e
<1> DEFINE o == s.out
           k == s.stack
           n == Len(o)
           c == o \o k
           N == Len(c)
           L == Len(es)
<1>1. o \in Seq(Item) /\ k \in Seq(Item) /\ Walked(es, c, n) /\ (k = <<>> \/ n = L)
  BY DEF Walks
<1> HIDE DEF o, k
<1>2. c \in Seq(Item) /\ N = n + Len(k) /\ n \in Nat /\ Len(k) \in Nat
  <2>1. o \in Seq(Item) /\ k \in Seq(Item)
    BY <1>1
  <2> QED BY <2>1, ConcatProperties
<1>3. L \in Nat /\ Placed(es, c) /\ Distinct(c) /\ Whole(es, c, n)
  BY <1>1 DEF Walked
<1> HIDE DEF c
<1>4. N <= L
  <2> DEFINE at(i) == CHOOSE j \in 1..L : es[j] = c[i].entry
             g == [i \in 1..N |-> at(i)]
  <2>1. ASSUME NEW i \in 1..N PROVE at(i) \in 1..L /\ es[at(i)] = c[i].entry
    <3>1. \E j \in 1..L : es[j] = c[i].entry
      <4>1. c[i].entry \in ToSet(es)
        BY <1>3 DEF Placed
      <4>2. \A e \in ToSet(es) : \E j \in 1..L : es[j] = e
        BY DEF ToSet
      <4> QED BY <4>1, <4>2
    <3> QED BY <3>1
  <2> HIDE DEF at
  <2>2. g \in [1..N -> 1..L] /\ \A i \in 1..N : g[i] = at(i)
    BY <2>1
  <2>3. N \in Nat
    BY <1>2
  <2> HIDE DEF g
  <2>4. \A i, j \in 1..N : i < j => g[i] # g[j]
    BY <1>3, <2>1, <2>2 DEF Distinct
  <2> HIDE DEF N, L
  <2> QED BY <1>3, <2>2, <2>3, <2>4, NoMore DEF L
<1>5. c = o /\ k = <<>>
  <2>1. Len(k) = 0
    <3>1. CASE k = <<>>
      BY <3>1
    <3>2. CASE n = L
      BY <1>2, <1>3, <1>4, <3>2
    <3> QED BY <1>1, <3>1, <3>2
  <2>2. k = <<>>
    BY <1>1, <2>1
  <2> QED BY <1>1, <2>2 DEF c
<1>6. Walked(es, o, n) /\ N = n /\ n <= L
  BY <1>1, <1>4, <1>5
<1> DEFINE listed(i) == \E j \in 1..n : o[j].entry = es[i]
           T == {i \in Nat : \A q \in 1..L : q <= i => listed(q)}
<1>7. ASSUME NEW i \in Nat, i + 1 \in 1..L, \A q \in 1..L : q <= i => listed(q) PROVE listed(i + 1)
  <2> DEFINE e == es[i + 1]
  <2>1. e \in ToSet(es)
    BY <1>7 DEF ToSet
  <2>2. ParentListed(e, o, n)
    <3>1. CASE e.parent = NoParent
      BY <3>1 DEF ParentListed
    <3>2. CASE e.parent # NoParent
      <4>1. PICK q \in 1..((i + 1) - 1) : es[q].id = e.parent
        BY <1>7, <3>2 DEF Grown
      <4>2. q \in 1..L /\ q <= i
        BY <1>3, <1>7
      <4>3. PICK j \in 1..n : o[j].entry = es[q]
        BY <1>7, <4>2
      <4>4. o[j].entry.id = e.parent
        BY <4>1, <4>3
      <4> QED BY <4>4 DEF ParentListed
    <3> QED BY <3>1, <3>2
  <2>3. \E j \in 1..n : o[j].entry = e
    BY <1>6, <2>1, <2>2 DEF Walked, Whole
  <2> QED BY <2>3
<1> HIDE DEF listed
<1>8. T = Nat
  <2>1. T \in SUBSET Nat /\ 0 \in T
    BY <1>3
  <2>2. ASSUME NEW i \in T PROVE i + 1 \in T
    <3>1. ASSUME NEW q \in 1..L, q <= i + 1 PROVE listed(q)
      <4>1. q <= i \/ q = i + 1
        BY <1>3, <2>2, <3>1
      <4> QED BY <1>7, <2>2, <3>1, <4>1
    <3> QED BY <2>2, <3>1
  <2> HIDE DEF T
  <2> QED BY <2>1, <2>2, Induction
<1>9. \A q \in 1..L : listed(q)
  <2>1. L \in T
    BY <1>3, <1>8
  <2> QED BY <1>3, <2>1
<1>10. L <= n
  <2> DEFINE at(i) == CHOOSE j \in 1..n : o[j].entry = es[i]
             g == [i \in 1..L |-> at(i)]
  <2>1. ASSUME NEW i \in 1..L PROVE at(i) \in 1..n /\ o[at(i)].entry = es[i]
    BY <1>9 DEF listed
  <2> HIDE DEF at
  <2>2. g \in [1..L -> 1..n] /\ \A i \in 1..L : g[i] = at(i)
    BY <2>1
  <2> HIDE DEF g
  <2>3. \A i, j \in 1..L : i < j => es[i].id # es[j].id
    <3>1. \A e \in EntryRec : e.id \in Nat
      BY DEF EntryRec
    <3>2. \A i \in 1..L : es[i].id \in Nat
      BY <3>1
    <3> QED BY <3>2 DEF Grown
  <2>4. \A i, j \in 1..L : i < j => g[i] # g[j]
    BY <2>1, <2>2, <2>3
  <2> HIDE DEF n, L
  <2> QED BY <1>2, <1>3, <2>2, <2>4, NoMore
<1>11. n = L
  BY <1>2, <1>3, <1>6, <1>10
<1>12. \A e \in ToSet(es) : \E i \in 1..n : o[i].entry = e
  BY <1>9 DEF listed, ToSet
<1> QED BY <1>6, <1>11, <1>12 DEF o

\* /tree lists every entry of every branch once, each at its depth, behind its parent or
\* what hangs on it, and siblings in the order they were added (getTreeEntries).
THEOREM TreesAreComplete == TalkSpec => []TreeIsComplete
<1>1. TalkInit => PInv /\ TInv
  BY DEF TalkInit, PInv, TInv, Places, NoParent, Grown, Known
<1>2. PInv /\ TInv => TreeIsComplete
  <2> SUFFICES ASSUME PInv, TInv PROVE TreeIsComplete
    OBVIOUS
  <2> DEFINE list == getTreeEntries(entries)
             above(i) == getBranch(entries, list[i].entry.id)
  <2>1. entries \in Seq(EntryRec) /\ Grown(entries)
    BY DEF PInv, TInv
  <2>2. PICK s \in Walks(entries) : list = s.out /\ (s.stack = <<>> \/ Len(s.out) = Len(entries))
    BY <2>1, TreeRun
  <2>3. /\ Walked(entries, list, Len(list)) /\ Len(list) = Len(entries)
        /\ \A e \in ToSet(entries) : \E i \in 1..Len(list) : list[i].entry = e
    BY <2>1, <2>2, WalkIsOver
  <2> HIDE DEF list
  <2>4. /\ list \in Seq(Item) /\ Placed(entries, list) /\ Siblings(list)
        /\ Followed(entries, list, Len(list)) /\ DOMAIN list = 1..Len(list) /\ Len(list) \in Nat
    BY <2>3 DEF Walked
  <2>5. {x.entry : x \in ToSet(list)} = ToSet(entries)
    <3>1. \A x \in ToSet(list) : x.entry \in ToSet(entries)
      BY <2>4 DEF Placed, ToSet
    <3>2. ASSUME NEW e \in ToSet(entries) PROVE \E x \in ToSet(list) : x.entry = e
      <4>1. PICK i \in 1..Len(list) : list[i].entry = e
        BY <2>3
      <4>2. list[i] \in ToSet(list)
        BY <2>4 DEF ToSet
      <4> QED BY <4>1, <4>2
    <3> QED BY <3>1, <3>2
  <2>6. ASSUME NEW i \in DOMAIN list
        PROVE  /\ list[i].depth = Len(above(i)) - 1
               /\ i > 1 /\ list[i].depth > 0 => list[i].entry.parent \in IdsIn(above(i - 1))
    <3>1. i \in 1..Len(list) /\ list[i].depth \in Nat
      <4>1. \A x \in Item : x.depth \in Nat
        BY DEF Item
      <4>2. i \in 1..Len(list) /\ list[i] \in Item
        BY <2>4
      <4> QED BY <4>1, <4>2
    <3>2. list[i].entry \in ToSet(entries) /\ list[i].depth + 1 = Len(above(i))
      BY <2>4, <3>1 DEF Placed
    <3>3. list[i].depth = Len(above(i)) - 1
      BY <3>1, <3>2
    <3>4. ASSUME i > 1, list[i].depth > 0 PROVE list[i].entry.parent \in IdsIn(above(i - 1))
      <4>1. HangsOn(entries, list[i].entry, list[i - 1].entry)
        <5>1. i - 1 \in 1..Len(list) /\ i - 1 < i /\ i = (i - 1) + 1
          BY <2>4, <3>1, <3>4
        <5> QED BY <2>4, <3>1, <5>1 DEF Followed
      <4>2. list[i].entry.parent # NoParent
        <5> DEFINE e == list[i].entry
        <5>1. Len(getBranch(entries, e.id)) = Len(getBranch(entries, e.parent)) + 1
              /\ Len(getBranch(entries, e.parent)) \in Nat
          BY <2>1, <3>2, IdsOfBranch
        <5>2. getBranch(entries, NoParent) = <<>>
          <6>1. NoParent \in Known(entries)
            BY DEF Known
          <6> QED BY <2>1, <6>1, BranchEnds
        <5>3. Len(<<>>) = 0
          OBVIOUS
        <5> HIDE DEF e
        <5>4. Len(getBranch(entries, e.parent)) # 0
          BY <3>1, <3>2, <3>4, <5>1 DEF e
        <5> QED BY <5>2, <5>3, <5>4 DEF e
      <4> QED BY <4>1, <4>2 DEF HangsOn
    <3> QED BY <3>3, <3>4
  <2>7. \A i, j \in DOMAIN list :
          i < j /\ list[i].entry.parent = list[j].entry.parent => list[i].entry.id < list[j].entry.id
    BY <2>4 DEF Siblings
  <2> QED BY <2>3, <2>5, <2>6, <2>7 DEF TreeIsComplete, IdsIn, list
<1>3. PInv /\ TInv /\ [TalkNext]_talkVars => (PInv /\ TInv)'
  BY PairedStep, TreeStep
<1> QED BY <1>1, <1>2, <1>3, PTL DEF TalkSpec
----------------------------------------------------------------------------
(* The thresholds.                                                          *)

\* A part of a number, rounded, is that part up to a half.
LEMMA RoundedFacts ==
    ASSUME NEW n \in Nat
    PROVE  /\ \A p \in {10, 16, 92} : /\ Rounded(n, p) \in Nat
                                     /\ 100 * Rounded(n, p) <= n * p + 50
                                     /\ n * p + 50 < 100 * Rounded(n, p) + 100
<1>1. ASSUME NEW k \in Nat
      PROVE  k \div 100 \in Nat /\ 100 * (k \div 100) <= k /\ k < 100 * (k \div 100) + 100
  OBVIOUS
<1>2. n * 10 + 50 \in Nat /\ n * 16 + 50 \in Nat /\ n * 92 + 50 \in Nat
  OBVIOUS
<1> QED BY <1>1, <1>2 DEF Rounded

\* A half, rounded down.
LEMMA HalfFacts ==
    ASSUME NEW n \in Nat
    PROVE  n \div 2 \in Nat /\ 2 * (n \div 2) <= n /\ n < 2 * (n \div 2) + 2
OBVIOUS

\* For every window and every limit of the model: a conversation that does not trigger a
\* compaction leaves room for the answer, the request for a summary leaves room for the
\* summary, and the threshold leaves a conversation to work with (compact.ts:72-150).
THEOREM ThresholdsLeaveRoom ==
    ASSUME NEW window \in Nat, window > 1, NEW limit \in Nat
    PROVE  /\ compactionThreshold(limit, window) + maxOutputReserve(limit, window) <= window
           /\ summarizeInputCap(limit, window) + summaryOutputBudget(limit, window) <= window
           /\ window >= 4 => compactionThreshold(limit, window) > 1
<1> DEFINE r == maxOutputReserve(limit, window)
           h == window \div 2
           s == Rounded(window, 16)
           b == summaryOutputBudget(limit, window)
           x == Rounded(window, 10)
<1>1. window \in Nat /\ window > 1
  OBVIOUS
<1>2. h \in Nat /\ 2 * h <= window /\ window < 2 * h + 2
  BY <1>1, HalfFacts
<1>3. s \in Nat /\ 100 * s <= window * 16 + 50 /\ window * 16 + 50 < 100 * s + 100
  BY <1>1, RoundedFacts
<1>4. x \in Nat /\ 100 * x <= window * 10 + 50
  BY <1>1, RoundedFacts
<1>5. r \in Nat /\ 1 <= r /\ 2 * r <= window
  <2>1. CASE limit > 0
    <3>1. r = AtLeastOne(Least(Least(limit, Escalated), h))
      BY <2>1 DEF maxOutputReserve
    <3> HIDE DEF r, h
    <3> QED BY <1>1, <1>2, <2>1, <3>1 DEF AtLeastOne, Least, Escalated
  <2>2. CASE ~(limit > 0)
    <3>1. r = AtLeastOne(Least(s, window))
      BY <2>2 DEF maxOutputReserve, ReservePercent
    <3> HIDE DEF r, s
    <3> QED BY <1>1, <1>3, <3>1 DEF AtLeastOne, Least
  <2> QED BY <2>1, <2>2
<1>6. b \in Nat /\ 1 <= b /\ b < window
  <2>1. b = AtLeastOne(Least(IF limit > 0 THEN Least(x, limit) ELSE x, Escalated))
    BY DEF summaryOutputBudget, SummaryPercent
  <2> HIDE DEF b, x
  <2> QED BY <1>1, <1>4, <2>1 DEF AtLeastOne, Least, Escalated
<1>7. summarizeInputCap(limit, window) = AtLeastOne(window - b)
  BY DEF summarizeInputCap
<1>8. compactionThreshold(limit, window) = AtLeastOne(Rounded(window - r, 92))
  BY DEF compactionThreshold, CompactPercent
<1> HIDE DEF r, b, h, s, x
<1>9. PICK q \in Nat : q = Rounded(window - r, 92)
                       /\ 100 * q <= (window - r) * 92 + 50 /\ (window - r) * 92 + 50 < 100 * q + 100
  <2>1. window - r \in Nat
    BY <1>1, <1>5
  <2> QED BY <2>1, RoundedFacts
<1>10. AtLeastOne(q) + r <= window /\ (window >= 4 => AtLeastOne(q) > 1)
  BY <1>1, <1>5, <1>9 DEF AtLeastOne
<1>11. AtLeastOne(window - b) + b <= window
  BY <1>1, <1>6 DEF AtLeastOne
<1> QED BY <1>7, <1>8, <1>9, <1>10, <1>11 DEF r, b
=============================================================================
