------------------------- MODULE WorkerQueueProofs -------------------------
(***************************************************************************)
(* The queue of worker commands is correct for every number of callers,    *)
(* every kind of failure and every interleaving: theorems about            *)
(* WorkerQueue.  OneAtATime and AnswersMatch are not inductive: they rest  *)
(* on who may stand where, which is what QueueOK says.                     *)
(***************************************************************************)
EXTENDS WorkerQueue, SequenceTheorems, TLAPS

\* The command in progress is the only one that was posted.
CurrentIsPosted ==
  /\ \A c \in Caller : call[c] = "posted" <=> current = c
  /\ current = NoCaller => inbox = <<>> /\ outbox = <<>>

\* What is on its way to the worker and back belongs to it; the answer comes last.
ChannelsOfCurrent ==
  /\ inbox = <<>> \/ inbox = <<current>>
  /\ \A i \in 1 .. Len(outbox) :
       /\ outbox[i].of = current
       /\ outbox[i].kind # "progress" => i = Len(outbox) /\ inbox = <<>> /\ ran[current]
  /\ worker = "dead" => inbox = <<>>
  /\ worker \in {"loading", "dead"} => outbox = <<>>
  /\ \A c \in Caller : worker = "loading" /\ call[c] = "posted" => ~ran[c]

\* Who waits stands in one place of one of the two lists and was not served.
WaitersWait ==
  /\ \A c \in Caller : call[c] = "waiting" => ~ran[c]
  /\ \A i \in 1 .. Len(waiters) : call[waiters[i]] = "waiting"
  /\ \A i \in 1 .. Len(woken) :
       /\ call[woken[i].caller] = "waiting"
       /\ woken[i].answer.of # woken[i].caller
  /\ \A i, j \in 1 .. Len(waiters) : waiters[i] = waiters[j] => i = j
  /\ \A i, j \in 1 .. Len(woken) : woken[i].caller = woken[j].caller => i = j
  /\ \A i \in 1 .. Len(waiters), j \in 1 .. Len(woken) : waiters[i] # woken[j].caller

QueueOK == TypeOK /\ CurrentIsPosted /\ ChannelsOfCurrent /\ WaitersWait /\ AnswersMatch

---------------------------------------------------------------------------
(* Types *)

\* Head and tail of a sequence that is not empty.
LEMMA HeadTail ==
  ASSUME NEW S, NEW s \in Seq(S), s # <<>>
  PROVE  /\ Head(s) \in S /\ Head(s) = s[1]
         /\ Tail(s) \in Seq(S) /\ Len(s) \in Nat \ {0} /\ Len(Tail(s)) = Len(s) - 1
         /\ \A i \in 1 .. Len(Tail(s)) : i + 1 \in 1 .. Len(s) /\ Tail(s)[i] = s[i + 1]
  OBVIOUS

\* Posting or waiting keeps the types.
LEMMA PostOrWaitTyped ==
  ASSUME TypeOK, NEW c \in Caller, PostOrWait(c)
  PROVE  /\ call' \in [Caller -> {"idle", "waiting", "posted", "settled"}]
         /\ current' \in Caller \cup {NoCaller}
         /\ handler' \in Caller \cup {NoCaller}
         /\ waiters' \in Seq(Caller)
         /\ worker' = worker
         /\ inbox' \in Seq(Caller)
         /\ outbox' = outbox
<1>1. Append(inbox, c) \in Seq(Caller) /\ Append(waiters, c) \in Seq(Caller)
  BY DEF TypeOK
<1>2. CASE current = NoCaller /\ Post(c)
  BY <1>1, <1>2 DEF TypeOK, Post
<1>3. CASE current # NoCaller
  BY <1>1, <1>3 DEF TypeOK, PostOrWait
<1>4. QED
  BY <1>2, <1>3 DEF PostOrWait

\* Settling the command in progress keeps the types.
LEMMA SettleTyped ==
  ASSUME TypeOK, NEW a \in Outcome, Settle(a)
  PROVE  /\ call' \in [Caller -> {"idle", "waiting", "posted", "settled"}]
         /\ answer' \in [Caller -> Outcome \cup {None}]
         /\ current' = NoCaller
         /\ handler' = handler
         /\ waiters' = <<>>
         /\ woken' \in Seq(Waking)
         /\ Len(woken') = Len(waiters)
         /\ \A i \in 1 .. Len(waiters) : woken'[i] = [caller |-> waiters[i], answer |-> a]
         /\ restart' \in {"idle", "waiting", "woken"}
<1>1. /\ woken' \in [1 .. Len(waiters) -> Waking]
      /\ \A i \in 1 .. Len(waiters) : woken'[i] = [caller |-> waiters[i], answer |-> a]
  BY DEF TypeOK, Settle, Waking
<1>2. woken' \in Seq(Waking) /\ Len(woken') = Len(waiters)
  <2>1. Len(waiters) \in Nat
    BY DEF TypeOK
  <2>2. woken' \in Seq(Waking)
    BY <1>1, <2>1, SeqDef
  <2>3. QED
    BY <1>1, <2>1, <2>2
<1>3. call' \in [Caller -> {"idle", "waiting", "posted", "settled"}]
  BY DEF TypeOK, Settle
<1>4. answer' \in [Caller -> Outcome \cup {None}]
  BY DEF TypeOK, Settle
<1>5. QED
  BY <1>1, <1>2, <1>3, <1>4 DEF TypeOK, Settle

\* Every step keeps the types.
LEMMA TypeNext == TypeOK /\ [Next]_vars => TypeOK'
<1> SUFFICES ASSUME TypeOK, [Next]_vars PROVE TypeOK'
  OBVIOUS
<1>1. ASSUME NEW c \in Caller, Call(c) PROVE TypeOK'
  BY <1>1, PostOrWaitTyped DEF TypeOK, Call
<1>2. CASE Resume
  <2>1. Head(woken) \in Waking /\ Tail(woken) \in Seq(Waking)
    BY <1>2, HeadTail DEF TypeOK, Resume
  <2>2. Head(woken).caller \in Caller /\ Head(woken).answer \in Outcome
    BY <2>1 DEF Waking
  <2>3. CASE Head(woken).answer.kind = "result" /\ PostOrWait(Head(woken).caller) /\ UNCHANGED answer
    BY <1>2, <2>1, <2>2, <2>3, PostOrWaitTyped DEF TypeOK, Resume
  <2>4. CASE Head(woken).answer.kind = "error"
    BY <1>2, <2>1, <2>2, <2>4 DEF TypeOK, Resume
  <2>5. QED
    BY <1>2, <2>3, <2>4 DEF Resume
<1>3. CASE Deliver
  <2>1. Head(outbox) \in Message /\ Tail(outbox) \in Seq(Message)
    BY <1>3, HeadTail DEF TypeOK, Deliver
  <2>2. CASE Head(outbox).kind = "progress"
    BY <1>3, <2>1, <2>2 DEF TypeOK, Deliver
  <2>3. CASE Head(outbox).kind # "progress"
    <3>1. Head(outbox) \in Outcome /\ Settle(Head(outbox))
      BY <1>3, <2>1, <2>3 DEF Deliver, Message, Outcome
    <3>2. PICK a \in Outcome : Settle(a)
      BY <3>1
    <3>3. /\ outbox' \in Seq(Message) /\ worker' = worker /\ inbox' = inbox /\ ran' = ran
      BY <1>3, <2>1 DEF Deliver
    <3>4. QED
      BY <3>2, <3>3, SettleTyped, EmptySeq DEF TypeOK
  <2>4. QED
    BY <2>2, <2>3
<1>4. CASE Restart
  <2>1. <<>> \in Seq(Caller) /\ <<>> \in Seq(Message)
    OBVIOUS
  <2>2. QED
    BY <1>4, <2>1 DEF TypeOK, Restart, NewWorker
<1>5. CASE Load \/ WasmFails
  BY <1>5 DEF TypeOK, Load, WasmFails
<1>6. CASE ScriptFails
  <2>1. <<>> \in Seq(Caller)
    OBVIOUS
  <2>2. CASE handler # NoCaller
    <3>1. [kind |-> "error", of |-> NoCaller] \in Outcome
      BY DEF Outcome
    <3>2. Settle([kind |-> "error", of |-> NoCaller])
      BY <1>6, <2>2 DEF ScriptFails
    <3>3. QED
      BY <1>6, <2>1, <3>1, <3>2, SettleTyped DEF TypeOK, ScriptFails
  <2>3. CASE handler = NoCaller
    BY <1>6, <2>1, <2>3 DEF TypeOK, ScriptFails
  <2>4. QED
    BY <2>2, <2>3
<1>7. CASE Progress
  <2>1. [kind |-> "progress", of |-> Head(inbox)] \in Message
    BY <1>7, HeadTail DEF TypeOK, Progress, Message
  <2>2. QED
    BY <1>7, <2>1 DEF TypeOK, Progress
<1>8. CASE Serve
  <2>1. Head(inbox) \in Caller /\ Tail(inbox) \in Seq(Caller)
    BY <1>8, HeadTail DEF TypeOK, Serve
  <2>2. \A k \in {"result", "error"} : [kind |-> k, of |-> Head(inbox)] \in Message
    BY <2>1 DEF Message
  <2>3. QED
    BY <1>8, <2>1, <2>2 DEF TypeOK, Serve
<1>9. CASE UNCHANGED vars
  BY <1>9 DEF TypeOK, vars
<1>10. QED
  BY <1>1, <1>2, <1>3, <1>4, <1>5, <1>6, <1>7, <1>8, <1>9 DEF Next

\* The initial state has the types.
LEMMA TypeInit == Init => TypeOK
  BY DEF Init, TypeOK

\* Every variable keeps its type, whatever callers, worker and restarts do.
THEOREM QueueTyped == Spec => []TypeOK
  BY TypeInit, TypeNext, PTL DEF Spec

---------------------------------------------------------------------------
(* The queue *)

\* The empty sequences of the initial state and of a new worker.
LEMMA EmptyOrOne ==
  ASSUME NEW S, NEW x \in S
  PROVE  /\ Append(<<>>, x) = <<x>> /\ Len(<<x>>) = 1 /\ Head(<<x>>) = x
         /\ Tail(<<x>>) = <<>> /\ <<x>> # <<>>
  OBVIOUS

\* The queue is in order when the page starts.
LEMMA QueueInit == Init => QueueOK
<1> SUFFICES ASSUME Init PROVE QueueOK
  OBVIOUS
<1>1. TypeOK
  BY TypeInit
<1>2. QED
  BY <1>1, WorkerAssumption
     DEF Init, QueueOK, CurrentIsPosted, ChannelsOfCurrent, WaitersWait, AnswersMatch, None

\* A new call posts its command or goes to the end of the queue.
LEMMA CallKeepsQueue ==
  ASSUME QueueOK, TypeOK', NEW c \in Caller, Call(c)
  PROVE  QueueOK'
<1> USE DEF QueueOK
<1>1. /\ call[c] # "posted" /\ call[c] # "waiting" /\ c # NoCaller /\ woken = <<>> /\ woken' = <<>>
      /\ ran' = [ran EXCEPT ![c] = FALSE] /\ answer' = [answer EXCEPT ![c] = None]
  BY WorkerAssumption DEF Call
<1>2. CASE current = NoCaller /\ Post(c)
  <2>1. inbox = <<>> /\ outbox = <<>> /\ outbox' = <<>> /\ current' = c /\ waiters' = waiters
        /\ worker' = worker /\ call' = [call EXCEPT ![c] = "posted"]
    BY <1>2 DEF Post, CurrentIsPosted
  <2>2. inbox' = IF worker = "dead" THEN <<>> ELSE <<c>>
    BY <1>2, <2>1, EmptyOrOne DEF Post
  <2>3. CurrentIsPosted'
    BY <1>1, <1>2, <2>1, WorkerAssumption DEF CurrentIsPosted, TypeOK
  <2>4. ChannelsOfCurrent'
    BY <1>1, <2>1, <2>2, <2>3 DEF ChannelsOfCurrent, CurrentIsPosted, TypeOK
  <2>5. WaitersWait'
    BY <1>1, <2>1 DEF WaitersWait, TypeOK
  <2>6. AnswersMatch'
    BY <1>1, <2>1 DEF AnswersMatch, TypeOK
  <2>7. QED
    BY <2>3, <2>4, <2>5, <2>6
<1>3. CASE current # NoCaller
  <2>1. /\ waiters' = Append(waiters, c) /\ call' = [call EXCEPT ![c] = "waiting"]
        /\ UNCHANGED <<current, handler, inbox, worker, outbox>>
    BY <1>3 DEF Call, PostOrWait
  <2>2. CurrentIsPosted'
    BY <1>1, <2>1 DEF CurrentIsPosted, TypeOK
  <2>3. ChannelsOfCurrent'
    BY <1>1, <2>1 DEF ChannelsOfCurrent, CurrentIsPosted, TypeOK
  <2>4. WaitersWait'
    <3>1. /\ Len(waiters') = Len(waiters) + 1 /\ waiters'[Len(waiters) + 1] = c
          /\ \A i \in 1 .. Len(waiters) : waiters'[i] = waiters[i] /\ waiters[i] # c
      BY <1>1, <2>1 DEF TypeOK, WaitersWait
    <3>2. QED
      BY <1>1, <2>1, <3>1 DEF WaitersWait, TypeOK
  <2>5. AnswersMatch'
    BY <1>1, <2>1 DEF AnswersMatch, TypeOK
  <2>6. QED
    BY <2>2, <2>3, <2>4, <2>5
<1>4. QED
  BY <1>2, <1>3 DEF Call, PostOrWait

\* A caller that is resumed fails, posts its command or waits again.
LEMMA ResumeKeepsQueue ==
  ASSUME QueueOK, TypeOK', Resume
  PROVE  QueueOK'
<1> USE DEF QueueOK
<1> DEFINE w == Head(woken)
           c == w.caller
<1>1. /\ w \in Waking /\ c \in Caller /\ w.answer \in Outcome /\ w = woken[1]
      /\ woken' = Tail(woken) /\ 1 \in 1 .. Len(woken)
      /\ Len(woken') = Len(woken) - 1
      /\ \A i \in 1 .. Len(woken') : i + 1 \in 1 .. Len(woken) /\ woken'[i] = woken[i + 1]
  <2>1. woken \in Seq(Waking) /\ woken # <<>> /\ woken' = Tail(woken)
    BY DEF TypeOK, Resume
  <2>2. /\ w \in Waking /\ w = woken[1] /\ Len(woken) \in Nat \ {0}
        /\ Len(woken') = Len(woken) - 1
        /\ \A i \in 1 .. Len(woken') : i + 1 \in 1 .. Len(woken) /\ woken'[i] = woken[i + 1]
    BY <2>1, HeadTail
  <2>3. c \in Caller /\ w.answer \in Outcome
    BY <2>2 DEF Waking
  <2>4. QED
    BY <2>1, <2>2, <2>3
<1>2. /\ call[c] = "waiting" /\ ~ran[c] /\ w.answer.of # c /\ current # c /\ c # NoCaller
      /\ ran' = ran
  BY <1>1, WorkerAssumption DEF WaitersWait, CurrentIsPosted, Resume
<1>3. \A i \in 1 .. Len(woken') :
        /\ woken'[i].caller # c /\ call[woken'[i].caller] = "waiting"
        /\ woken'[i].caller \in Caller
        /\ woken'[i].answer.of # woken'[i].caller
        /\ \A k \in 1 .. Len(waiters) : waiters[k] # woken'[i].caller
        /\ \A j \in 1 .. Len(woken') : woken'[i].caller = woken'[j].caller => i = j
  <2>1. \A i \in 1 .. Len(woken) : woken[i] \in Waking
    BY DEF TypeOK
  <2>2. TAKE i \in 1 .. Len(woken')
  <2>3. /\ i + 1 \in 1 .. Len(woken) /\ woken'[i] = woken[i + 1] /\ i + 1 # 1
        /\ woken'[i].caller \in Caller
    BY <1>1, <2>1 DEF Waking
  <2>4. \A j \in 1 .. Len(woken') : woken'[i].caller = woken'[j].caller => i = j
    BY <1>1, <2>3 DEF WaitersWait
  <2>5. QED
    BY <1>1, <2>3, <2>4 DEF WaitersWait
<1>4. \A i \in 1 .. Len(waiters) :
        waiters[i] # c /\ waiters[i] \in Caller /\ call[waiters[i]] = "waiting"
  BY <1>1 DEF WaitersWait, TypeOK
<1>5. CASE w.answer.kind = "error" /\ UNCHANGED <<current, handler, waiters, inbox, worker, outbox>>
           /\ call' = [call EXCEPT ![c] = "settled"] /\ answer' = [answer EXCEPT ![c] = w.answer]
  <2>1. CurrentIsPosted'
    BY <1>2, <1>5 DEF CurrentIsPosted, TypeOK
  <2>2. ChannelsOfCurrent'
    BY <1>2, <1>5 DEF ChannelsOfCurrent, TypeOK
  <2>3. WaitersWait'
    BY <1>2, <1>3, <1>4, <1>5 DEF WaitersWait, TypeOK
  <2>4. AnswersMatch'
    BY <1>1, <1>2, <1>5 DEF AnswersMatch, TypeOK
  <2>5. QED
    BY <2>1, <2>2, <2>3, <2>4
<1>6. CASE current = NoCaller /\ Post(c) /\ UNCHANGED answer
  <2>1. inbox = <<>> /\ outbox = <<>> /\ outbox' = <<>> /\ current' = c /\ waiters' = waiters
        /\ worker' = worker /\ call' = [call EXCEPT ![c] = "posted"]
    BY <1>6 DEF Post, CurrentIsPosted
  <2>2. inbox' = IF worker = "dead" THEN <<>> ELSE <<c>>
    BY <1>1, <1>6, <2>1, EmptyOrOne DEF Post
  <2>3. CurrentIsPosted'
    BY <1>1, <1>2, <1>6, <2>1, WorkerAssumption DEF CurrentIsPosted, TypeOK
  <2>4. ChannelsOfCurrent'
    BY <1>1, <1>2, <2>1, <2>2, <2>3 DEF ChannelsOfCurrent, CurrentIsPosted, TypeOK
  <2>5. WaitersWait'
    BY <1>2, <1>3, <1>4, <2>1 DEF WaitersWait, TypeOK
  <2>6. AnswersMatch'
    BY <1>1, <1>2, <1>6, <2>1 DEF AnswersMatch, TypeOK
  <2>7. QED
    BY <2>3, <2>4, <2>5, <2>6
<1>7. CASE waiters' = Append(waiters, c) /\ call' = [call EXCEPT ![c] = "waiting"]
           /\ UNCHANGED <<current, handler, inbox, worker, outbox, answer>>
  <2>1. call' = call
    BY <1>1, <1>2, <1>7 DEF TypeOK
  <2>2. CurrentIsPosted' /\ ChannelsOfCurrent' /\ AnswersMatch'
    BY <1>2, <1>7, <2>1 DEF CurrentIsPosted, ChannelsOfCurrent, AnswersMatch
  <2>3. WaitersWait'
    <3>1. /\ Len(waiters') = Len(waiters) + 1 /\ waiters'[Len(waiters) + 1] = c
          /\ \A i \in 1 .. Len(waiters) : waiters'[i] = waiters[i]
      BY <1>1, <1>7 DEF TypeOK
    <3>2. QED
      BY <1>2, <1>3, <1>4, <1>7, <2>1, <3>1 DEF WaitersWait, TypeOK
  <2>4. QED
    BY <2>2, <2>3
<1>8. QED
  BY <1>5, <1>6, <1>7 DEF Resume, PostOrWait

\* The command in progress settles, by its own answer or by the worker's failure.
LEMMA SettleKeepsQueue ==
  ASSUME QueueOK, TypeOK', NEW a \in Outcome, Settle(a), woken = <<>>,
         a.of \in {current, NoCaller},
         a.kind = "result" => a.of = current /\ ran[current],
         current # NoCaller /\ a.of = NoCaller => a.kind = "error" /\ ~ran[current],
         inbox' = <<>>, outbox' = <<>>, ran' = ran
  PROVE  QueueOK'
<1> USE DEF QueueOK
<1>1. /\ \A x \in Caller : call'[x] = IF x = current THEN "settled" ELSE call[x]
      /\ \A x \in Caller : answer'[x] = IF x = current THEN a ELSE answer[x]
      /\ current' = NoCaller /\ waiters' = <<>> /\ Len(woken') = Len(waiters)
      /\ \A i \in 1 .. Len(waiters) : woken'[i] = [caller |-> waiters[i], answer |-> a]
  BY SettleTyped DEF Settle
<1>2. \A i \in 1 .. Len(waiters) : waiters[i] \in Caller /\ waiters[i] # current
  BY DEF WaitersWait, CurrentIsPosted, TypeOK
<1>3. CurrentIsPosted'
  BY <1>1, WorkerAssumption DEF CurrentIsPosted, TypeOK
<1>4. ChannelsOfCurrent'
  BY <1>1, <1>3, WorkerAssumption DEF ChannelsOfCurrent, CurrentIsPosted, TypeOK
<1>5. WaitersWait'
  <2>1. ASSUME NEW i \in 1 .. Len(woken')
        PROVE  woken'[i].caller = waiters[i] /\ woken'[i].answer = a
    <3>1. woken'[i] = [caller |-> waiters[i], answer |-> a]
      BY <1>1
    <3>2. QED
      BY <3>1
  <2>2. \A c \in Caller : call'[c] = "waiting" => ~ran'[c]
    BY <1>1 DEF WaitersWait
  <2>3. \A i \in 1 .. Len(woken') :
          call'[woken'[i].caller] = "waiting" /\ woken'[i].answer.of # woken'[i].caller
    BY <1>1, <1>2, <2>1, WorkerAssumption DEF WaitersWait
  <2>4. \A i, j \in 1 .. Len(woken') : woken'[i].caller = woken'[j].caller => i = j
    BY <1>1, <2>1 DEF WaitersWait
  <2>5. Len(waiters') = 0
    BY <1>1
  <2>6. QED
    BY <2>2, <2>3, <2>4, <2>5 DEF WaitersWait
<1>6. AnswersMatch'
  BY <1>1, WorkerAssumption DEF AnswersMatch, Outcome
<1>7. QED
  BY <1>3, <1>4, <1>5, <1>6

\* The page takes a message of the worker.
LEMMA DeliverKeepsQueue ==
  ASSUME QueueOK, TypeOK', Deliver
  PROVE  QueueOK'
<1> USE DEF QueueOK
<1> DEFINE m == Head(outbox)
<1>1. /\ outbox \in Seq(Message) /\ outbox # <<>> /\ outbox' = Tail(outbox)
      /\ woken = <<>> /\ worker' = worker /\ inbox' = inbox /\ ran' = ran
  BY DEF TypeOK, Deliver
<1>2. /\ m \in Message /\ m = outbox[1] /\ Len(outbox) \in Nat \ {0}
      /\ Len(outbox') = Len(outbox) - 1
      /\ \A i \in 1 .. Len(outbox') : i + 1 \in 1 .. Len(outbox) /\ outbox'[i] = outbox[i + 1]
  BY <1>1, HeadTail
<1>3. m.of = current /\ (m.kind # "progress" => 1 = Len(outbox) /\ inbox = <<>> /\ ran[current])
  BY <1>2 DEF ChannelsOfCurrent
<1>4. CASE m.kind = "progress"
  <2>1. UNCHANGED <<call, answer, current, handler, waiters, woken, restart>>
    BY <1>4 DEF Deliver
  <2>2. CurrentIsPosted' /\ WaitersWait' /\ AnswersMatch'
    BY <1>1, <1>2, <1>3, <2>1 DEF CurrentIsPosted, WaitersWait, AnswersMatch
  <2>3. ChannelsOfCurrent'
    <3>1. ASSUME NEW i \in 1 .. Len(outbox'), outbox'[i].kind # "progress"
          PROVE  i = Len(outbox') /\ inbox = <<>> /\ ran[current]
      <4>1. i + 1 = Len(outbox) /\ inbox = <<>> /\ ran[current]
        BY <1>2, <3>1 DEF ChannelsOfCurrent
      <4>2. QED
        BY <1>2, <4>1
    <3>2. \A i \in 1 .. Len(outbox') : outbox'[i].of = current
      BY <1>2 DEF ChannelsOfCurrent
    <3>3. QED
      BY <1>1, <2>1, <3>1, <3>2 DEF ChannelsOfCurrent
  <2>4. QED
    BY <2>2, <2>3
<1>5. CASE m.kind # "progress"
  <2>1. m \in Outcome /\ Settle(m)
    BY <1>2, <1>5 DEF Deliver, Message, Outcome
  <2>2. outbox' = <<>> /\ inbox' = <<>>
    BY <1>1, <1>2, <1>3, <1>5
  <2>3. PICK a \in Outcome : a = m /\ Settle(a)
    BY <2>1
  <2>4. current # NoCaller
    BY <1>2, <1>3, WorkerAssumption DEF Message
  <2>5. QED
    BY <1>1, <1>3, <1>5, <2>2, <2>3, <2>4, SettleKeepsQueue
<1>6. QED
  BY <1>4, <1>5

\* The worker's script fails to load: whoever has a handler is told.
LEMMA ScriptFailsKeepsQueue ==
  ASSUME QueueOK, TypeOK', ScriptFails
  PROVE  QueueOK'
<1> USE DEF QueueOK
<1>1. /\ worker = "loading" /\ woken = <<>> /\ worker' = "dead"
      /\ inbox' = <<>> /\ outbox' = <<>> /\ ran' = ran
  BY DEF ScriptFails, ChannelsOfCurrent
<1>2. CASE handler # NoCaller
  <2>1. PICK a \in Outcome : a.kind = "error" /\ a.of = NoCaller /\ Settle(a)
    BY <1>2 DEF ScriptFails, Outcome
  <2>2. current # NoCaller => ~ran[current]
    BY <1>1 DEF ChannelsOfCurrent, CurrentIsPosted, TypeOK
  <2>3. QED
    BY <1>1, <2>1, <2>2, SettleKeepsQueue
<1>3. CASE handler = NoCaller
  <2>1. UNCHANGED <<call, answer, current, handler, waiters, woken, restart>>
    BY <1>3 DEF ScriptFails
  <2>2. QED
    BY <1>1, <2>1 DEF CurrentIsPosted, ChannelsOfCurrent, WaitersWait, AnswersMatch
<1>4. QED
  BY <1>2, <1>3

\* The steps of the worker and a restart.
LEMMA WorkerKeepsQueue ==
  ASSUME QueueOK, TypeOK', Load \/ WasmFails \/ Progress \/ Serve \/ Restart \/ UNCHANGED vars
  PROVE  QueueOK'
<1> USE DEF QueueOK
<1>1. CASE Load \/ WasmFails
  <2>1. /\ worker = "loading" /\ worker' \in {"ready", "stuck"}
        /\ UNCHANGED <<call, answer, current, handler, waiters, woken, restart, inbox, outbox, ran>>
    BY <1>1 DEF Load, WasmFails
  <2>2. CurrentIsPosted' /\ WaitersWait' /\ AnswersMatch'
    BY <2>1 DEF CurrentIsPosted, WaitersWait, AnswersMatch
  <2>3. ChannelsOfCurrent'
    BY <2>1 DEF ChannelsOfCurrent
  <2>4. QED
    BY <2>2, <2>3
<1>2. CASE Restart
  <2>1. CASE NewWorker /\ current = NoCaller
    <3>1. /\ worker' = "loading" /\ inbox' = <<>> /\ outbox' = <<>> /\ current' = NoCaller
          /\ UNCHANGED <<call, answer, waiters, woken, ran>>
      BY <2>1 DEF NewWorker
    <3>2. CurrentIsPosted' /\ WaitersWait' /\ AnswersMatch'
      BY <2>1, <3>1 DEF CurrentIsPosted, WaitersWait, AnswersMatch
    <3>3. ChannelsOfCurrent'
      BY <3>1, <3>2, WorkerAssumption DEF ChannelsOfCurrent, CurrentIsPosted
    <3>4. QED
      BY <3>2, <3>3
  <2>2. CASE UNCHANGED <<call, answer, current, handler, waiters, woken, worker, inbox, outbox, ran>>
    BY <2>2 DEF CurrentIsPosted, ChannelsOfCurrent, WaitersWait, AnswersMatch
  <2>3. QED
    BY <1>2, <2>1, <2>2 DEF Restart
<1>3. CASE UNCHANGED vars
  BY <1>3 DEF vars, CurrentIsPosted, ChannelsOfCurrent, WaitersWait, AnswersMatch
<1>4. ASSUME inbox # <<>> PROVE inbox = <<current>> /\ current \in Caller /\ Head(inbox) = current
                                /\ Tail(inbox) = <<>>
                                /\ \A i \in 1 .. Len(outbox) : outbox[i].kind = "progress"
  <2>1. inbox = <<current>> /\ current \in Caller
    BY <1>4 DEF CurrentIsPosted, ChannelsOfCurrent, TypeOK
  <2>2. QED
    BY <1>4, <2>1, EmptyOrOne DEF ChannelsOfCurrent
<1>5. ASSUME NEW m \in Message, outbox' = Append(outbox, m)
      PROVE  /\ Len(outbox') = Len(outbox) + 1 /\ outbox'[Len(outbox) + 1] = m
             /\ \A i \in 1 .. Len(outbox) : outbox'[i] = outbox[i]
             /\ Len(outbox) \in Nat
  BY <1>5 DEF TypeOK
<1>6. CASE Progress
  <2>1. /\ worker = "ready" /\ inbox # <<>>
        /\ UNCHANGED <<call, answer, current, handler, waiters, woken, restart, worker, inbox, ran>>
    BY <1>6 DEF Progress
  <2>2. PICK m \in Message : m.kind = "progress" /\ m.of = current /\ outbox' = Append(outbox, m)
    BY <1>4, <1>6, <2>1 DEF Progress, Message
  <2>3. CurrentIsPosted' /\ WaitersWait' /\ AnswersMatch'
    BY <1>4, <2>1, WorkerAssumption DEF CurrentIsPosted, WaitersWait, AnswersMatch
  <2>4. ChannelsOfCurrent'
    BY <1>4, <1>5, <2>1, <2>2 DEF ChannelsOfCurrent
  <2>5. QED
    BY <2>3, <2>4
<1>7. CASE Serve
  <2>1. /\ worker = "ready" /\ inbox # <<>> /\ inbox' = <<>> /\ ran' = [ran EXCEPT ![current] = TRUE]
        /\ UNCHANGED <<call, answer, current, handler, waiters, woken, restart, worker>>
    BY <1>4, <1>7 DEF Serve
  <2>2. PICK m \in Message : m.kind # "progress" /\ m.of = current /\ outbox' = Append(outbox, m)
    BY <1>4, <1>7, <2>1 DEF Serve, Message
  <2>3. CurrentIsPosted' /\ WaitersWait' /\ AnswersMatch'
    <3>1. call[current] = "posted" /\ current \in Caller /\ current # NoCaller
      BY <1>4, <2>1, WorkerAssumption DEF CurrentIsPosted
    <3>2. QED
      BY <2>1, <3>1 DEF CurrentIsPosted, WaitersWait, AnswersMatch, TypeOK
  <2>4. ChannelsOfCurrent'
    <3>1. \A i \in 1 .. Len(outbox') :
            /\ outbox'[i].of = current'
            /\ outbox'[i].kind # "progress" => i = Len(outbox') /\ inbox' = <<>> /\ ran'[current']
      BY <1>4, <1>5, <2>1, <2>2 DEF ChannelsOfCurrent, TypeOK
    <3>2. QED
      BY <2>1, <3>1 DEF ChannelsOfCurrent
  <2>5. QED
    BY <2>3, <2>4
<1>8. QED
  BY <1>1, <1>2, <1>3, <1>6, <1>7

\* The queue's invariant is inductive: the command in progress, the messages on
\* their way and the callers that wait agree with each other after every step.
THEOREM QueueInvariant == Spec => []QueueOK
<1>1. QueueOK /\ [Next]_vars => QueueOK'
  <2> SUFFICES ASSUME QueueOK, [Next]_vars PROVE QueueOK'
    OBVIOUS
  <2>1. TypeOK'
    BY TypeNext DEF QueueOK
  <2>2. QED
    BY <2>1, CallKeepsQueue, ResumeKeepsQueue, DeliverKeepsQueue, ScriptFailsKeepsQueue,
       WorkerKeepsQueue DEF Next
<1>2. QED
  BY <1>1, QueueInit, PTL DEF Spec

\* The worker has one command at a time, for any number of callers and whatever
\* fails (the loop of workerCommand, lines 53-55).
THEOREM WorkerHasOneCommand == Spec => []OneAtATime
<1>1. QueueOK => OneAtATime
  <2> SUFFICES ASSUME QueueOK PROVE OneAtATime
    OBVIOUS
  <2>1. Len(inbox) <= 1
    <3>1. CASE inbox = <<>>
      BY <3>1
    <3>2. CASE inbox # <<>>
      <4>1. inbox = <<current>>
        BY <3>2 DEF QueueOK, ChannelsOfCurrent
      <4>2. QED
        BY <4>1
    <3>3. QED
      BY <3>1, <3>2
  <2>2. DOMAIN outbox = 1 .. Len(outbox)
    BY DEF QueueOK, TypeOK
  <2>3. \A i \in Answers : i \in 1 .. Len(outbox) /\ i = Len(outbox) /\ inbox = <<>>
    BY <2>2 DEF Answers, QueueOK, ChannelsOfCurrent
  <2>4. QED
    BY <2>1, <2>3 DEF OneAtATime
<1>2. QED
  BY <1>1, QueueInvariant, PTL

\* Nobody gets the answer to another caller's command (lines 76-82), and who fails
\* with another caller's error was not served.
THEOREM NoAnswerGoesAstray == Spec => []AnswersMatch
<1>1. QueueOK => AnswersMatch
  BY DEF QueueOK
<1>2. QED
  BY <1>1, QueueInvariant, PTL

\* A restart never terminates a worker that still has a command or an answer
\* ("nothing is lost", line 35).
THEOREM RestartIsSafe == Spec => RestartLosesNothing
<1>1. QueueOK /\ [Next]_vars
        => [Restart => restart' = "waiting" \/ (inbox = <<>> /\ outbox = <<>>)]_vars
  BY DEF QueueOK, CurrentIsPosted, Restart
<1>2. QED
  BY <1>1, QueueInvariant, PTL DEF Spec, RestartLosesNothing
=============================================================================
