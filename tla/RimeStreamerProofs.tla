------------------------- MODULE RimeStreamerProofs -------------------------
(* Theorems about RimeStreamer and their proofs. *)
EXTENDS RimeStreamer, SequenceTheorems, TLAPS

-----------------------------------------------------------------------------
(* The inductive invariant.                                                *)

\* No task or field holds a token that has not been handed out yet.
TokensKnown ==
  /\ \A i \in 1..Len(ready) : ready[i].token <= current
  /\ \A i \in 1..Len(queue) : queue[i] <= current
  /\ fired # None => fired <= current

\* Only an utterance, not warm_up, is sent and polled for.
OnlyUtterancesSent == sent # 0 /\ (phase = "poll" => Head(queue) # 0)

\* A completion of token 0 comes from a cancel() before the first speak().
EarlyFires ==
  \A i \in 1..Len(ready) :
    /\ ready[i].do = "fire" /\ ready[i].token = 0 => quiet \/ current > 0
    /\ ready[i].do = "synthesize" => ready[i].token # 0

\* After a cancel, chunks are dropped.
QuietDrops == quiet => dropped

\* The once-only mark agrees with the completions that have been called.
DonesCounted ==
  /\ \A t \in Tokens : t > current => dones[t] = 0
  /\ fired # current => dones[current] = 0

IInv ==
  /\ TypeOK
  /\ TokensKnown
  /\ OnlyUtterancesSent
  /\ EarlyFires
  /\ QuietDrops
  /\ DonesCounted
  /\ CompletionPending
  /\ ActiveIsSpeaking

LEMMA InitIInv == Init => IInv
<1> SUFFICES ASSUME Init PROVE IInv
  OBVIOUS
<1> USE BoundsAssumption, NoneAssumption DEF Init
<1>1. /\ Len(ready) = 0 /\ queue = <<0>> /\ Len(queue) = 1 /\ queue[1] = 0
      /\ queue \in Seq(Tokens)
  BY DEF Tokens
<1>2. /\ ready \in Seq(Task) /\ up \in Seq(Up) /\ down \in Seq(Down) /\ played \in Seq(Tokens)
  OBVIOUS
<1>3. TypeOK
  <2>1. 0 \in Tokens /\ dones \in [Tokens -> Nat] /\ {} \in SUBSET Tokens /\ 0 \in 0..MaxCancels
    BY DEF Tokens
  <2> QED
    BY <1>1, <1>2, <2>1 DEF TypeOK
<1> QED
  BY <1>1, <1>3
     DEF IInv, TokensKnown, OnlyUtterancesSent, EarlyFires, QuietDrops, DonesCounted,
         CompletionPending, ActiveIsSpeaking, Tokens

-----------------------------------------------------------------------------
(* What the pieces of the actions do.                                      *)

\* Firing a token: it ends the current utterance or nothing.
LEMMA FireDone ==
  ASSUME TypeOK, NEW t \in Tokens, _fire_done(t)
  PROVE  /\ fired' \in Tokens \cup {None}
         /\ active' \in BOOLEAN
         /\ dones' \in [Tokens -> Nat]
         /\ \/ /\ t = current /\ fired # current
               /\ fired' = current /\ active' = FALSE
               /\ dones' = [dones EXCEPT ![current] = dones[current] + 1]
            \/ /\ t # current \/ fired = current
               /\ UNCHANGED <<fired, active, dones>>
<1>1. CASE mayFire(t)
  <2>1. /\ t = current /\ fired # current
        /\ fired' = current /\ active' = FALSE
        /\ dones' = [dones EXCEPT ![current] = dones[current] + 1]
    BY <1>1 DEF _fire_done, mayFire
  <2>2. dones' \in [Tokens -> Nat]
    BY <2>1 DEF TypeOK
  <2> QED
    BY <2>1, <2>2
<1>2. CASE ~mayFire(t)
  BY <1>2 DEF _fire_done, mayFire, TypeOK
<1> QED
  BY <1>1, <1>2

\* Appending to a sequence and removing its head.
LEMMA AppendOf ==
  ASSUME NEW S, NEW s \in Seq(S), NEW e \in S
  PROVE  /\ Append(s, e) \in Seq(S)
         /\ Len(s) \in Nat
         /\ Append(s, e) # <<>>
         /\ Len(Append(s, e)) = Len(s) + 1
         /\ \A i \in 1..Len(s) : Append(s, e)[i] = s[i]
         /\ Append(s, e)[Len(s) + 1] = e
BY AppendProperties

LEMMA TailOf ==
  ASSUME NEW S, NEW s \in Seq(S), s # <<>>
  PROVE  /\ Head(s) = s[1] /\ Head(s) \in S
         /\ Tail(s) \in Seq(S)
         /\ Len(s) \in Nat /\ Len(s) > 0
         /\ Len(Tail(s)) = Len(s) - 1
         /\ \A i \in 1..Len(Tail(s)) : Tail(s)[i] = s[i + 1]
BY HeadTailProperties, EmptySeq

-----------------------------------------------------------------------------
(* What a step does to the tasks.                                          *)

\* Every task of `ready` was there before the step or was created by it.
LEMMA ReadyGrows ==
  ASSUME TypeOK, [Next]_vars
  PROVE  \A i \in 1..Len(ready') :
           \/ \E j \in 1..Len(ready) : ready'[i] = ready[j]
           \/ /\ ready'[i].do = "synthesize" /\ ready'[i].token = current + 1
              /\ current' = current + 1
           \/ /\ ready'[i].do # "synthesize" /\ ready'[i].token = current
              /\ current' = current /\ quiet'
<1>1. ready \in Seq(Task) /\ current \in Tokens
  BY DEF TypeOK
<1>2. CASE ready' = ready
  BY <1>2
<1>3. CASE StartTask
  <2>1. ready # <<>> /\ ready' = Tail(ready)
    BY <1>3 DEF StartTask, StartClear, StartFire, StartSynthesize
  <2> QED
    BY <1>1, <2>1, TailOf
<1>4. CASE speak
  <2> DEFINE new == [do |-> "synthesize", token |-> current + 1]
  <2>1. new \in Task /\ new.do = "synthesize" /\ new.token = current + 1
    BY <1>4, BoundsAssumption, <1>1 DEF speak, Task, Tokens
  <2>2. ready' = Append(ready, new) /\ current' = current + 1
    BY <1>4 DEF speak, create_task
  <2> HIDE DEF new
  <2>3. \A i \in 1..Len(ready') : (\E j \in 1..Len(ready) : ready'[i] = ready[j]) \/ ready'[i] = new
    BY <1>1, <2>1, <2>2, AppendOf
  <2> QED
    BY <2>1, <2>2, <2>3
<1>5. CASE cancel
  <2> DEFINE clear == [do |-> "clear", token |-> current]
             fire == [do |-> "fire", token |-> current]
             between == Append(ready, clear)
  <2>1. clear \in Task /\ fire \in Task
    BY <1>1 DEF Task
  <2>2. ready' = Append(between, fire) /\ quiet' /\ current' = current
    BY <1>5 DEF cancel, create_task
  <2>3. /\ clear.do # "synthesize" /\ clear.token = current
        /\ fire.do # "synthesize" /\ fire.token = current
    OBVIOUS
  <2> HIDE DEF clear, fire
  <2>4. between \in Seq(Task)
        /\ \A i \in 1..Len(between) : (\E j \in 1..Len(ready) : between[i] = ready[j]) \/ between[i] = clear
    BY <1>1, <2>1, AppendOf
  <2> HIDE DEF between
  <2>5. \A i \in 1..Len(ready') : (\E j \in 1..Len(between) : ready'[i] = between[j]) \/ ready'[i] = fire
    BY <2>1, <2>2, <2>4, AppendOf
  <2> QED
    BY <2>2, <2>3, <2>4, <2>5
<1> QED
  BY <1>2, <1>3, <1>4, <1>5
     DEF Next, vars, tasks, client, HolderStep, StartConnect, ConnectFails, WarmUpConnects,
         ConnectsToSend, ConnectsTooLate, Abandon, Send, SendFails, PollEnds, finish,
         sentOff, ReadChunk, ReadDone, ReaderEnds, CloseBegins, CloseEnds, Rime, RimeChunk,
         RimeDone, RimeClears, RimeCloses

\* Every token at the lock was there before the step or has just started.
LEMMA QueueGrows ==
  ASSUME TypeOK, [Next]_vars
  PROVE  \A i \in 1..Len(queue') :
           \/ \E j \in 1..Len(queue) : queue'[i] = queue[j]
           \/ StartSynthesize /\ queue'[i] = Head(ready).token
<1>1. queue \in Seq(Tokens) /\ ready \in Seq(Task) /\ (phase # "lock" => queue # <<>>)
  BY DEF TypeOK
<1>2. CASE queue' = queue
  BY <1>2
<1>3. CASE StartSynthesize
  <2>1. queue' = Append(queue, Head(ready).token) /\ Head(ready) \in Task
    BY <1>1, <1>3, TailOf DEF StartSynthesize
  <2>2. Head(ready).token \in Tokens
    BY <2>1 DEF Task
  <2> QED
    BY <1>1, <1>3, <2>1, <2>2, AppendOf
<1>4. CASE queue # <<>> /\ queue' = Tail(queue)
  BY <1>1, <1>4, TailOf
<1> QED
  BY <1>1, <1>2, <1>3, <1>4
     DEF Next, vars, tasks, client, HolderStep, StartConnect, ConnectFails, WarmUpConnects,
         ConnectsToSend, ConnectsTooLate, Abandon, Send, SendFails, PollEnds, finish,
         sentOff, ReadChunk, ReadDone, ReaderEnds, CloseBegins, CloseEnds, Rime, RimeChunk,
         RimeDone, RimeClears, RimeCloses, StartTask, StartClear, StartFire, speak, cancel,
         release, atSocket

\* The completion the current utterance is waiting for is not lost by a step that
\* leaves it current and not fired.
LEMMA CompletionKept ==
  ASSUME IInv, [Next]_vars
  PROVE  CompletionPending'
<1> DEFINE atLock(t, q) == \E i \in 1..Len(q) : q[i] = t
           created(t, r) == \E i \in 1..Len(r) : r[i].token = t /\ r[i].do # "clear"
<1> SUFFICES ASSUME current' > 0, fired' # current'
             PROVE  atLock(current', queue') \/ created(current', ready')
  BY DEF CompletionPending
<1>1. /\ ready \in Seq(Task) /\ queue \in Seq(Tokens) /\ current \in Tokens
      /\ (phase # "lock" => queue # <<>>)
  BY DEF IInv, TypeOK
<1>2. CASE speak
  <2> DEFINE new == [do |-> "synthesize", token |-> current + 1]
  <2>1. new \in Task /\ new.token = current' /\ new.do # "clear" /\ ready' = Append(ready, new)
    BY <1>2, BoundsAssumption, <1>1 DEF speak, Task, Tokens, create_task
  <2> HIDE DEF new
  <2>2. ready'[Len(ready) + 1] = new /\ Len(ready) + 1 \in 1..Len(ready')
    BY <1>1, <2>1, AppendOf
  <2> QED
    BY <2>1, <2>2
<1>3. CASE cancel
  <2> DEFINE clear == [do |-> "clear", token |-> current]
             fire == [do |-> "fire", token |-> current]
             between == Append(ready, clear)
  <2>1. clear \in Task /\ fire \in Task /\ fire.token = current /\ fire.do # "clear"
    BY <1>1 DEF Task
  <2>2. ready' = Append(between, fire) /\ current' = current
    BY <1>3 DEF cancel, create_task
  <2> HIDE DEF clear, fire
  <2>3. between \in Seq(Task)
    BY <1>1, <2>1, AppendOf
  <2> HIDE DEF between
  <2>4. ready'[Len(between) + 1] = fire /\ Len(between) + 1 \in 1..Len(ready')
    BY <2>1, <2>2, <2>3, AppendOf
  <2> QED
    BY <2>1, <2>2, <2>4
<1> SUFFICES ASSUME ~speak, ~cancel
             PROVE  atLock(current', queue') \/ created(current', ready')
  BY <1>2, <1>3
<1>4. current' = current /\ (fired' = fired \/ fired' = current)
  BY DEF Next, vars, tasks, client, HolderStep, StartConnect, ConnectFails, WarmUpConnects,
         ConnectsToSend, ConnectsTooLate, Abandon, Send, SendFails, PollEnds, finish,
         sentOff, ReadChunk, ReadDone, ReaderEnds, CloseBegins, CloseEnds, Rime, RimeChunk,
         RimeDone, RimeClears, RimeCloses, StartTask, StartClear, StartFire, StartSynthesize,
         _fire_done, mayFire
<1>5. current > 0 /\ fired # current
  BY <1>4
<1>6. atLock(current, queue) \/ created(current, ready)
  BY <1>5 DEF IInv, CompletionPending
<1>7. CASE UNCHANGED <<ready, queue>>
  BY <1>4, <1>6, <1>7
<1>8. CASE StartTask
  <2>1. /\ ready # <<>> /\ ready' = Tail(ready)
        /\ Head(ready) = ready[1]
        /\ Len(ready') = Len(ready) - 1 /\ Len(ready) \in Nat \ {0}
        /\ \A i \in 1..Len(ready') : ready'[i] = ready[i + 1]
    <3>1. ready # <<>> /\ ready' = Tail(ready)
      BY <1>8 DEF StartTask, StartClear, StartFire, StartSynthesize
    <3> QED
      BY <1>1, <3>1, TailOf
  <2>2. CASE Head(ready).token = current /\ Head(ready).do = "fire"
    BY <1>4, <1>5, <1>8, <2>2 DEF StartTask, StartClear, StartFire, StartSynthesize, _fire_done, mayFire
  <2>3. CASE Head(ready).token = current /\ Head(ready).do = "synthesize"
    <3>1. StartSynthesize
      BY <1>8, <2>3 DEF StartTask, StartClear, StartFire
    <3>2. queue' = Append(queue, current) /\ current \in Tokens
      BY <1>1, <2>3, <3>1 DEF StartSynthesize
    <3>3. queue'[Len(queue) + 1] = current /\ Len(queue) + 1 \in 1..Len(queue')
      BY <1>1, <3>2, AppendOf
    <3> QED
      BY <1>4, <3>3
  <2>4. CASE atLock(current, queue)
    <3>1. PICK i \in 1..Len(queue) : queue[i] = current
      BY <2>4
    <3>2. CASE queue' = queue
      BY <1>4, <3>1, <3>2
    <3>3. CASE StartSynthesize
      <4>1. queue' = Append(queue, Head(ready).token) /\ Head(ready) \in Task
        BY <1>1, <3>3, TailOf DEF StartSynthesize
      <4>2. Head(ready).token \in Tokens
        BY <4>1 DEF Task
      <4>3. queue'[i] = current /\ i \in 1..Len(queue')
        BY <1>1, <3>1, <4>1, <4>2, AppendOf
      <4> QED
        BY <1>4, <4>3
    <3> QED
      BY <1>8, <3>2, <3>3 DEF StartTask, StartClear, StartFire
  <2>5. CASE created(current, ready) /\ ~(Head(ready).token = current /\ Head(ready).do # "clear")
    <3>1. PICK i \in 1..Len(ready) : ready[i].token = current /\ ready[i].do # "clear"
      BY <2>5
    <3>2. i # 1
      BY <2>1, <2>5, <3>1
    <3>3. i - 1 \in 1..Len(ready') /\ ready'[i - 1] = ready[i]
      BY <2>1, <3>2
    <3> QED
      BY <1>4, <3>1, <3>3
  <2>6. Head(ready).do \in {"clear", "fire", "synthesize"}
    <3>1. Head(ready) \in Task
      BY <1>1, <2>1, TailOf
    <3> QED
      BY <3>1 DEF Task
  <2> QED
    BY <1>6, <2>2, <2>3, <2>4, <2>5, <2>6
<1>9. CASE queue # <<>> /\ queue' = Tail(queue) /\ ready' = ready
           /\ (Head(queue) = 0 \/ _fire_done(Head(queue)))
  <2>1. /\ Head(queue) = queue[1]
        /\ Len(queue') = Len(queue) - 1 /\ Len(queue) \in Nat \ {0}
        /\ \A i \in 1..Len(queue') : queue'[i] = queue[i + 1]
    BY <1>1, <1>9, TailOf
  <2>2. Head(queue) # current
    BY <1>4, <1>5, <1>9 DEF _fire_done, mayFire
  <2>3. CASE atLock(current, queue)
    <3>1. PICK i \in 1..Len(queue) : queue[i] = current
      BY <2>3
    <3>2. i - 1 \in 1..Len(queue') /\ queue'[i - 1] = queue[i]
      BY <2>1, <2>2, <3>1
    <3> QED
      BY <1>4, <3>1, <3>2
  <2> QED
    BY <1>4, <1>6, <1>9, <2>3
<1> QED
  BY <1>1, <1>7, <1>8, <1>9
     DEF Next, vars, tasks, client, HolderStep, StartConnect, ConnectFails, WarmUpConnects,
         ConnectsToSend, ConnectsTooLate, Abandon, Send, SendFails, PollEnds, finish,
         sentOff, ReadChunk, ReadDone, ReaderEnds, CloseBegins, CloseEnds, Rime, RimeChunk,
         RimeDone, RimeClears, RimeCloses, release, atSocket

-----------------------------------------------------------------------------
(* Types.                                                                  *)

\* What a client at the wire does to the types of its messages.
LEMMA MessagesTyped ==
  /\ \A t \in Tokens : text(t) \in Up /\ [type |-> "chunk", token |-> t] \in Down
                        /\ [type |-> "done", token |-> t] \in Down
  /\ [op |-> "clear"] \in Up
  /\ [type |-> "close"] \in Down
BY BoundsAssumption DEF text, Up, Down

LEMMA NextTypeOK ==
  ASSUME TypeOK, [Next]_vars
  PROVE  TypeOK'
<1> USE BoundsAssumption
<1>1. /\ current \in Tokens /\ Tokens \subseteq Nat
      /\ ready \in Seq(Task) /\ queue \in Seq(Tokens)
      /\ up \in Seq(Up) /\ down \in Seq(Down) /\ played \in Seq(Tokens)
      /\ phase \in {"lock", "handshake", "poll"} /\ (phase # "lock" => queue # <<>>)
  BY DEF TypeOK, Tokens
<1>2. CASE UNCHANGED vars
  BY <1>2 DEF vars, client, tasks, socket, history, TypeOK, Tokens
<1>3. ASSUME queue # <<>>
      PROVE  Head(queue) \in Tokens /\ Tail(queue) \in Seq(Tokens)
  BY <1>1, <1>3, TailOf
<1>4. ASSUME ready # <<>>
      PROVE  Head(ready) \in Task /\ Head(ready).token \in Tokens /\ Tail(ready) \in Seq(Task)
  <2>1. Head(ready) \in Task /\ Tail(ready) \in Seq(Task)
    BY <1>1, <1>4, TailOf
  <2> QED
    BY <2>1 DEF Task
<1>5. ASSUME down # <<>>
      PROVE  Head(down) \in Down /\ Tail(down) \in Seq(Down)
  BY <1>1, <1>5, TailOf
<1>6. ASSUME up # <<>>
      PROVE  Head(up) \in Up /\ Head(up) = up[1] /\ Tail(up) \in Seq(Up)
  BY <1>1, <1>6, TailOf
<1>7. \A t \in Tokens : Append(queue, t) \in Seq(Tokens) /\ Append(queue, t) # <<>>
  BY <1>1, AppendOf
<1>8. \A r \in Seq(Task), e \in Task : Append(r, e) \in Seq(Task)
  BY AppendOf
<1>9. <<>> \in Seq(Up) /\ <<>> \in Seq(Down)
  OBVIOUS
<1>10. CASE speak
  <2>1. current + 1 \in Tokens /\ [do |-> "synthesize", token |-> current + 1] \in Task
    BY <1>1, <1>10 DEF speak, Tokens, Task
  <2>2. ready' \in Seq(Task)
    BY <1>1, <1>8, <1>10, <2>1 DEF speak, create_task
  <2> QED
    BY <1>10, <2>1, <2>2 DEF speak, TypeOK, Tokens, socket
<1>11. CASE cancel
  <2>1. /\ [do |-> "clear", token |-> current] \in Task
        /\ [do |-> "fire", token |-> current] \in Task
    BY <1>1 DEF Task
  <2>2. ready' \in Seq(Task)
    BY <1>1, <1>8, <1>11, <2>1 DEF cancel, create_task
  <2>3. cancels + 1 \in 0..MaxCancels
    BY <1>11 DEF cancel, TypeOK
  <2> QED
    BY <1>11, <2>2, <2>3 DEF cancel, TypeOK, Tokens, socket
<1>12. CASE StartClear
  <2>1. up' \in Seq(Up)
    BY <1>1, <1>12, MessagesTyped, AppendOf DEF StartClear, send
  <2> QED
    BY <1>4, <1>12, <2>1 DEF StartClear, TypeOK, Tokens, client, history
<1>13. CASE StartFire
  <2>1. fired' \in Tokens \cup {None} /\ active' \in BOOLEAN /\ dones' \in [Tokens -> Nat]
    BY <1>4, <1>13, FireDone DEF StartFire
  <2> QED
    BY <1>4, <1>13, <2>1 DEF StartFire, TypeOK, Tokens, socket, history
<1>14. CASE StartSynthesize
  <2>1. queue' \in Seq(Tokens) /\ queue' # <<>>
    BY <1>4, <1>7, <1>14 DEF StartSynthesize
  <2> QED
    BY <1>4, <1>14, <2>1 DEF StartSynthesize, TypeOK, Tokens, client, socket, history
<1>15. CASE StartConnect
  BY <1>15 DEF StartConnect, TypeOK, Tokens, client, socket, history
<1>16. ASSUME queue # <<>>, finish(Head(queue))
       PROVE  TypeOK'
  <2>1. fired' \in Tokens \cup {None} /\ active' \in BOOLEAN /\ dones' \in [Tokens -> Nat]
    BY <1>3, <1>16, FireDone DEF finish
  <2> QED
    BY <1>3, <1>16, <2>1 DEF finish, release, TypeOK, Tokens, socket, history
<1>17. CASE ConnectFails
  <2>1. CASE Head(queue) = 0
    BY <1>1, <1>3, <1>17, <2>1 DEF ConnectFails, release, TypeOK, Tokens, client, socket, history
  <2> QED
    BY <1>1, <1>16, <1>17, <2>1 DEF ConnectFails
<1>18. CASE WarmUpConnects
  BY <1>1, <1>3, <1>9, <1>18 DEF WarmUpConnects, opened, release, TypeOK, Tokens, client, history
<1>19. CASE ConnectsToSend
  <2>1. Head(queue) \in Tokens /\ up' \in Seq(Up)
    <3>1. text(Head(queue)) \in Up
      BY <1>1, <1>3, <1>19, MessagesTyped DEF ConnectsToSend
    <3> QED
      BY <1>1, <1>3, <1>19, <3>1 DEF ConnectsToSend
  <2> QED
    BY <1>1, <1>9, <1>19, <2>1 DEF ConnectsToSend, opened, sentOff, TypeOK, Tokens, history
<1>20. CASE ConnectsTooLate
  <2>1. fired' \in Tokens \cup {None} /\ active' \in BOOLEAN /\ dones' \in [Tokens -> Nat]
    BY <1>1, <1>3, <1>20, FireDone DEF ConnectsTooLate
  <2> QED
    BY <1>1, <1>3, <1>9, <1>20, <2>1 DEF ConnectsTooLate, opened, release, TypeOK, Tokens, history
<1>21. CASE Abandon
  BY <1>16, <1>21 DEF Abandon, atSocket
<1>22. CASE Send
  <2>1. queue # <<>> /\ Head(queue) \in Tokens
    BY <1>3, <1>22 DEF Send, atSocket
  <2>2. up' \in Seq(Up)
    BY <1>1, <1>22, <2>1, MessagesTyped, AppendOf DEF Send, send
  <2> QED
    BY <1>22, <2>1, <2>2 DEF Send, sentOff, TypeOK, Tokens, history
<1>23. CASE SendFails
  <2>1. fired' \in Tokens \cup {None} /\ active' \in BOOLEAN /\ dones' \in [Tokens -> Nat]
    BY <1>3, <1>23, FireDone DEF SendFails, atSocket
  <2> QED
    BY <1>3, <1>23, <2>1 DEF SendFails, atSocket, release, TypeOK, Tokens, socket, history
<1>24. CASE PollEnds
  BY <1>1, <1>16, <1>24 DEF PollEnds
<1>25. CASE ReadChunk
  <2>1. Head(down).token \in Tokens
    <3>1. Head(down) \in Down /\ Head(down).type = "chunk"
      BY <1>5, <1>25 DEF ReadChunk
    <3> QED
      BY <3>1 DEF Down
  <2>2. played' \in Seq(Tokens)
    BY <1>1, <1>25, <2>1, AppendOf DEF ReadChunk
  <2> QED
    BY <1>5, <1>25, <2>2 DEF ReadChunk, TypeOK, Tokens, client, tasks, history
<1>26. CASE ReadDone
  <2>1. fired' \in Tokens \cup {None} /\ active' \in BOOLEAN /\ dones' \in [Tokens -> Nat]
    <3>1. CASE sent # None
      <4>1. sent \in Tokens
        BY <3>1 DEF TypeOK
      <4> QED
        BY <1>26, <3>1, <4>1, FireDone DEF ReadDone
    <3> QED
      BY <1>26, <3>1 DEF ReadDone, TypeOK
  <2> QED
    BY <1>5, <1>26, <2>1 DEF ReadDone, TypeOK, Tokens, tasks, history
<1>27. CASE ReaderEnds
  <2>1. fired' \in Tokens \cup {None} /\ dones' \in [Tokens -> Nat]
    BY <1>27 DEF ReaderEnds, TypeOK
  <2> QED
    BY <1>9, <1>27, <2>1 DEF ReaderEnds, TypeOK, Tokens, tasks, history
<1>28. CASE CloseBegins
  BY <1>28 DEF CloseBegins, TypeOK, Tokens, client, tasks, history
<1>29. CASE CloseEnds
  BY <1>29 DEF CloseEnds, TypeOK, Tokens, tasks, history
<1>30. CASE RimeChunk
  <2>1. Head(up) \in Up /\ Head(up).op = "text" /\ Head(up).left > 0
    BY <1>6, <1>30 DEF RimeChunk
  <2>2. Head(up).token \in Tokens /\ [Head(up) EXCEPT !.left = @ - 1] \in Up
    BY <2>1 DEF Up
  <2>3. up' \in Seq(Up)
    <3> DEFINE next == [Head(up) EXCEPT !.left = @ - 1]
    <3>1. up' = [up EXCEPT ![1] = next] /\ next \in Up
      BY <1>6, <1>30, <2>2 DEF RimeChunk
    <3>2. 1 \in 1..Len(up)
      BY <1>1, <1>30, TailOf DEF RimeChunk
    <3> HIDE DEF next
    <3>3. [up EXCEPT ![1] = next] \in Seq(Up)
      BY <1>1, <3>1, <3>2, ExceptSeq
    <3> QED
      BY <3>1, <3>3
  <2>4. down' \in Seq(Down)
    BY <1>1, <1>30, <2>2, MessagesTyped, AppendOf DEF RimeChunk
  <2> QED
    BY <1>30, <2>3, <2>4 DEF RimeChunk, TypeOK, Tokens, client, tasks, history
<1>31. CASE RimeDone
  <2>1. Head(up) \in Up /\ Head(up).op = "text"
    BY <1>6, <1>31 DEF RimeDone
  <2>2. Head(up).token \in Tokens
    BY <2>1 DEF Up
  <2>3. down' \in Seq(Down)
    BY <1>1, <1>31, <2>2, MessagesTyped, AppendOf DEF RimeDone
  <2> QED
    BY <1>6, <1>31, <2>3 DEF RimeDone, TypeOK, Tokens, client, tasks, history
<1>32. CASE RimeClears
  <2>1. PICK i \in 1..Len(up) : up' = SubSeq(up, i + 1, Len(up))
    BY <1>32 DEF RimeClears, Clears
  <2>2. up' \in Seq(Up)
    BY <1>1, <2>1, SubSeqProperties
  <2> QED
    BY <1>32, <2>2 DEF RimeClears, TypeOK, Tokens, client, tasks, history
<1>33. CASE RimeCloses
  <2>1. down' \in Seq(Down)
    BY <1>1, <1>33, MessagesTyped, AppendOf DEF RimeCloses
  <2> QED
    BY <1>33, <2>1 DEF RimeCloses, TypeOK, Tokens, client, tasks, history
<1> QED
  BY <1>2, <1>10, <1>11, <1>12, <1>13, <1>14, <1>15, <1>17, <1>18, <1>19, <1>20, <1>21,
     <1>22, <1>23, <1>24, <1>25, <1>26, <1>27, <1>28, <1>29, <1>30, <1>31, <1>32, <1>33
     DEF Next, StartTask, HolderStep, Rime

-----------------------------------------------------------------------------
(* What an ending may change.                                              *)

\* A step other than speak() changes the completions of the current token only, and
\* calls on_done only where the facade allows it.
LEMMA Endings ==
  ASSUME IInv, [Next]_vars, ~speak
  PROVE  /\ current' = current
         /\ \/ UNCHANGED <<fired, dones>> /\ (active' => active)
            \/ /\ fired # current /\ fired' = current /\ ~active'
               /\ dones' = [dones EXCEPT ![current] = dones[current] + 1]
               /\ current > 0 \/ quiet
               /\ UNCHANGED <<played, quiet>>
<1>1. current' = current
  BY DEF Next, vars, tasks, client, HolderStep, StartConnect, ConnectFails, WarmUpConnects,
         ConnectsToSend, ConnectsTooLate, Abandon, Send, SendFails, PollEnds, finish,
         sentOff, ReadChunk, ReadDone, ReaderEnds, CloseBegins, CloseEnds, Rime, RimeChunk,
         RimeDone, RimeClears, RimeCloses, StartTask, StartClear, StartFire, StartSynthesize,
         cancel
<1>2. ASSUME NEW t, _fire_done(t), t # 0 \/ quiet, UNCHANGED <<played, quiet>>
      PROVE  \/ UNCHANGED <<fired, dones>> /\ (active' => active)
             \/ /\ fired # current /\ fired' = current /\ ~active'
                /\ dones' = [dones EXCEPT ![current] = dones[current] + 1]
                /\ current > 0 \/ quiet
                /\ UNCHANGED <<played, quiet>>
  BY <1>2 DEF _fire_done, mayFire, IInv, TypeOK, Tokens
<1>3. CASE StartFire
  <2>1. Head(ready) = ready[1] /\ 1 \in 1..Len(ready) /\ Head(ready).do = "fire"
    BY <1>3, TailOf DEF StartFire, IInv, TypeOK
  <2>2. CASE Head(ready).token = 0 => quiet
    BY <1>1, <1>2, <1>3, <2>2 DEF StartFire, history
  <2>3. CASE Head(ready).token = 0 /\ ~quiet
    <3>1. current > 0
      BY <2>1, <2>3 DEF IInv, EarlyFires
    <3> QED
      BY <1>1, <1>3, <2>3, <3>1 DEF StartFire, _fire_done, mayFire
  <2> QED
    BY <2>2, <2>3
<1>4. CASE ReadDone \/ ReaderEnds
  <2>1. sent # 0
    BY DEF IInv, OnlyUtterancesSent
  <2>2. CASE ReadDone
    BY <1>1, <1>2, <2>1, <2>2 DEF ReadDone, history
  <2>3. CASE ReaderEnds
    BY <1>1, <2>1, <2>3 DEF ReaderEnds, history, mayFire, IInv, TypeOK, Tokens
  <2> QED
    BY <1>4, <2>2, <2>3
<1>5. CASE ConnectFails \/ ConnectsTooLate \/ Abandon \/ SendFails \/ PollEnds
  BY <1>1, <1>2, <1>5
     DEF ConnectFails, ConnectsTooLate, Abandon, SendFails, PollEnds, finish, atSocket, history,
         client, IInv, OnlyUtterancesSent
<1> QED
  BY <1>1, <1>3, <1>4, <1>5
     DEF Next, vars, client, HolderStep, StartConnect, WarmUpConnects, ConnectsToSend, Send,
         sentOff, ReadChunk, CloseBegins, CloseEnds, Rime, RimeChunk, RimeDone, RimeClears,
         RimeCloses, StartTask, StartClear, StartSynthesize, cancel

\* Chunks are forwarded again only for a streamer that is speaking.
LEMMA Reopening ==
  ASSUME IInv, [Next]_vars
  PROVE  /\ dropped' = dropped \/ (cancel /\ dropped') \/ speak \/ active
         /\ quiet' = quiet \/ (cancel /\ quiet') \/ (speak /\ ~quiet')
         /\ cancel => quiet' /\ dropped' /\ ~active'
         /\ played' # played => ReadChunk
BY DEF Next, vars, tasks, client, history, HolderStep, StartConnect, ConnectFails, WarmUpConnects,
       ConnectsToSend, ConnectsTooLate, Abandon, Send, SendFails, PollEnds, finish,
       sentOff, ReadChunk, ReadDone, ReaderEnds, CloseBegins, CloseEnds, Rime, RimeChunk,
       RimeDone, RimeClears, RimeCloses, StartTask, StartClear, StartFire, StartSynthesize,
       cancel, speak, givesUp

-----------------------------------------------------------------------------
(* The invariant is inductive.                                             *)

LEMMA NextIInv ==
  ASSUME IInv, [Next]_vars
  PROVE  IInv'
<1>1. TypeOK' /\ CompletionPending'
  BY NextTypeOK, CompletionKept DEF IInv
<1>2. /\ current \in Nat /\ current' \in Nat /\ current' >= current
      /\ ready \in Seq(Task) /\ queue \in Seq(Tokens) /\ Tokens \subseteq Nat
  <2>1. /\ current \in Nat /\ ready \in Seq(Task) /\ queue \in Seq(Tokens) /\ Tokens \subseteq Nat
    BY DEF IInv, TypeOK, Tokens
  <2>2. current' = current \/ current' = current + 1
    BY Endings DEF speak
  <2> QED
    BY <2>1, <2>2
<1>3. ASSUME ready # <<>>
      PROVE  Head(ready) = ready[1] /\ 1 \in 1..Len(ready)
  BY <1>2, <1>3, TailOf
<1>4. TokensKnown'
  <2>1. \A i \in 1..Len(ready') : ready'[i].token <= current'
    <3>1. \A j \in 1..Len(ready) : ready[j].token \in Nat /\ ready[j].token <= current
      <4>1. \A j \in 1..Len(ready) : ready[j] \in Task
        BY <1>2
      <4>2. \A e \in Task : e.token \in Nat
        BY <1>2 DEF Task
      <4> QED
        BY <4>1, <4>2 DEF IInv, TokensKnown
    <3> QED
      BY <1>2, <3>1, ReadyGrows DEF IInv
  <2>2. \A i \in 1..Len(queue') : queue'[i] <= current'
    <3>1. CASE StartSynthesize
      <4>1. Head(ready).token <= current
        BY <1>3, <3>1 DEF StartSynthesize, IInv, TokensKnown
      <4>2. current' = current
        BY <3>1 DEF StartSynthesize, client
      <4>3. \A j \in 1..Len(queue) : queue[j] <= current
        BY DEF IInv, TokensKnown
      <4> QED
        BY <4>1, <4>2, <4>3, QueueGrows DEF IInv
    <3>2. CASE ~StartSynthesize
      <4>1. \A i \in 1..Len(queue') : \E j \in 1..Len(queue) : queue'[i] = queue[j]
        BY <3>2, QueueGrows DEF IInv
      <4>2. \A j \in 1..Len(queue) : queue[j] <= current
        BY DEF IInv, TokensKnown
      <4>3. \A j \in 1..Len(queue) : queue[j] \in Nat
        <5>1. \A j \in 1..Len(queue) : queue[j] \in Tokens
          BY <1>2
        <5> QED
          BY <1>2, <5>1
      <4> QED
        BY <1>2, <4>1, <4>2, <4>3
    <3> QED
      BY <3>1, <3>2
  <2>3. fired' # None => fired' <= current'
    <3>1. CASE speak
      BY <1>2, <3>1 DEF speak, IInv, TokensKnown, TypeOK, Tokens
    <3> QED
      BY <1>2, <3>1, Endings DEF IInv, TokensKnown
  <2> QED
    BY <2>1, <2>2, <2>3 DEF TokensKnown
<1>5. OnlyUtterancesSent'
  <2>1. queue # <<>> => (phase = "poll" /\ StartSynthesize => Head(queue') = Head(queue))
    <3> SUFFICES ASSUME queue # <<>>, StartSynthesize
                 PROVE  Head(queue') = Head(queue)
      OBVIOUS
    <3>1. Head(ready) \in Task /\ queue' = Append(queue, Head(ready).token)
      BY <1>2, TailOf DEF StartSynthesize
    <3>2. Head(ready).token \in Tokens
      BY <3>1 DEF Task
    <3>3. queue' \in Seq(Tokens) /\ queue' # <<>> /\ queue'[1] = queue[1]
      BY <1>2, <3>1, <3>2, AppendOf, TailOf
    <3> QED
      BY <1>2, <3>3, TailOf
  <2>2. sent' = sent \/ (sent' = Head(queue) /\ Head(queue) # 0)
    BY DEF Next, vars, client, HolderStep, StartConnect, ConnectFails, WarmUpConnects,
           ConnectsToSend, ConnectsTooLate, Abandon, Send, SendFails, PollEnds, finish,
           atSocket, sentOff, ReadChunk, ReadDone, ReaderEnds, CloseBegins, CloseEnds, Rime,
           RimeChunk, RimeDone, RimeClears, RimeCloses, StartTask, StartClear, StartFire,
           StartSynthesize, cancel, speak
  <2>3. phase' = "poll" =>
          \/ phase = "poll" /\ (queue' = queue \/ StartSynthesize)
          \/ queue' = queue /\ Head(queue) # 0
    BY DEF StartSynthesize, Next, vars, tasks, HolderStep, StartConnect, ConnectFails, WarmUpConnects,
           ConnectsToSend, ConnectsTooLate, Abandon, Send, SendFails, PollEnds, finish,
           release, atSocket, sentOff, ReadChunk, ReadDone, ReaderEnds, CloseBegins, CloseEnds,
           Rime, RimeChunk, RimeDone, RimeClears, RimeCloses, StartTask, StartClear, StartFire,
           cancel, speak
  <2>4. phase = "poll" => queue # <<>>
    BY DEF IInv, TypeOK
  <2> QED
    BY <2>1, <2>2, <2>3, <2>4 DEF IInv, OnlyUtterancesSent
<1>6. EarlyFires'
  <2>1. quiet \/ current > 0 => quiet' \/ current' > 0
    <3>1. CASE speak
      BY <1>2, <3>1 DEF speak
    <3>2. CASE ~speak
      <4>1. current' = current
        BY <3>2, Endings
      <4>2. quiet => quiet'
        BY <3>2, Reopening
      <4> QED
        BY <4>1, <4>2
    <3> QED
      BY <3>1, <3>2
  <2>2. \A i \in 1..Len(ready) :
          /\ ready[i].do = "fire" /\ ready[i].token = 0 => quiet' \/ current' > 0
          /\ ready[i].do = "synthesize" => ready[i].token # 0
    BY <2>1 DEF IInv, EarlyFires
  <2>3. current + 1 # 0
    BY <1>2
  <2>4. TypeOK
    BY DEF IInv
  <2>5. ASSUME NEW i \in 1..Len(ready')
        PROVE  /\ ready'[i].do = "fire" /\ ready'[i].token = 0 => quiet' \/ current' > 0
               /\ ready'[i].do = "synthesize" => ready'[i].token # 0
    BY <2>2, <2>3, <2>4, ReadyGrows
  <2> QED
    BY <2>5 DEF EarlyFires
<1>7. QuietDrops' /\ ActiveIsSpeaking'
  <2>1. CASE speak
    <3>1. fired # current + 1
      <4>1. current + 1 # None
        BY <1>2, <2>1, NoneAssumption, BoundsAssumption DEF speak
      <4>2. fired # None => fired <= current
        BY DEF IInv, TokensKnown
      <4> QED
        BY <1>2, <4>1, <4>2
    <3> QED
      BY <1>2, <2>1, <3>1 DEF speak, QuietDrops, ActiveIsSpeaking
  <2>2. CASE ~speak
    BY <2>2, Endings, Reopening DEF QuietDrops, ActiveIsSpeaking, IInv
  <2> QED
    BY <2>1, <2>2
<1>8. DonesCounted'
  <2>1. CASE speak
    BY <1>1, <1>2, <2>1 DEF speak, DonesCounted, IInv, TypeOK, Tokens
  <2>2. CASE ~speak
    <3>1. DonesCounted /\ dones \in [Tokens -> Nat] /\ current \in Tokens
      BY DEF IInv, TypeOK
    <3>2. CASE UNCHANGED <<fired, dones, current>>
      BY <3>1, <3>2 DEF DonesCounted
    <3>3. CASE fired' = current /\ current' = current
               /\ dones' = [dones EXCEPT ![current] = dones[current] + 1]
      <4>1. \A t \in Tokens : t > current => dones'[t] = dones[t]
        BY <1>2, <3>1, <3>3
      <4> QED
        BY <3>1, <3>3, <4>1 DEF DonesCounted
    <3> QED
      BY <2>2, <3>2, <3>3, Endings
  <2> QED
    BY <2>1, <2>2
<1> QED
  BY <1>1, <1>4, <1>5, <1>6, <1>7, <1>8 DEF IInv

LEMMA Invariance == Spec => []IInv
<1>1. Init => IInv
  BY InitIInv
<1>2. IInv /\ [Next]_vars => IInv'
  BY NextIInv
<1> QED
  BY <1>1, <1>2, PTL DEF Spec

-----------------------------------------------------------------------------
(* The order of the texts.  A token passes through five stages: created by *)
(* speak(), waiting for the lock, asked of Rime, arriving, heard.          *)

Created(r) == {r[i].token : i \in {j \in 1..Len(r) : r[j].do = "synthesize"}}
Asked(u) == {u[i].token : i \in {j \in 1..Len(u) : u[j].op = "text"}}
Arriving(d) == {d[i].token : i \in {j \in 1..Len(d) : d[j].type # "close"}}
Elements(q) == {q[i] : i \in 1..Len(q)}

CreatedSorted(r) ==
  \A i, j \in 1..Len(r) :
    i < j /\ r[i].do = "synthesize" /\ r[j].do = "synthesize" => r[i].token <= r[j].token
AskedSorted(u) ==
  \A i, j \in 1..Len(u) : i < j /\ u[i].op = "text" /\ u[j].op = "text" => u[i].token <= u[j].token
ArrivingSorted(d) ==
  \A i, j \in 1..Len(d) :
    i < j /\ d[i].type # "close" /\ d[j].type # "close" => d[i].token <= d[j].token
Sorted(q) == \A i, j \in 1..Len(q) : i < j => q[i] <= q[j]

\* No stage is out of order.
StagesSorted ==
  CreatedSorted(ready) /\ Sorted(queue) /\ AskedSorted(up) /\ ArrivingSorted(down) /\ Sorted(played)

Upto(S, T) == \A s \in S, t \in T : s <= t

\* No token of a stage is ahead of a token of a stage before it, even where the
\* stages between are empty; warm_up is never asked for.
StagesInOrder ==
  /\ Upto(Created(ready), {current})
  /\ Upto(Elements(queue), Created(ready) \cup {current})
  /\ Upto(Asked(up), Elements(queue) \cup Created(ready) \cup {current})
  /\ Upto(Arriving(down), Asked(up) \cup Elements(queue) \cup Created(ready) \cup {current})
  /\ Upto(Elements(played),
          Arriving(down) \cup Asked(up) \cup Elements(queue) \cup Created(ready) \cup {current})
  /\ Upto({1}, Asked(up) \cup Arriving(down) \cup Elements(played))

OrderInv == StagesSorted /\ StagesInOrder

\* A stage from which the first elements are taken has no new tokens and stays sorted.
LEMMA SuffixKeepsOrder ==
  ASSUME NEW s, NEW r, NEW k \in Nat, Len(s) \in Nat, Len(r) = Len(s) - k,
         \A i \in 1..Len(r) : r[i] = s[i + k]
  PROVE  /\ Created(r) \subseteq Created(s) /\ (CreatedSorted(s) => CreatedSorted(r))
         /\ Asked(r) \subseteq Asked(s) /\ (AskedSorted(s) => AskedSorted(r))
         /\ Arriving(r) \subseteq Arriving(s) /\ (ArrivingSorted(s) => ArrivingSorted(r))
         /\ Elements(r) \subseteq Elements(s) /\ (Sorted(s) => Sorted(r))
<1>1. \A i \in 1..Len(r) : i + k \in 1..Len(s)
  OBVIOUS
<1>2. \A i, j \in 1..Len(r) : i < j => i + k < j + k
  OBVIOUS
<1>3. Created(r) \subseteq Created(s) /\ (CreatedSorted(s) => CreatedSorted(r))
  BY <1>1, <1>2 DEF Created, CreatedSorted
<1>4. Asked(r) \subseteq Asked(s) /\ (AskedSorted(s) => AskedSorted(r))
  BY <1>1, <1>2 DEF Asked, AskedSorted
<1>5. Arriving(r) \subseteq Arriving(s) /\ (ArrivingSorted(s) => ArrivingSorted(r))
  BY <1>1, <1>2 DEF Arriving, ArrivingSorted
<1>6. Elements(r) \subseteq Elements(s) /\ (Sorted(s) => Sorted(r))
  BY <1>1, <1>2 DEF Elements, Sorted
<1> QED
  BY <1>3, <1>4, <1>5, <1>6

\* In particular a stage whose head is taken.
LEMMA TailKeepsOrder ==
  ASSUME NEW S, NEW s \in Seq(S), s # <<>>
  PROVE  /\ Created(Tail(s)) \subseteq Created(s) /\ (CreatedSorted(s) => CreatedSorted(Tail(s)))
         /\ Asked(Tail(s)) \subseteq Asked(s) /\ (AskedSorted(s) => AskedSorted(Tail(s)))
         /\ Arriving(Tail(s)) \subseteq Arriving(s) /\ (ArrivingSorted(s) => ArrivingSorted(Tail(s)))
         /\ Elements(Tail(s)) \subseteq Elements(s) /\ (Sorted(s) => Sorted(Tail(s)))
<1> DEFINE r == Tail(s)
<1>1. /\ Len(s) \in Nat /\ Len(r) = Len(s) - 1 /\ 1 \in Nat
      /\ \A i \in 1..Len(r) : r[i] = s[i + 1]
  BY TailOf
<1> HIDE DEF r
<1> QED
  BY <1>1, SuffixKeepsOrder DEF r

\* A stage to which e is appended has at most e's token more, and stays sorted if that
\* is none of its own or not before any of them.
LEMMA AppendKeepsOrder ==
  ASSUME NEW S, NEW s \in Seq(S), NEW e \in S
  PROVE  /\ e.do # "synthesize"
              => Created(Append(s, e)) \subseteq Created(s) /\ (CreatedSorted(s) => CreatedSorted(Append(s, e)))
         /\ Created(Append(s, e)) \subseteq Created(s) \cup {e.token}
         /\ CreatedSorted(s) /\ Upto(Created(s), {e.token}) => CreatedSorted(Append(s, e))
         /\ e.op # "text" => Asked(Append(s, e)) \subseteq Asked(s) /\ (AskedSorted(s) => AskedSorted(Append(s, e)))
         /\ Asked(Append(s, e)) \subseteq Asked(s) \cup {e.token}
         /\ AskedSorted(s) /\ Upto(Asked(s), {e.token}) => AskedSorted(Append(s, e))
         /\ e.type = "close"
              => Arriving(Append(s, e)) \subseteq Arriving(s) /\ (ArrivingSorted(s) => ArrivingSorted(Append(s, e)))
         /\ Arriving(Append(s, e)) \subseteq Arriving(s) \cup {e.token}
         /\ ArrivingSorted(s) /\ Upto(Arriving(s), {e.token}) => ArrivingSorted(Append(s, e))
         /\ Elements(Append(s, e)) \subseteq Elements(s) \cup {e}
         /\ Sorted(s) /\ Upto(Elements(s), {e}) => Sorted(Append(s, e))
<1> DEFINE r == Append(s, e)
<1>1. /\ Len(s) \in Nat /\ Len(r) = Len(s) + 1
      /\ \A i \in 1..Len(s) : r[i] = s[i]
      /\ r[Len(s) + 1] = e
  BY AppendOf
<1> HIDE DEF r
<1>2. \A i \in 1..Len(r) : (i \in 1..Len(s) /\ r[i] = s[i]) \/ (i = Len(s) + 1 /\ r[i] = e)
  <2>1. \A i \in 1..Len(r) : i \in 1..Len(s) \/ i = Len(s) + 1
    BY <1>1
  <2> QED
    BY <1>1, <2>1
<1>3. \A i, j \in 1..Len(r) : i < j => i \in 1..Len(s) /\ r[i] = s[i]
  BY <1>1, <1>2
<1>4. /\ e.do # "synthesize"
           => Created(r) \subseteq Created(s) /\ (CreatedSorted(s) => CreatedSorted(r))
      /\ Created(r) \subseteq Created(s) \cup {e.token}
      /\ CreatedSorted(s) /\ Upto(Created(s), {e.token}) => CreatedSorted(r)
  BY <1>2, <1>3 DEF Created, CreatedSorted, Upto
<1>5. /\ e.op # "text" => Asked(r) \subseteq Asked(s) /\ (AskedSorted(s) => AskedSorted(r))
      /\ Asked(r) \subseteq Asked(s) \cup {e.token}
      /\ AskedSorted(s) /\ Upto(Asked(s), {e.token}) => AskedSorted(r)
  BY <1>2, <1>3 DEF Asked, AskedSorted, Upto
<1>6. /\ e.type = "close"
           => Arriving(r) \subseteq Arriving(s) /\ (ArrivingSorted(s) => ArrivingSorted(r))
      /\ Arriving(r) \subseteq Arriving(s) \cup {e.token}
      /\ ArrivingSorted(s) /\ Upto(Arriving(s), {e.token}) => ArrivingSorted(r)
  BY <1>2, <1>3 DEF Arriving, ArrivingSorted, Upto
<1>7. /\ Elements(r) \subseteq Elements(s) \cup {e}
      /\ Sorted(s) /\ Upto(Elements(s), {e}) => Sorted(r)
  BY <1>2, <1>3 DEF Elements, Sorted, Upto
<1> QED
  BY <1>4, <1>5, <1>6, <1>7 DEF r

\* The head of a sorted stage is one of its tokens and none comes before it.
LEMMA HeadIsFirst ==
  ASSUME NEW S, NEW s \in Seq(S), s # <<>>
  PROVE  /\ Head(s).do = "synthesize" => Head(s).token \in Created(s)
         /\ Head(s).do = "synthesize" /\ CreatedSorted(s) => Upto({Head(s).token}, Created(Tail(s)))
         /\ Head(s).op = "text" => Head(s).token \in Asked(s)
         /\ Head(s).op = "text" /\ AskedSorted(s) => Upto({Head(s).token}, Asked(Tail(s)))
         /\ Head(s).type # "close" => Head(s).token \in Arriving(s)
         /\ Head(s).type # "close" /\ ArrivingSorted(s)
              => Upto({Head(s).token}, Arriving(Tail(s)))
         /\ Head(s) \in Elements(s)
         /\ Sorted(s) => Upto({Head(s)}, Elements(Tail(s)))
<1>1. /\ Head(s) = s[1] /\ Len(s) \in Nat /\ Len(s) > 0
      /\ Len(Tail(s)) = Len(s) - 1
      /\ \A i \in 1..Len(Tail(s)) : Tail(s)[i] = s[i + 1]
  BY TailOf
<1>2. 1 \in 1..Len(s) /\ \A i \in 1..Len(Tail(s)) : i + 1 \in 1..Len(s) /\ 1 < i + 1
  BY <1>1
<1>3. /\ Head(s).do = "synthesize" => Head(s).token \in Created(s)
      /\ Head(s).do = "synthesize" /\ CreatedSorted(s) => Upto({Head(s).token}, Created(Tail(s)))
  BY <1>1, <1>2 DEF Created, CreatedSorted, Upto
<1>4. /\ Head(s).op = "text" => Head(s).token \in Asked(s)
      /\ Head(s).op = "text" /\ AskedSorted(s) => Upto({Head(s).token}, Asked(Tail(s)))
  BY <1>1, <1>2 DEF Asked, AskedSorted, Upto
<1>5. /\ Head(s).type # "close" => Head(s).token \in Arriving(s)
      /\ Head(s).type # "close" /\ ArrivingSorted(s) => Upto({Head(s).token}, Arriving(Tail(s)))
  BY <1>1, <1>2 DEF Arriving, ArrivingSorted, Upto
<1>6. /\ Head(s) \in Elements(s)
      /\ Sorted(s) => Upto({Head(s)}, Elements(Tail(s)))
  BY <1>1, <1>2 DEF Elements, Sorted, Upto
<1> QED
  BY <1>3, <1>4, <1>5, <1>6

LEMMA InitOrderInv == Init => OrderInv
<1> SUFFICES ASSUME Init PROVE OrderInv
  OBVIOUS
<1>1. /\ ready = <<>> /\ up = <<>> /\ down = <<>> /\ played = <<>> /\ queue = <<0>> /\ current = 0
      /\ Len(ready) = 0 /\ Len(up) = 0 /\ Len(down) = 0 /\ Len(played) = 0
      /\ Len(queue) = 1 /\ queue[1] = 0
  BY DEF Init
<1>2. StagesSorted
  BY <1>1 DEF StagesSorted, CreatedSorted, AskedSorted, ArrivingSorted, Sorted
<1>3. /\ Created(ready) = {} /\ Asked(up) = {} /\ Arriving(down) = {} /\ Elements(played) = {}
      /\ Elements(queue) = {0}
  BY <1>1 DEF Created, Asked, Arriving, Elements
<1>4. StagesInOrder
  BY <1>1, <1>3 DEF StagesInOrder, Upto
<1> QED
  BY <1>2, <1>4 DEF OrderInv

\* Every token of a stage has been handed out, and is a number.
LEMMA StagesTyped ==
  ASSUME IInv
  PROVE  /\ current \in Nat
         /\ Created(ready) \subseteq Nat /\ Elements(queue) \subseteq Nat /\ Asked(up) \subseteq Nat
         /\ Arriving(down) \subseteq Nat /\ Elements(played) \subseteq Nat
<1>1. /\ current \in Tokens /\ Tokens \subseteq Nat
      /\ ready \in Seq(Task) /\ queue \in Seq(Tokens)
      /\ up \in Seq(Up) /\ down \in Seq(Down) /\ played \in Seq(Tokens)
  BY DEF IInv, TypeOK, Tokens
<1>2. /\ \A i \in 1..Len(ready) : ready[i] \in Task
      /\ \A i \in 1..Len(queue) : queue[i] \in Tokens
      /\ \A i \in 1..Len(up) : up[i] \in Up
      /\ \A i \in 1..Len(down) : down[i] \in Down
      /\ \A i \in 1..Len(played) : played[i] \in Tokens
  BY <1>1
<1>3. /\ \A e \in Task : e.token \in Tokens
      /\ \A e \in Up : e.op = "text" => e.token \in Tokens
      /\ \A e \in Down : e.type # "close" => e.token \in Tokens
  BY DEF Task, Up, Down
<1> QED
  BY <1>1, <1>2, <1>3 DEF Created, Elements, Asked, Arriving

\* A step that moves no text from one stage to the next only takes texts away.
LEMMA OtherStepsShrink ==
  ASSUME IInv, StagesSorted, [Next]_vars,
         ~speak, ~StartSynthesize, ~ConnectsToSend, ~Send, ~RimeChunk, ~RimeDone, ~ReadChunk
  PROVE  /\ current' = current
         /\ Created(ready') \subseteq Created(ready) /\ CreatedSorted(ready')
         /\ Elements(queue') \subseteq Elements(queue) /\ Sorted(queue')
         /\ Asked(up') \subseteq Asked(up) /\ AskedSorted(up')
         /\ Arriving(down') \subseteq Arriving(down) /\ ArrivingSorted(down')
         /\ Elements(played') \subseteq Elements(played) /\ Sorted(played')
<1>1. /\ ready \in Seq(Task) /\ queue \in Seq(Tokens) /\ current \in Tokens
      /\ up \in Seq(Up) /\ down \in Seq(Down)
      /\ (phase # "lock" => queue # <<>>)
  BY DEF IInv, TypeOK
<1>2. /\ CreatedSorted(ready) /\ Sorted(queue) /\ AskedSorted(up) /\ ArrivingSorted(down)
      /\ Sorted(played)
  BY DEF StagesSorted
<1>3. current' = current
  BY Endings
<1>4. Created(ready') \subseteq Created(ready) /\ CreatedSorted(ready')
  <2>1. CASE ready # <<>> /\ ready' = Tail(ready)
    BY <1>1, <1>2, <2>1, TailKeepsOrder
  <2>2. CASE cancel
    <3> DEFINE clear == [do |-> "clear", token |-> current]
               fire == [do |-> "fire", token |-> current]
               between == Append(ready, clear)
    <3>1. clear \in Task /\ fire \in Task /\ clear.do # "synthesize" /\ fire.do # "synthesize"
      BY <1>1 DEF Task
    <3>2. ready' = Append(between, fire)
      BY <2>2 DEF cancel, create_task
    <3> HIDE DEF clear, fire
    <3>3. between \in Seq(Task) /\ Created(between) \subseteq Created(ready) /\ CreatedSorted(between)
      BY <1>1, <1>2, <3>1, AppendOf, AppendKeepsOrder
    <3> HIDE DEF between
    <3> QED
      BY <3>1, <3>2, <3>3, AppendKeepsOrder
  <2>3. CASE ready' = ready
    BY <1>2, <2>3
  <2> QED
    BY <2>1, <2>2, <2>3
       DEF Next, vars, tasks, client, StartTask, StartClear, StartFire,
           HolderStep, StartConnect, ConnectFails, WarmUpConnects, ConnectsTooLate, Abandon,
           SendFails, PollEnds, finish, ReadDone, ReaderEnds,
           CloseBegins, CloseEnds, Rime, RimeClears, RimeCloses
<1>5. Elements(queue') \subseteq Elements(queue) /\ Sorted(queue')
  <2>1. CASE queue # <<>> /\ queue' = Tail(queue)
    BY <1>1, <1>2, <2>1, TailKeepsOrder
  <2>2. CASE queue' = queue
    BY <1>2, <2>2
  <2> QED
    BY <1>1, <2>1, <2>2
       DEF Next, vars, tasks, client, StartTask, StartClear, StartFire,
           HolderStep, StartConnect, ConnectFails, WarmUpConnects, ConnectsTooLate, Abandon,
           SendFails, PollEnds, finish, release, atSocket, ReadDone, ReaderEnds,
           CloseBegins, CloseEnds, Rime, RimeClears, RimeCloses, cancel
<1>6. Asked(up') \subseteq Asked(up) /\ AskedSorted(up')
  <2>1. CASE up' = <<>>
    <3>1. Len(up') = 0
      BY <2>1
    <3> QED
      BY <3>1 DEF Asked, AskedSorted
  <2>2. CASE up' = Append(up, [op |-> "clear"])
    <3> DEFINE clear == [op |-> "clear"]
    <3>1. clear \in Up /\ clear.op # "text" /\ up' = Append(up, clear)
      BY <2>2, MessagesTyped
    <3> HIDE DEF clear
    <3> QED
      BY <1>1, <1>2, <3>1, AppendKeepsOrder
  <2>3. CASE RimeClears
    <3>1. PICK k \in 1..Len(up) : up' = SubSeq(up, k + 1, Len(up))
      BY <2>3 DEF RimeClears, Clears
    <3>2. /\ Len(up) \in Nat /\ Len(up') = Len(up) - k
          /\ \A i \in 1..Len(up') : up'[i] = up[i + k]
      BY <1>1, <3>1, SubSeqProperties
    <3> QED
      BY <1>2, <3>2, SuffixKeepsOrder
  <2>4. CASE up' = up
    BY <1>2, <2>4
  <2> QED
    BY <2>1, <2>2, <2>3, <2>4
       DEF Next, vars, client, socket, StartTask, StartClear, StartFire, send,
           HolderStep, StartConnect, ConnectFails, WarmUpConnects, ConnectsTooLate, Abandon,
           SendFails, PollEnds, finish, ReadDone, ReaderEnds,
           CloseBegins, CloseEnds, Rime, RimeCloses, cancel
<1>7. Arriving(down') \subseteq Arriving(down) /\ ArrivingSorted(down')
  <2>1. CASE down' = <<>>
    <3>1. Len(down') = 0
      BY <2>1
    <3> QED
      BY <3>1 DEF Arriving, ArrivingSorted
  <2>2. CASE RimeCloses
    <3> DEFINE close == [type |-> "close"]
    <3>1. close \in Down /\ close.type = "close" /\ down' = Append(down, close)
      BY <2>2, MessagesTyped DEF RimeCloses
    <3> HIDE DEF close
    <3> QED
      BY <1>1, <1>2, <3>1, AppendKeepsOrder
  <2>3. CASE down # <<>> /\ down' = Tail(down)
    BY <1>1, <1>2, <2>3, TailKeepsOrder
  <2>4. CASE down' = down
    BY <1>2, <2>4
  <2> QED
    BY <2>1, <2>2, <2>3, <2>4
       DEF Next, vars, client, socket, StartTask, StartClear, StartFire, opened,
           HolderStep, StartConnect, ConnectFails, WarmUpConnects, ConnectsTooLate, Abandon,
           SendFails, PollEnds, finish, ReadDone, ReaderEnds,
           CloseBegins, CloseEnds, Rime, RimeClears, cancel
<1>8. Elements(played') \subseteq Elements(played) /\ Sorted(played')
  <2>1. played' = played
    BY Reopening
  <2> QED
    BY <1>2, <2>1
<1> QED
  BY <1>3, <1>4, <1>5, <1>6, <1>7, <1>8

\* One case for each way in which a text moves from one stage to the next.
LEMMA NextOrderInv ==
  ASSUME IInv, OrderInv, [Next]_vars
  PROVE  OrderInv'
<1>1. /\ ready \in Seq(Task) /\ queue \in Seq(Tokens) /\ current \in Tokens
      /\ up \in Seq(Up) /\ down \in Seq(Down) /\ played \in Seq(Tokens)
  BY DEF IInv, TypeOK
<1>2. /\ CreatedSorted(ready) /\ Sorted(queue) /\ AskedSorted(up) /\ ArrivingSorted(down)
      /\ Sorted(played)
  BY DEF OrderInv, StagesSorted
<1>3. /\ current \in Nat
      /\ Created(ready) \subseteq Nat /\ Elements(queue) \subseteq Nat /\ Asked(up) \subseteq Nat
      /\ Arriving(down) \subseteq Nat /\ Elements(played) \subseteq Nat
  BY StagesTyped
<1>4. CASE speak
  <2> DEFINE new == [do |-> "synthesize", token |-> current + 1]
  <2>1. new \in Task /\ new.token = current + 1
    BY <1>1, <1>4, BoundsAssumption DEF speak, Task, Tokens
  <2>2. /\ ready' = Append(ready, new) /\ current' = current + 1
        /\ UNCHANGED <<queue, up, down, played>>
    BY <1>4 DEF speak, create_task, socket
  <2> HIDE DEF new
  <2>3. Upto(Created(ready), {current + 1})
    BY <1>3 DEF OrderInv, StagesInOrder, Upto
  <2>4. Created(ready') \subseteq Created(ready) \cup {current + 1} /\ CreatedSorted(ready')
    BY <1>1, <1>2, <2>1, <2>2, <2>3, AppendKeepsOrder
  <2>5. Upto(Created(ready) \cup Elements(queue) \cup Asked(up) \cup Arriving(down) \cup Elements(played),
             {current + 1})
    <3>1. \A n \in Nat : n <= current => n <= current + 1
      BY <1>3
    <3> QED
      BY <1>3, <3>1 DEF OrderInv, StagesInOrder, Upto
  <2>6. Upto(Created(ready'), {current + 1})
    BY <1>3, <2>4, <2>5 DEF Upto
  <2>7. StagesInOrder'
    BY <2>2, <2>4, <2>5, <2>6 DEF OrderInv, StagesInOrder, Upto
  <2> QED
    BY <1>2, <2>2, <2>4, <2>7 DEF OrderInv, StagesSorted
<1>5. CASE StartSynthesize
  <2> DEFINE t == Head(ready).token
  <2>1. /\ ready # <<>> /\ ready' = Tail(ready) /\ queue' = Append(queue, t)
        /\ UNCHANGED <<current, up, down, played>>
    BY <1>5 DEF StartSynthesize, client, socket
  <2>2. t \in Created(ready) /\ Upto({t}, Created(ready'))
    BY <1>1, <1>2, <1>5, <2>1, HeadIsFirst DEF StartSynthesize
  <2>3. t \in Tokens
    <3>1. Head(ready) \in Task
      BY <1>1, <2>1, TailOf
    <3> QED
      BY <3>1 DEF Task
  <2> HIDE DEF t
  <2>4. Created(ready') \subseteq Created(ready) /\ CreatedSorted(ready')
    BY <1>1, <1>2, <2>1, TailKeepsOrder
  <2>5. Upto(Elements(queue), {t})
    BY <2>2 DEF OrderInv, StagesInOrder, Upto
  <2>6. Elements(queue') \subseteq Elements(queue) \cup {t} /\ Sorted(queue')
    BY <1>1, <1>2, <2>1, <2>3, <2>5, AppendKeepsOrder
  <2>7. StagesInOrder'
    BY <2>1, <2>2, <2>4, <2>6 DEF OrderInv, StagesInOrder, Upto
  <2> QED
    BY <1>2, <2>1, <2>4, <2>6, <2>7 DEF OrderInv, StagesSorted
<1>6. CASE ConnectsToSend \/ Send
  <2> DEFINE t == Head(queue)
             new == text(t)
  <2>1. /\ queue # <<>> /\ t # 0
        /\ UNCHANGED <<current, ready, queue, played>>
        /\ \/ down' = <<>> /\ up' = <<new>>
           \/ down' = down /\ up' = Append(up, new)
    BY <1>6 DEF ConnectsToSend, Send, atSocket, givesUp, sentOff, send, opened, IInv, TypeOK
  <2>2. t \in Elements(queue) /\ t \in Tokens /\ Upto({t}, Elements(queue))
    <3>1. t \in Elements(queue) /\ t \in Tokens /\ Upto({t}, Elements(Tail(queue)))
      BY <1>1, <1>2, <2>1, HeadIsFirst, TailOf
    <3>2. t = queue[1] /\ Len(queue) \in Nat /\ Len(queue) > 0
      BY <1>1, <2>1, TailOf
    <3> HIDE DEF t
    <3>3. Upto({t}, Elements(queue))
      BY <1>2, <1>3, <3>1, <3>2 DEF Elements, Sorted, Upto
    <3> QED
      BY <3>1, <3>3
  <2>3. new \in Up /\ new.token = t
    BY <2>2, MessagesTyped DEF text
  <2> HIDE DEF t, new
  <2>4. Upto(Asked(up), {t})
    BY <2>2 DEF OrderInv, StagesInOrder, Upto
  <2>5. Asked(up') \subseteq Asked(up) \cup {t} /\ AskedSorted(up')
    <3>1. CASE up' = <<new>>
      <4>1. Len(up') = 1 /\ up'[1] = new
        BY <3>1
      <4> QED
        BY <1>3, <2>2, <2>3, <4>1 DEF Asked, AskedSorted
    <3>2. CASE up' = Append(up, new)
      BY <1>1, <1>2, <2>3, <2>4, <3>2, AppendKeepsOrder
    <3> QED
      BY <2>1, <3>1, <3>2
  <2>6. Arriving(down') \subseteq Arriving(down) /\ ArrivingSorted(down')
    <3>1. CASE down' = <<>>
      <4>1. Len(down') = 0
        BY <3>1
      <4> QED
        BY <4>1 DEF Arriving, ArrivingSorted
    <3> QED
      BY <1>2, <2>1, <3>1
  <2>7. 1 <= t
    BY <1>3, <2>1, <2>2
  <2>8. StagesInOrder'
    <3>1. Upto(Asked(up'), Elements(queue) \cup Created(ready) \cup {current})
      BY <2>2, <2>5 DEF OrderInv, StagesInOrder, Upto
    <3>2. Upto(Arriving(down'), Asked(up'))
      BY <2>2, <2>5, <2>6 DEF OrderInv, StagesInOrder, Upto
    <3>3. Upto(Elements(played), Asked(up'))
      BY <2>2, <2>5 DEF OrderInv, StagesInOrder, Upto
    <3>4. Upto({1}, Asked(up'))
      BY <2>5, <2>7 DEF OrderInv, StagesInOrder, Upto
    <3> QED
      BY <2>1, <2>6, <3>1, <3>2, <3>3, <3>4 DEF OrderInv, StagesInOrder, Upto
  <2> QED
    BY <1>2, <2>1, <2>5, <2>6, <2>8 DEF OrderInv, StagesSorted
<1>7. CASE RimeChunk \/ RimeDone
  <2> DEFINE t == Head(up).token
  <2>1. /\ up # <<>> /\ Head(up).op = "text"
        /\ UNCHANGED <<current, ready, queue, played>>
    BY <1>7 DEF RimeChunk, RimeDone, client, tasks
  <2>2. t \in Asked(up) /\ t \in Tokens /\ Upto({t}, Asked(Tail(up)))
    <3>1. Head(up) \in Up
      BY <1>1, <2>1, TailOf
    <3>2. t \in Tokens
      BY <2>1, <3>1 DEF Up
    <3> QED
      BY <1>1, <1>2, <2>1, <3>2, HeadIsFirst
  <2>3. Asked(up') \subseteq Asked(up) /\ AskedSorted(up') /\ Upto({t}, Asked(up'))
    <3>1. CASE RimeDone
      <4>1. up' = Tail(up)
        BY <3>1 DEF RimeDone
      <4> QED
        BY <1>1, <1>2, <2>1, <2>2, <4>1, TailKeepsOrder
    <3>2. CASE RimeChunk
      <4>1. Head(up) = up[1] /\ Len(up) \in Nat /\ Len(up) > 0
        BY <1>1, <2>1, TailOf
      <4>2. /\ Len(up') = Len(up)
            /\ \A i \in 1..Len(up) : up'[i].op = up[i].op /\ up'[i].token = up[i].token
        BY <1>1, <2>1, <3>2, <4>1 DEF RimeChunk
      <4>3. Asked(up') = Asked(up) /\ AskedSorted(up')
        BY <1>2, <4>2 DEF Asked, AskedSorted
      <4>4. Upto({t}, Asked(up))
        <5>1. ASSUME NEW x \in Asked(up)
              PROVE  t <= x
          <6>1. PICK i \in 1..Len(up) : up[i].op = "text" /\ x = up[i].token
            BY DEF Asked
          <6>2. CASE i = 1
            BY <1>3, <2>2, <4>1, <6>1, <6>2
          <6>3. CASE i > 1
            BY <1>2, <2>1, <4>1, <6>1, <6>3 DEF AskedSorted
          <6> QED
            BY <4>1, <6>2, <6>3
        <5> QED
          BY <5>1 DEF Upto
      <4> QED
        BY <4>3, <4>4
    <3> QED
      BY <1>7, <3>1, <3>2
  <2>4. PICK new \in Down : new.token = t /\ down' = Append(down, new)
    <3>1. CASE RimeChunk
      BY <2>2, <3>1, MessagesTyped DEF RimeChunk
    <3>2. CASE RimeDone
      BY <2>2, <3>2, MessagesTyped DEF RimeDone
    <3> QED
      BY <1>7, <3>1, <3>2
  <2> HIDE DEF t
  <2>5. Upto(Arriving(down), {t})
    BY <2>2 DEF OrderInv, StagesInOrder, Upto
  <2>6. Arriving(down') \subseteq Arriving(down) \cup {t} /\ ArrivingSorted(down')
    BY <1>1, <1>2, <2>4, <2>5, AppendKeepsOrder
  <2>7. StagesInOrder'
    BY <2>1, <2>2, <2>3, <2>6 DEF OrderInv, StagesInOrder, Upto
  <2> QED
    BY <1>2, <2>1, <2>3, <2>6, <2>7 DEF OrderInv, StagesSorted
<1>8. CASE ReadChunk
  <2> DEFINE t == Head(down).token
  <2>1. /\ down # <<>> /\ Head(down).type = "chunk" /\ down' = Tail(down)
        /\ played' = played \/ played' = Append(played, t)
        /\ UNCHANGED <<current, ready, queue, up>>
    BY <1>8 DEF ReadChunk, client, tasks
  <2>2. t \in Arriving(down) /\ t \in Tokens /\ Upto({t}, Arriving(down'))
    <3>1. Head(down) \in Down
      BY <1>1, <2>1, TailOf
    <3>2. t \in Tokens
      BY <2>1, <3>1 DEF Down
    <3> QED
      BY <1>1, <1>2, <2>1, <3>2, HeadIsFirst
  <2> HIDE DEF t
  <2>3. Arriving(down') \subseteq Arriving(down) /\ ArrivingSorted(down')
    BY <1>1, <1>2, <2>1, TailKeepsOrder
  <2>4. Upto(Elements(played), {t})
    BY <2>2 DEF OrderInv, StagesInOrder, Upto
  <2>5. Elements(played') \subseteq Elements(played) \cup {t} /\ Sorted(played')
    <3>1. CASE played' = played
      BY <1>2, <3>1
    <3>2. CASE played' = Append(played, t)
      BY <1>1, <1>2, <2>2, <2>4, <3>2, AppendKeepsOrder
    <3> QED
      BY <2>1, <3>1, <3>2
  <2>6. StagesInOrder'
    BY <2>1, <2>2, <2>3, <2>5 DEF OrderInv, StagesInOrder, Upto
  <2> QED
    BY <1>2, <2>1, <2>3, <2>5, <2>6 DEF OrderInv, StagesSorted
<1>9. CASE /\ ~speak /\ ~StartSynthesize /\ ~ConnectsToSend /\ ~Send
           /\ ~RimeChunk /\ ~RimeDone /\ ~ReadChunk
  <2>1. /\ current' = current
        /\ Created(ready') \subseteq Created(ready) /\ CreatedSorted(ready')
        /\ Elements(queue') \subseteq Elements(queue) /\ Sorted(queue')
        /\ Asked(up') \subseteq Asked(up) /\ AskedSorted(up')
        /\ Arriving(down') \subseteq Arriving(down) /\ ArrivingSorted(down')
        /\ Elements(played') \subseteq Elements(played) /\ Sorted(played')
    BY <1>9, OtherStepsShrink DEF OrderInv
  <2>2. StagesInOrder'
    BY <2>1 DEF OrderInv, StagesInOrder, Upto
  <2> QED
    BY <2>1, <2>2 DEF OrderInv, StagesSorted
<1> QED
  BY <1>4, <1>5, <1>6, <1>7, <1>8, <1>9

LEMMA OrderInvariance == Spec => []OrderInv
<1>1. Init => OrderInv
  BY InitOrderInv
<1>2. IInv /\ OrderInv /\ [Next]_vars => OrderInv'
  BY NextOrderInv
<1> QED
  BY <1>1, <1>2, Invariance, PTL DEF Spec

-----------------------------------------------------------------------------
(* The theorems.                                                           *)

\* The streamer's state keeps its shape, in every interleaving of its tasks, its
\* reader and Rime.
THEOREM TypeCorrect == Spec => []TypeOK
BY Invariance, PTL DEF IInv

\* However the facade's calls, the tasks, failed handshakes and dying sockets
\* interleave, some task still holds the token of an utterance that is not over.
THEOREM CompletionIsPending == Spec => []CompletionPending
BY Invariance, PTL DEF IInv

\* The `active` flag, which decides whether a text is sent and when a watchdog
\* stops, is never left on after the utterance has ended or been cancelled.
THEOREM ActiveMeansSpeaking == Spec => []ActiveIsSpeaking
BY Invariance, PTL DEF IInv

\* "serialize: previous utterance fully ends first": the lock hands the texts on in
\* order, and nothing a failed handshake, a clear or a dead socket takes away comes
\* back behind a later one.
THEOREM TextsAreHeardInOrder == Spec => []HeardInOrder
<1>1. OrderInv => HeardInOrder
  BY DEF OrderInv, StagesSorted, Sorted, HeardInOrder
<1> QED
  BY <1>1, OrderInvariance, PTL

\* A step of the streamer is a step of the facade or leaves it unchanged.
LEMMA NextImplements ==
  ASSUME IInv, OrderInv, [Next]_vars
  PROVE  [Facade!SpeechNext]_Facade!speechVars
<1>1. CASE speak
  <2>1. Facade!Speak
    BY <1>1 DEF speak, Facade!Speak
  <2> QED
    BY <2>1 DEF Facade!SpeechNext
<1>2. CASE cancel
  <2>1. Facade!Cancel
    BY <1>2 DEF cancel, Facade!Cancel
  <2> QED
    BY <2>1 DEF Facade!SpeechNext
<1>3. CASE ~speak /\ ~cancel
  <2>1. current' = current /\ quiet' = quiet
    BY <1>3, Endings, Reopening
  <2>2. CASE fired # current /\ dones' = [dones EXCEPT ![current] = dones[current] + 1]
             /\ (current > 0 \/ quiet) /\ played' = played
    <3>1. dones[current] = 0
      BY <2>2 DEF IInv, DonesCounted
    <3>2. Facade!Done
      BY <2>1, <2>2, <3>1 DEF Facade!Done
    <3> QED
      BY <3>2 DEF Facade!SpeechNext
  <2>3. CASE dones' = dones /\ played' = played
    BY <2>1, <2>3 DEF Facade!speechVars
  <2>4. CASE dones' = dones /\ played' # played
    <3>1. ReadChunk
      BY <2>4, Reopening
    <3>2. ~dropped /\ played' = Append(played, Head(down).token)
      BY <2>4, <3>1 DEF ReadChunk
    <3>3. ~quiet
      BY <3>2 DEF IInv, QuietDrops
    <3>4. Head(down).token \in Arriving(down)
      BY <3>1, HeadIsFirst DEF ReadChunk, IInv, TypeOK
    <3>5. Head(down).token \in 1..current
      <4>1. Head(down).token \in Nat
        BY <3>4, StagesTyped
      <4> QED
        BY <3>4, <4>1, StagesTyped DEF OrderInv, StagesInOrder, Upto
    <3>6. played # <<>> => played[Len(played)] <= Head(down).token
      <4>1. played # <<>> => played[Len(played)] \in Elements(played)
        BY EmptySeq DEF Elements, IInv, TypeOK
      <4> QED
        BY <3>4, <4>1 DEF OrderInv, StagesInOrder, Upto
    <3>7. Facade!Hear
      BY <2>1, <2>4, <3>2, <3>3, <3>5, <3>6 DEF Facade!Hear
    <3> QED
      BY <3>7 DEF Facade!SpeechNext
  <2> QED
    BY <1>3, <2>2, <2>3, <2>4, Endings
<1> QED
  BY <1>1, <1>2, <1>3

\* For the rest of the call the streamer is the facade: no utterance ends twice, none
\* but the latest ends, after cancel() nothing is heard until the next speak(), and no
\* text is heard after a later one.
THEOREM StreamerImplementsSpeech == Spec => ImplementsSpeech
<1>1. Init => Facade!SpeechInit
  BY DEF Init, Facade!SpeechInit, Tokens
<1>2. IInv /\ OrderInv /\ [Next]_vars => [Facade!SpeechNext]_Facade!speechVars
  BY NextImplements
<1> QED
  BY <1>1, <1>2, Invariance, OrderInvariance, PTL DEF Spec, ImplementsSpeech, Facade!SpeechSafe

-----------------------------------------------------------------------------
(* The socket.                                                             *)

\* A handshake is begun only without a socket, and a reader has one.
SocketPhases == (phase = "handshake" => ws = "none") /\ (reading => ws # "none")

LEMMA NextSocketPhases == SocketPhases /\ [Next]_vars => SocketPhases'
<1> SUFFICES ASSUME SocketPhases, [Next]_vars PROVE SocketPhases'
  OBVIOUS
<1> USE DEF SocketPhases
<1>1. CASE StartConnect
  BY <1>1 DEF StartConnect, needsSocket, socket
<1>2. CASE WarmUpConnects \/ ConnectsToSend \/ ConnectsTooLate
  BY <1>2 DEF WarmUpConnects, ConnectsToSend, ConnectsTooLate, opened, release, sentOff
<1>3. CASE CloseBegins \/ CloseEnds
  BY <1>3 DEF CloseBegins, CloseEnds, tasks
<1>4. CASE ReaderEnds
  BY <1>4 DEF ReaderEnds, tasks
<1>5. CASE ConnectFails \/ Abandon \/ Send \/ SendFails \/ PollEnds
  BY <1>5 DEF ConnectFails, Abandon, Send, SendFails, PollEnds, finish, release, sentOff, socket
<1>6. CASE \/ speak \/ cancel \/ StartTask \/ ReadChunk \/ ReadDone \/ Rime \/ UNCHANGED vars
  <2>1. UNCHANGED <<phase, ws, reading>>
    BY <1>6 DEF speak, cancel, StartTask, StartClear, StartFire, StartSynthesize, ReadChunk,
                ReadDone, Rime, RimeChunk, RimeDone, RimeClears, RimeCloses, vars, socket, tasks
  <2> QED
    BY <2>1
<1> QED
  BY <1>1, <1>2, <1>3, <1>4, <1>5, <1>6 DEF Next, HolderStep

\* The reader has come to its end, with the socket that Rime closed or close() did.
Lost == ws = "closed" /\ ~reading

\* _synthesize opens a socket if `self._ws is None`, and one that has closed is not None:
\* once its socket is lost the streamer neither sends a text nor forwards a chunk again,
\* and keeps that socket until close() has let go of it.  Utterances go on ending
\* (CompletionPending), unheard.
LostStaysLost ==
  [][Lost => /\ UNCHANGED <<sent, played, up>>
             /\ ~Lost' => closing' = "over"]_vars

\* However many utterances follow a disconnection, none of them is heard.
THEOREM NothingFollowsALoss == Spec => LostStaysLost
<1>1. Init => SocketPhases
  BY DEF Init, SocketPhases
<1>2. SocketPhases /\ [Next]_vars
        => [Lost => /\ UNCHANGED <<sent, played, up>>
                    /\ ~Lost' => closing' = "over"]_vars
  <2> SUFFICES ASSUME SocketPhases, Next, Lost
               PROVE  UNCHANGED <<sent, played, up>> /\ (~Lost' => closing' = "over")
    OBVIOUS
  <2> USE DEF Lost
  <2>1. CASE speak \/ cancel \/ StartTask
    BY <2>1 DEF speak, cancel, StartTask, StartClear, StartFire, StartSynthesize, send, socket,
                client
  <2>2. CASE ConnectFails \/ WarmUpConnects \/ ConnectsToSend \/ ConnectsTooLate
    BY <2>2 DEF SocketPhases, ConnectFails, WarmUpConnects, ConnectsToSend, ConnectsTooLate
  <2>3. CASE StartConnect \/ Send \/ SendFails
    BY <2>3 DEF StartConnect, needsSocket, Send, SendFails, givesUp
  <2>4. CASE Abandon \/ PollEnds
    BY <2>4 DEF Abandon, PollEnds, finish, socket
  <2>5. CASE ReadChunk \/ ReadDone \/ ReaderEnds \/ CloseBegins \/ Rime
    BY <2>5 DEF ReadChunk, ReadDone, ReaderEnds, CloseBegins, Rime, RimeChunk, RimeDone,
                RimeClears, RimeCloses, Serving
  <2>6. CASE CloseEnds
    BY <2>6 DEF CloseEnds
  <2> QED
    BY <2>1, <2>2, <2>3, <2>4, <2>5, <2>6 DEF Next, HolderStep
<1> QED
  BY <1>1, <1>2, NextSocketPhases, PTL DEF Spec, LostStaysLost
=============================================================================
