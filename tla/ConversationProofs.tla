------------------------- MODULE ConversationProofs -------------------------
(* Theorems about Conversation and their proofs. *)
EXTENDS Conversation, SequenceTheorems, TLAPS

-----------------------------------------------------------------------------
(* Quoting: what Newest returns, and that it does not change as the history *)
(* grows.                                                                   *)

First(n) == IF n < MAX_HISTORY THEN 0 ELSE n - MAX_HISTORY

LEMMA QuoteProperties ==
  ASSUME NEW S, NEW s \in Seq(S), NEW n \in 0..Len(s),
         NEW p, p = Newest(SubSeq(s, 1, n), MAX_HISTORY)
  PROVE  /\ p \in Seq(S) /\ First(n) \in Nat
         /\ Len(p) = n - First(n) /\ Len(p) <= MAX_HISTORY
         /\ \A i \in 1..Len(p) : First(n) + i \in 1..n /\ p[i] = s[First(n) + i]
<1> DEFINE q == SubSeq(s, 1, n)
<1>1. Len(s) \in Nat /\ n \in Nat /\ \A i \in 1..n : s[i] \in S
  BY ElementOfSeq, LenProperties
<1>2. q \in Seq(S) /\ Len(q) = n /\ \A i \in 1..n : q[i] = s[i]
  BY <1>1, SubSeqProperties
<1>3. First(n) \in 0..n /\ n - First(n) <= MAX_HISTORY
  BY <1>1, MaxHistoryAssumption DEF First
<1>4. p = SubSeq(q, First(n) + 1, n)
  BY <1>1, <1>2, MaxHistoryAssumption DEF Newest, First
<1>5. \A i \in (First(n) + 1)..n : q[i] \in S
  BY <1>1, <1>2, <1>3
<1> HIDE DEF q
<1>6. /\ p \in Seq(S)
      /\ Len(p) = IF First(n) + 1 <= n THEN n - (First(n) + 1) + 1 ELSE 0
      /\ \A i \in 1..(n - (First(n) + 1) + 1) : p[i] = q[First(n) + 1 + i - 1]
  <2>1. PICK m \in Int : m = First(n) + 1
    BY <1>1, <1>3
  <2>2. n \in Int /\ \A i \in m..n : q[i] \in S
    BY <1>1, <1>5, <2>1
  <2>3. /\ SubSeq(q, m, n) \in Seq(S)
        /\ Len(SubSeq(q, m, n)) = IF m <= n THEN n - m + 1 ELSE 0
        /\ \A i \in 1..(n - m + 1) : SubSeq(q, m, n)[i] = q[m + i - 1]
    BY <2>2, SubSeqProperties
  <2> QED
    BY <1>4, <2>1, <2>3
<1>7. Len(p) = n - First(n)
  BY <1>1, <1>3, <1>6
<1>8. ASSUME NEW i \in 1..Len(p) PROVE First(n) + i \in 1..n /\ p[i] = s[First(n) + i]
  <2>1. First(n) + i \in 1..n /\ First(n) + 1 + i - 1 = First(n) + i
    BY <1>1, <1>3, <1>7
  <2> QED
    BY <1>2, <1>1, <1>3, <1>6, <1>7, <2>1
<1> QED
  BY <1>3, <1>6, <1>7, <1>8

LEMMA QuoteStays ==
  ASSUME NEW S, NEW s \in Seq(S), NEW e \in S, NEW n \in 0..Len(s)
  PROVE  SubSeq(Append(s, e), 1, n) = SubSeq(s, 1, n)
<1>1. Append(s, e) \in Seq(S) /\ Len(Append(s, e)) = Len(s) + 1
  BY AppendProperties
<1>2. /\ SubSeq(s, 1, n) \in Seq(S) /\ SubSeq(Append(s, e), 1, n) \in Seq(S)
      /\ Len(SubSeq(s, 1, n)) = n /\ Len(SubSeq(Append(s, e), 1, n)) = n
      /\ \A i \in 1..n : SubSeq(s, 1, n)[i] = s[i] /\ SubSeq(Append(s, e), 1, n)[i] = s[i]
  BY <1>1, SubSeqProperties, AppendProperties
<1> QED
  BY <1>2, SeqEqual

-----------------------------------------------------------------------------
(* The inductive invariant.                                                *)

\* Which turns have told their transcript, and that they have told it once.
Asked ==
  \A t \in Turns : stage[t] \in {"calling", "fresh", "wording"} =>
    \E i \in DOMAIN history : history[i] = <<"transcript", t>>

ToldBy ==
  \A i \in DOMAIN history : \A t \in Turns :
    history[i] = <<"transcript", t>> =>
      stage[t] \in {"telling", "calling", "fresh", "wording", "ended"}

ToldOnce ==
  \A i, j \in DOMAIN history : \A t \in Turns :
    history[i] = <<"transcript", t>> /\ history[j] = <<"transcript", t>> => i = j

Told == Asked /\ ToldBy /\ ToldOnce

\* A reply is told next after its transcript.
Telling ==
  \A t \in Turns : stage[t] = "telling" =>
    Len(history) > 0 /\ history[Len(history)] = <<"transcript", t>>

RepliesBehind ==
  \A i \in DOMAIN history :
    history[i][1] = "reply" => i > 1 /\ history[i - 1] = <<"transcript", history[i][2]>>

Since(t) == IF stage[t] \in {"thinking", "wording"} THEN known[t] ELSE 0

Quotes(t) ==
  /\ known[t] \in 0..Len(history)
  /\ \E n \in Since(t)..Len(history) : prompt[t] = Newest(SubSeq(history, 1, n), MAX_HISTORY)

IInv ==
  /\ TypeOK /\ Told /\ Telling /\ RepliesBehind /\ ResultsFollowRequests
  /\ \A t \in Turns : Quotes(t)

LEMMA InitIInv == Init => IInv
<1> SUFFICES ASSUME Init PROVE IInv
  OBVIOUS
<1>1. history = <<>> /\ Len(history) = 0 /\ history \in Seq(Entries) /\ DOMAIN history = {}
  BY DEF Init
<1>2. \A t \in Turns : Quotes(t)
  <2>1. Newest(SubSeq(history, 1, 0), MAX_HISTORY) = <<>>
    BY <1>1, SubSeqEmpty, MaxHistoryAssumption DEF Newest
  <2> SUFFICES ASSUME NEW t \in Turns PROVE Quotes(t)
    OBVIOUS
  <2>2. known[t] = 0 /\ prompt[t] = <<>> /\ Since(t) = 0
    BY DEF Init, Since
  <2>3. 0 \in Since(t)..Len(history) /\ known[t] \in 0..Len(history)
    BY <1>1, <2>2
  <2> QED
    BY <2>1, <2>2, <2>3 DEF Quotes
<1>3. TypeOK
  BY <1>1, MaxHistoryAssumption DEF Init, TypeOK, Stages
<1> QED
  BY <1>1, <1>2, <1>3 DEF Init, IInv, Told, Asked, ToldBy, ToldOnce, Telling, RepliesBehind, ResultsFollowRequests

-----------------------------------------------------------------------------
(* Each step keeps the invariant.                                          *)

\* A step that tells nothing: a turn goes on, with what it knows and quotes.
LEMMA UntoldKeeps ==
  ASSUME IInv, NEW t \in Turns,
         Read(t) \/ Hear(t) \/ ThinkingFails(t) \/ ToolAnswers(t) \/ ToolEnds(t)
           \/ WordingFails(t)
  PROVE  IInv'
<1>1. PICK s \in Stages \ {"telling", "calling"} : stage' = [stage EXCEPT ![t] = s]
  BY DEF Read, Hear, ThinkingFails, ToolAnswers, ToolEnds, WordingFails, MoveTo, Stages
<1>2. history' = history /\ history \in Seq(Entries) /\ Len(history) \in Nat
  BY DEF IInv, TypeOK, Read, Hear, ThinkingFails, ToolAnswers, ToolEnds, WordingFails
<1>3. /\ s \in {"fresh", "wording"} => stage[t] \in {"calling", "fresh"}
      /\ stage[t] \in {"telling", "calling", "fresh", "wording", "ended"}
           => s \in {"fresh", "wording", "ended"}
  BY <1>1 DEF Read, Hear, ThinkingFails, ToolAnswers, ToolEnds, WordingFails, MoveTo,
              IInv, TypeOK
<1>4. Told' /\ Telling'
  BY <1>1, <1>2, <1>3 DEF IInv, TypeOK, Told, Asked, ToldBy, ToldOnce, Telling
<1>5. RepliesBehind' /\ ResultsFollowRequests'
  BY <1>2 DEF IInv, RepliesBehind, ResultsFollowRequests
<1>6. CASE Read(t)
  <2>1. /\ known' = known
        /\ prompt' = [prompt EXCEPT ![t] = Newest(history, MAX_HISTORY)]
    BY <1>6 DEF Read, _trim
  <2>2. SubSeq(history, 1, Len(history)) = history
    BY <1>2, SubSeqFull
  <2>3. /\ Newest(history, MAX_HISTORY) \in Seq(Entries)
        /\ Len(Newest(history, MAX_HISTORY)) <= MAX_HISTORY
    <3>1. Len(history) \in 0..Len(history)
      BY <1>2
    <3> QED
      BY <1>2, <2>2, <3>1, QuoteProperties
  <2>4. TypeOK'
    BY <1>1, <1>2, <2>1, <2>3 DEF IInv, TypeOK
  <2>5. Quotes(t)'
    <3>1. /\ stage' = [stage EXCEPT ![t] = s] /\ known'[t] = known[t]
          /\ prompt'[t] = Newest(SubSeq(history', 1, Len(history')), MAX_HISTORY)
      BY <1>1, <1>2, <2>1, <2>2 DEF IInv, TypeOK
    <3>2. known[t] \in 0..Len(history) /\ Since(t)' \in {0, known[t]}
      BY <3>1 DEF IInv, Quotes, Since
    <3>3. Len(history') \in Since(t)'..Len(history')
      BY <1>2, <3>2
    <3> QED
      BY <1>2, <3>1, <3>2, <3>3 DEF Quotes
  <2>6. \A u \in Turns \ {t} : Quotes(u)'
    BY <1>1, <1>2, <2>1 DEF IInv, TypeOK, Quotes, Since
  <2> QED
    BY <1>4, <1>5, <2>4, <2>5, <2>6 DEF IInv
<1>7. CASE ~Read(t)
  <2>1. prompt' = prompt /\ known' \in {known, [known EXCEPT ![t] = Len(history)]}
    BY <1>7 DEF Hear, ThinkingFails, ToolAnswers, ToolEnds, WordingFails, ToThread
  <2>2. s \notin {"thinking", "wording"}
    BY <1>1, <1>7 DEF Hear, ThinkingFails, ToolAnswers, ToolEnds, WordingFails, MoveTo,
                      IInv, TypeOK
  <2>3. TypeOK'
    BY <1>1, <1>2, <2>1 DEF IInv, TypeOK
  <2>4. Quotes(t)'
    BY <1>1, <1>2, <2>1, <2>2 DEF IInv, TypeOK, Quotes, Since
  <2>5. \A u \in Turns \ {t} : Quotes(u)'
    BY <1>1, <1>2, <2>1 DEF IInv, TypeOK, Quotes, Since
  <2> QED
    BY <1>4, <1>5, <2>3, <2>4, <2>5 DEF IInv
<1> QED
  BY <1>6, <1>7

\* A step that tells an entry: what is quoted is the same, and the entry is the last.
LEMMA TellKeepsQuotes ==
  ASSUME IInv, NEW t \in Turns, NEW k \in {"transcript", "reply", "result"},
         Tell(k, t), prompt' = prompt, known' = known,
         NEW s \in Stages \ {"thinking", "wording"}, stage' = [stage EXCEPT ![t] = s]
  PROVE  /\ TypeOK' /\ \A u \in Turns : Quotes(u)'
         /\ DOMAIN history = 1..Len(history) /\ DOMAIN history' = 1..(Len(history) + 1)
         /\ Len(history') = Len(history) + 1 /\ Len(history) \in Nat
         /\ history'[Len(history) + 1] = <<k, t>>
         /\ \A i \in 1..Len(history) : history'[i] = history[i]
<1>1. history \in Seq(Entries) /\ <<k, t>> \in Entries /\ history' = Append(history, <<k, t>>)
  BY DEF IInv, TypeOK, Tell, Entries
<1>2. /\ history' \in Seq(Entries)
      /\ DOMAIN history = 1..Len(history) /\ DOMAIN history' = 1..(Len(history) + 1)
      /\ Len(history') = Len(history) + 1 /\ Len(history) \in Nat
      /\ history'[Len(history) + 1] = <<k, t>>
      /\ \A i \in 1..Len(history) : history'[i] = history[i]
  BY <1>1, AppendProperties
<1>3. TypeOK'
  BY <1>2 DEF IInv, TypeOK
<1>4. \A n \in 0..Len(history) : SubSeq(history', 1, n) = SubSeq(history, 1, n)
  BY <1>1, QuoteStays
<1>5. ASSUME NEW u \in Turns PROVE Quotes(u)'
  <2>1. Since(u)' <= Since(u) /\ Since(u)' \in Nat /\ Since(u) \in Nat
    BY DEF IInv, TypeOK, Since
  <2>2. PICK n \in Since(u)..Len(history) :
          prompt[u] = Newest(SubSeq(history, 1, n), MAX_HISTORY)
    BY DEF IInv, Quotes
  <2>3. /\ n \in Since(u)'..Len(history')
        /\ prompt'[u] = Newest(SubSeq(history', 1, n), MAX_HISTORY)
    <3>1. n \in 0..Len(history) /\ n \in Since(u)'..Len(history')
      BY <1>2, <2>1, <2>2
    <3> QED
      BY <1>4, <2>2, <3>1
  <2>4. known'[u] \in 0..Len(history')
    BY <1>2 DEF IInv, Quotes
  <2> QED
    BY <2>3, <2>4 DEF Quotes
<1> QED
  BY <1>2, <1>3, <1>5

\* The transcript comes before all else a turn tells, and the reply at once.
LEMMA TellKeeps ==
  ASSUME IInv, NEW t \in Turns,
         CallTool(t) \/ TellTranscript(t) \/ TellReply(t) \/ TellResult(t)
  PROVE  IInv'
<1> DEFINE n == Len(history)
<1>1. PICK k \in {"transcript", "reply", "result"}, s \in {"calling", "telling", "ended"} :
        /\ Tell(k, t) /\ prompt' = prompt /\ known' = known
        /\ stage' = [stage EXCEPT ![t] = s]
        /\ \/ k = "transcript" /\ stage[t] = "thinking" /\ s # "ended" /\ loopFree
           \/ k = "reply" /\ stage[t] = "telling" /\ s = "ended"
           \/ k = "result" /\ stage[t] = "wording" /\ s = "ended" /\ loopFree
  BY DEF CallTool, TellTranscript, TellReply, TellResult, tellRequest, MoveTo
<1>2. /\ TypeOK' /\ \A u \in Turns : Quotes(u)'
      /\ DOMAIN history = 1..n /\ DOMAIN history' = 1..(n + 1)
      /\ Len(history') = n + 1 /\ n \in Nat
      /\ history'[n + 1] = <<k, t>>
      /\ \A i \in 1..n : history'[i] = history[i]
  BY <1>1, TellKeepsQuotes DEF Stages
<1>3. ASSUME NEW i \in 1..(n + 1), NEW u \in Turns, history'[i] = <<"transcript", u>>
      PROVE  \/ i \in 1..n /\ history[i] = <<"transcript", u>>
             \/ i = n + 1 /\ u = t /\ k = "transcript"
  BY <1>2, <1>3
<1>4. \A i \in 1..n : history[i] # <<"transcript", t>> \/ k # "transcript"
  BY <1>1, <1>2 DEF IInv, Told, ToldBy
<1>5. Asked'
  <2> SUFFICES ASSUME NEW u \in Turns, stage'[u] \in {"calling", "fresh", "wording"}
               PROVE  \E i \in DOMAIN history' : history'[i] = <<"transcript", u>>
    BY DEF Asked
  <2>1. CASE u = t
    <3>1. k = "transcript"
      BY <1>1, <2>1 DEF IInv, TypeOK
    <3> QED
      BY <1>2, <2>1, <3>1
  <2>2. CASE u # t
    <3>1. stage[u] \in {"calling", "fresh", "wording"}
      BY <1>1, <2>2 DEF IInv, TypeOK
    <3>2. PICK i \in DOMAIN history : history[i] = <<"transcript", u>>
      BY <3>1 DEF IInv, Told, Asked
    <3> QED
      BY <1>2, <3>2
  <2> QED
    BY <2>1, <2>2
<1>6. ToldBy'
  <2> SUFFICES ASSUME NEW i \in 1..(n + 1), NEW u \in Turns,
                      history'[i] = <<"transcript", u>>
               PROVE  stage'[u] \in {"telling", "calling", "fresh", "wording", "ended"}
    BY <1>2 DEF ToldBy
  <2>1. CASE u = t
    BY <1>1, <2>1 DEF IInv, TypeOK
  <2>2. CASE u # t
    <3>1. i \in 1..n /\ history[i] = <<"transcript", u>>
      BY <1>3, <2>2
    <3> QED
      BY <1>1, <1>2, <2>2, <3>1 DEF IInv, TypeOK, Told, ToldBy
  <2> QED
    BY <2>1, <2>2
<1>7. ToldOnce'
  <2> SUFFICES ASSUME NEW i \in 1..(n + 1), NEW j \in 1..(n + 1), NEW u \in Turns,
                      history'[i] = <<"transcript", u>>, history'[j] = <<"transcript", u>>
               PROVE  i = j
    BY <1>2 DEF ToldOnce
  <2>1. CASE i \in 1..n /\ j \in 1..n
    BY <1>2, <2>1 DEF IInv, Told, ToldOnce
  <2>2. CASE i = n + 1 /\ j = n + 1
    BY <2>2
  <2>3. CASE i = n + 1 /\ j \in 1..n
    BY <1>2, <1>3, <1>4, <2>3
  <2>4. CASE i \in 1..n /\ j = n + 1
    BY <1>2, <1>3, <1>4, <2>4
  <2> QED
    BY <1>2, <2>1, <2>2, <2>3, <2>4
<1>8. Telling'
  <2> SUFFICES ASSUME NEW u \in Turns, stage'[u] = "telling"
               PROVE  history'[n + 1] = <<"transcript", u>>
    BY <1>2 DEF Telling
  <2>1. CASE k = "reply"
    <3>1. u # t /\ stage[u] = "telling" /\ stage[t] = "telling"
      BY <1>1, <2>1 DEF IInv, TypeOK
    <3>2. <<"transcript", u>> = <<"transcript", t>>
      BY <3>1 DEF IInv, Telling
    <3> QED
      BY <3>1, <3>2
  <2>2. CASE k # "reply"
    <3>1. u = t /\ k = "transcript"
      BY <1>1, <2>2 DEF IInv, TypeOK, loopFree
    <3> QED
      BY <1>2, <3>1
  <2> QED
    BY <2>1, <2>2
<1>9. RepliesBehind'
  <2> SUFFICES ASSUME NEW i \in 1..(n + 1), history'[i][1] = "reply"
               PROVE  i > 1 /\ history'[i - 1] = <<"transcript", history'[i][2]>>
    BY <1>2 DEF RepliesBehind
  <2>1. CASE i = n + 1
    <3>1. k = "reply" /\ n > 0 /\ history[n] = <<"transcript", t>>
      BY <1>1, <1>2, <2>1 DEF IInv, Telling
    <3> QED
      BY <1>2, <2>1, <3>1
  <2>2. CASE i \in 1..n
    <3>1. i > 1 /\ history[i - 1] = <<"transcript", history[i][2]>>
      BY <1>2, <2>2 DEF IInv, RepliesBehind
    <3> QED
      BY <1>2, <2>2, <3>1
  <2> QED
    BY <1>2, <2>1, <2>2
<1>10. ResultsFollowRequests'
  <2> SUFFICES ASSUME NEW j \in 1..(n + 1), history'[j][1] = "result"
               PROVE  \E i \in 1..(j - 1) : history'[i] = <<"transcript", history'[j][2]>>
    BY <1>2 DEF ResultsFollowRequests
  <2>1. CASE j = n + 1
    <3>1. k = "result"
      BY <1>2, <2>1
    <3>2. PICK i \in 1..n : history[i] = <<"transcript", t>>
      BY <1>1, <1>2, <3>1 DEF IInv, Told, Asked
    <3> QED
      BY <1>2, <2>1, <3>2
  <2>2. CASE j \in 1..n
    <3>1. PICK i \in 1..(j - 1) : history[i] = <<"transcript", history[j][2]>>
      BY <1>2, <2>2 DEF IInv, ResultsFollowRequests
    <3>2. history'[i] = history[i] /\ history'[j] = history[j]
      BY <1>2, <2>2
    <3> QED
      BY <3>1, <3>2
  <2> QED
    BY <1>2, <2>1, <2>2
<1> QED
  BY <1>2, <1>5, <1>6, <1>7, <1>8, <1>9, <1>10 DEF IInv, Told

LEMMA NextKeeps == IInv /\ [Next]_vars => IInv'
<1> SUFFICES ASSUME IInv, [Next]_vars PROVE IInv'
  OBVIOUS
<1>1. CASE UNCHANGED vars
  <2>1. stage' = stage /\ history' = history /\ prompt' = prompt /\ known' = known
    BY <1>1 DEF vars
  <2>2. \A t \in Turns : Quotes(t)'
    BY <2>1 DEF IInv, Quotes, Since
  <2>3. TypeOK' /\ Told' /\ Telling'
    BY <2>1 DEF IInv, TypeOK, Told, Asked, ToldBy, ToldOnce, Telling
  <2>4. RepliesBehind' /\ ResultsFollowRequests'
    BY <2>1 DEF IInv, RepliesBehind, ResultsFollowRequests
  <2> QED
    BY <2>2, <2>3, <2>4 DEF IInv
<1>2. CASE Next
  BY <1>2, UntoldKeeps, TellKeeps DEF Next, TurnStep
<1> QED
  BY <1>1, <1>2

LEMMA Invariance == Spec => []IInv
  BY InitIInv, NextKeeps, PTL DEF Spec

-----------------------------------------------------------------------------
(* Theorems.                                                               *)

\* The type invariant, of which the bound on the prompts is a part.
THEOREM TypeCorrect == Spec => []TypeOK
<1>1. IInv => TypeOK
  BY DEF IInv
<1> QED
  BY <1>1, Invariance, PTL

\* Exchanges are whole, since a transcript is told once and nothing told before its reply.
THEOREM WholeExchanges == Spec => []ExchangesAreWhole
<1>1. IInv => ExchangesAreWhole
  <2> SUFFICES ASSUME IInv, NEW t \in Turns, NEW u \in Turns,
                      NEW i \in 1..(Len(prompt[t]) - 1),
                      prompt[t][i] = <<"transcript", u>>, Answered(u)
               PROVE  prompt[t][i + 1] = <<"reply", u>>
    BY DEF IInv, RepliesBehind, ExchangesAreWhole
  <2>1. PICK n \in 0..Len(history) : prompt[t] = Newest(SubSeq(history, 1, n), MAX_HISTORY)
    BY DEF IInv, TypeOK, Quotes, Since
  <2>2. /\ history \in Seq(Entries) /\ Len(history) \in Nat /\ Len(prompt[t]) \in Nat
        /\ First(n) \in Nat
        /\ \A j \in 1..Len(prompt[t]) :
             First(n) + j \in 1..n /\ prompt[t][j] = history[First(n) + j]
    <3>1. history \in Seq(Entries) /\ Len(history) \in Nat
      BY LenProperties DEF IInv, TypeOK
    <3>2. prompt[t] \in Seq(Entries) /\ Len(prompt[t]) \in Nat
      BY LenProperties DEF IInv, TypeOK
    <3>3. /\ First(n) \in Nat
          /\ \A j \in 1..Len(prompt[t]) :
               First(n) + j \in 1..n /\ prompt[t][j] = history[First(n) + j]
      BY <2>1, <3>1, QuoteProperties
    <3> QED
      BY <3>1, <3>2, <3>3
  <2> DOMAIN history = 1..Len(history)
    BY <2>2
  <2>3. PICK k \in 1..Len(history) : history[k] = <<"reply", u>>
    BY DEF Answered
  <2>4. k > 1 /\ k - 1 \in 1..Len(history) /\ history[k - 1] = <<"transcript", u>>
    <3>1. history[k][1] = "reply" /\ history[k][2] = u
      BY <2>3
    <3>2. k > 1 /\ history[k - 1] = <<"transcript", history[k][2]>>
      BY <3>1 DEF IInv, RepliesBehind
    <3> QED
      BY <2>2, <3>1, <3>2
  <2>5. First(n) + i \in 1..Len(history) /\ history[First(n) + i] = <<"transcript", u>>
    BY <2>2
  <2>6. First(n) + i = k - 1
    <3> QED
      BY <2>4, <2>5 DEF IInv, Told, ToldOnce
  <2>7. i + 1 \in 1..Len(prompt[t]) /\ First(n) + (i + 1) = k
    BY <2>2, <2>6
  <2> QED
    BY <2>2, <2>3, <2>7
<1> QED
  BY <1>1, Invariance, PTL

\* A prompt quotes the newest entries of the history as it was or has become.
THEOREM CurrentPrompts == Spec => []PromptsAreCurrent
<1>1. IInv => PromptsAreCurrent
  BY DEF IInv, Quotes, Since, PromptsAreCurrent
<1> QED
  BY <1>1, Invariance, PTL

\* A result has been asked for.
THEOREM RequestedResults == Spec => []ResultsFollowRequests
<1>1. IInv => ResultsFollowRequests
  BY DEF IInv
<1> QED
  BY <1>1, Invariance, PTL
=============================================================================
