---------------------------- MODULE FetchPoolProofs ----------------------------
(***************************************************************************)
(* What the steps of a FetchPool preserve, for any items, any number of    *)
(* fetchers and any answers: the lemmas the proofs of Watcher and NameMode *)
(* share.                                                                  *)
(***************************************************************************)
EXTENDS FetchPool, FiniteSetTheorems, SequenceTheorems, TLAPS

\* Where the items of a run are that were not dealt with: not handed over, with
\* a fetcher, or in the channel of answers.
WithFetchers == {fetcher[f].item : f \in {f \in Fetcher : fetcher[f].pc \in {"fetch", "send"}}}
Firsts(q)    == {q[i][1] : i \in DOMAIN q}
Answered     == Firsts(answers)

\* Nothing gets lost between the goroutines; held is what the run itself has in
\* its hands.
NothingLost(held) ==
  /\ on => listed \ handled \subseteq Range(queue) \cup WithFetchers \cup Answered \cup held
  /\ ~on => listed \ handled = {}
  /\ \A f \in Fetcher : fetcher[f].pc = "done" => queue = <<>>

\* The steps of the goroutines that put nothing into the hands of the run.
Handing(f) == Handoff(f) \/ Send(f) \/ FetcherDone(f)

-------------------------------------------------------------------------------
(* Sequences as queues.                                                    *)

\* Taking the head of a queue leaves the other items in it.
LEMMA QueueTail ==
  ASSUME NEW S, NEW q \in Seq(S), q # <<>>
  PROVE  /\ Head(q) \in S /\ Tail(q) \in Seq(S)
         /\ Range(q) \subseteq {Head(q)} \cup Range(Tail(q))
<1>1. Head(q) = q[1] /\ Tail(q) \in Seq(S) /\ Len(Tail(q)) = Len(q) - 1
      /\ \A i \in 1..Len(Tail(q)) : Tail(q)[i] = q[i + 1]
  OBVIOUS
<1>2. ASSUME NEW i \in DOMAIN q, i # 1 PROVE q[i] \in Range(Tail(q))
  <2>1. i - 1 \in DOMAIN Tail(q) /\ Tail(q)[i - 1] = q[i]
    BY <1>1, <1>2
  <2> QED
    BY <2>1 DEF Range
<1> QED
  BY <1>1, <1>2 DEF Range

\* The same of the first parts of pairs.
LEMMA AnswersTail ==
  ASSUME NEW S, NEW T, NEW q \in Seq(S \X T), q # <<>>
  PROVE  /\ Head(q) \in S \X T /\ Tail(q) \in Seq(S \X T)
         /\ Firsts(q) \subseteq {Head(q)[1]} \cup Firsts(Tail(q))
<1>1. Head(q) = q[1] /\ Tail(q) \in Seq(S \X T) /\ Len(Tail(q)) = Len(q) - 1
      /\ \A i \in 1..Len(Tail(q)) : Tail(q)[i] = q[i + 1]
  OBVIOUS
<1>2. ASSUME NEW i \in DOMAIN q, i # 1
      PROVE  i - 1 \in DOMAIN Tail(q) /\ Tail(q)[i - 1] = q[i]
  BY <1>1, <1>2
<1>3. ASSUME NEW i \in DOMAIN q
      PROVE  q[i][1] \in {Head(q)[1]} \cup Firsts(Tail(q))
  BY <1>1, <1>2 DEF Firsts
<1> QED
  BY <1>1, <1>3 DEF Firsts

\* The items of a channel with one more answer.
LEMMA AnswersAppend ==
  ASSUME NEW S, NEW T, NEW q \in Seq(S \X T), NEW e \in S \X T
  PROVE  /\ Append(q, e) \in Seq(S \X T)
         /\ Firsts(Append(q, e)) = Firsts(q) \cup {e[1]}
<1>1. /\ Append(q, e) \in Seq(S \X T) /\ Len(Append(q, e)) = Len(q) + 1
      /\ \A i \in 1..Len(q) : Append(q, e)[i] = q[i]
      /\ Append(q, e)[Len(q) + 1] = e
  OBVIOUS
<1>2. DOMAIN Append(q, e) = DOMAIN q \cup {Len(q) + 1}
  BY <1>1
<1> QED
  BY <1>1, <1>2 DEF Firsts

-------------------------------------------------------------------------------
(* The goroutines are well typed.                                          *)

\* An idle fetcher is in a state of a fetcher.
LEMMA WaitingTyped == ASSUME NEW Answer PROVE Waiting \in FetcherState(Answer)
<1>1. AnyItem \in Item
  BY PoolAssumption DEF AnyItem
<1> QED
  BY <1>1 DEF Waiting, FetcherState

\* The pool before the first run is well typed.
LEMMA PoolInitTyped == ASSUME NEW Answer, PoolInit PROVE PoolTypeOK(Answer)
<1>1. Waiting \in FetcherState(Answer)
  BY WaitingTyped
<1>2. <<>> \in Seq(Item) /\ <<>> \in Seq(Item \X Answer)
  OBVIOUS
<1> QED
  BY <1>1, <1>2 DEF PoolInit, PoolTypeOK

\* Every step of the pool keeps its types.
LEMMA PoolStepTyped ==
  ASSUME NEW Answer, PoolTypeOK(Answer),
         \/ \E items \in Seq(Item) : PoolBegin(items)
         \/ \E f \in Fetcher : Handing(f)
         \/ \E f \in Fetcher, a \in Answer : Fetched(f, a)
         \/ \E now \in BOOLEAN : TakeAnswer(now)
         \/ \E i \in Item : Dealt(i)
         \/ PoolEnd \/ PoolDies
  PROVE  PoolTypeOK(Answer)'
<1> USE DEF PoolTypeOK
<1>0. Waiting \in FetcherState(Answer)
  BY WaitingTyped
<1>1. ASSUME NEW items \in Seq(Item), PoolBegin(items) PROVE PoolTypeOK(Answer)'
  <2>1. Range(items) \subseteq Item
    BY DEF Range
  <2> QED
    BY <1>1, <2>1, <1>0 DEF PoolBegin
<1>2. ASSUME NEW f \in Fetcher, Handoff(f) PROVE PoolTypeOK(Answer)'
  <2>1. Head(queue) \in Item /\ Tail(queue) \in Seq(Item)
    BY <1>2, QueueTail DEF Handoff
  <2> QED
    <3>1. [Waiting EXCEPT !.pc = "fetch", !.item = Head(queue)] \in FetcherState(Answer)
      BY <1>0, <2>1 DEF FetcherState
    <3> QED
      BY <1>2, <2>1, <3>1 DEF Handoff
<1>3. ASSUME NEW f \in Fetcher, Send(f) PROVE PoolTypeOK(Answer)'
  <2>1. PICK a \in fetcher[f].answer : answers' = Append(answers, <<fetcher[f].item, a>>)
    BY <1>3 DEF Send
  <2>2. a \in Answer /\ fetcher[f].item \in Item
    BY <2>1 DEF FetcherState
  <2>3. answers' \in Seq(Item \X Answer)
    BY <2>1, <2>2
  <2> QED
    BY <1>3, <2>3, <1>0 DEF Send
<1>4. ASSUME NEW f \in Fetcher, FetcherDone(f) PROVE PoolTypeOK(Answer)'
  BY <1>4 DEF FetcherDone, FetcherState
<1>5. ASSUME NEW f \in Fetcher, NEW a \in Answer, Fetched(f, a) PROVE PoolTypeOK(Answer)'
  BY <1>5 DEF Fetched, FetcherState
<1>6. ASSUME NEW now \in BOOLEAN, TakeAnswer(now) PROVE PoolTypeOK(Answer)'
  <2>1. Head(answers) \in Item \X Answer /\ Tail(answers) \in Seq(Item \X Answer)
    BY <1>6, AnswersTail DEF TakeAnswer
  <2>2. Head(answers)[1] \in Item
    BY <2>1
  <2> QED
    BY <1>6, <2>1, <2>2 DEF TakeAnswer
<1>7. ASSUME NEW i \in Item, Dealt(i) PROVE PoolTypeOK(Answer)'
  BY <1>7 DEF Dealt
<1>8. ASSUME PoolEnd \/ PoolDies PROVE PoolTypeOK(Answer)'
  <2>1. <<>> \in Seq(Item) /\ <<>> \in Seq(Item \X Answer)
    OBVIOUS
  <2> QED
    BY <1>8, <1>0, <2>1 DEF PoolEnd, PoolDies, Reset
<1> QED
  BY <1>1, <1>2, <1>3, <1>4, <1>5, <1>6, <1>7, <1>8 DEF Handing

-------------------------------------------------------------------------------
(* Nothing gets lost between the goroutines.                               *)

\* Nothing is listed at first.
LEMMA PoolInitKeeps == ASSUME NEW held, PoolInit PROVE NothingLost(held)
  BY DEF PoolInit, NothingLost, Waiting

\* The goroutines keep the item they move.
LEMMA HandingKeeps ==
  ASSUME NEW Answer, PoolTypeOK(Answer), NEW held, NothingLost(held),
         NEW f \in Fetcher, Handing(f)
  PROVE  NothingLost(held)'
<1> USE DEF PoolTypeOK, NothingLost, FetcherState
<1>1. ASSUME Handoff(f) PROVE NothingLost(held)'
  <2>1. Range(queue) \subseteq {Head(queue)} \cup Range(Tail(queue))
    BY <1>1, QueueTail DEF Handoff
  <2>2. Head(queue) \in WithFetchers' /\ WithFetchers \subseteq WithFetchers'
    BY <1>1 DEF Handoff, WithFetchers, Waiting
  <2> QED
    BY <1>1, <2>1, <2>2 DEF Handoff, Answered, Waiting
<1>2. ASSUME Send(f) PROVE NothingLost(held)'
  <2>1. PICK a \in fetcher[f].answer : answers' = Append(answers, <<fetcher[f].item, a>>)
    BY <1>2 DEF Send
  <2>2. Answered' = Answered \cup {fetcher[f].item}
    <3>1. <<fetcher[f].item, a>> \in Item \X Answer
      OBVIOUS
    <3> DEFINE e == <<fetcher[f].item, a>>
    <3>2. e \in Item \X Answer /\ e[1] = fetcher[f].item /\ answers' = Append(answers, e)
      BY <2>1, <3>1
    <3>3. answers \in Seq(Item \X Answer)
      OBVIOUS
    <3> HIDE DEF e, PoolTypeOK, NothingLost, FetcherState
    <3>4. Firsts(Append(answers, e)) = Firsts(answers) \cup {e[1]}
      BY <3>2, <3>3, AnswersAppend
    <3> QED
      BY <3>2, <3>4 DEF Answered
  <2>3. WithFetchers \subseteq WithFetchers' \cup {fetcher[f].item}
    BY <1>2 DEF Send, WithFetchers
  <2> QED
    BY <1>2, <2>2, <2>3 DEF Send, Waiting
<1>3. ASSUME FetcherDone(f) PROVE NothingLost(held)'
  <2>1. WithFetchers' = WithFetchers
    BY <1>3 DEF FetcherDone, WithFetchers
  <2> QED
    BY <1>3, <2>1 DEF FetcherDone, Answered
<1> QED
  BY <1>1, <1>2, <1>3 DEF Handing

\* An answer fetched is sent by its fetcher.
LEMMA FetchedKeeps ==
  ASSUME NEW Answer, PoolTypeOK(Answer), NEW held, NothingLost(held),
         NEW f \in Fetcher, NEW a, Fetched(f, a)
  PROVE  NothingLost(held)'
<1>1. WithFetchers' = WithFetchers
  BY DEF Fetched, WithFetchers, PoolTypeOK, FetcherState
<1> QED
  BY <1>1 DEF Fetched, Answered, NothingLost, PoolTypeOK, FetcherState

\* The run has to hold on to the answer it takes and did not deal with.
LEMMA TakeKeeps ==
  ASSUME NEW Answer, PoolTypeOK(Answer), NEW held, NothingLost(held),
         NEW now \in BOOLEAN, TakeAnswer(now), NEW holding, held \subseteq holding,
         ~now => Head(answers)[1] \in holding
  PROVE  NothingLost(holding)'
<1>1. Answered \subseteq {Head(answers)[1]} \cup Answered'
  BY AnswersTail DEF TakeAnswer, PoolTypeOK, Answered
<1>2. WithFetchers' = WithFetchers
  BY DEF TakeAnswer, WithFetchers
<1> QED
  BY <1>1, <1>2 DEF TakeAnswer, NothingLost

\* An item dealt with may leave the hands of the run.
LEMMA DealtKeeps ==
  ASSUME NEW held, NothingLost(held), NEW i, on, Dealt(i), NEW holding, held \subseteq holding \cup {i}
  PROVE  NothingLost(holding)'
<1>1. WithFetchers' = WithFetchers /\ Answered' = Answered
  BY DEF Dealt, WithFetchers, Answered
<1> QED
  BY <1>1 DEF Dealt, NothingLost

\* What a run lists is in its queue.
LEMMA BeginKeeps == ASSUME NEW items, PoolBegin(items), NEW held PROVE NothingLost(held)'
  BY DEF PoolBegin, NothingLost, Waiting

\* Between two runs nothing is listed.
LEMMA EndKeeps == ASSUME PoolEnd \/ PoolDies, NEW held PROVE NothingLost(held)'
  BY DEF PoolEnd, PoolDies, Reset, NothingLost, Waiting

\* While the pool rests the run may have more in its hands.
LEMMA IdleKeeps ==
  ASSUME NEW held, NothingLost(held), UNCHANGED pool, NEW holding, held \subseteq holding
  PROVE  NothingLost(holding)'
  BY DEF pool, NothingLost, WithFetchers, Answered

\* A run that ends of itself with nothing in its hands has dealt with every item.
LEMMA AllDealtAtEnd ==
  ASSUME NothingLost({}), PoolEnd
  PROVE  on /\ listed \ handled = {}
<1>1. PICK f \in Fetcher : fetcher[f].pc = "done"
  BY PoolAssumption DEF PoolEnd
<1>2. queue = <<>> /\ answers = <<>> /\ WithFetchers = {}
  BY <1>1 DEF NothingLost, PoolEnd, WithFetchers
<1>3. Range(queue) = {} /\ Answered = {}
  BY <1>2 DEF Range, Answered, Firsts
<1> QED
  BY <1>2, <1>3 DEF NothingLost, PoolEnd
===============================================================================
