------------------------------ MODULE FetchPool ------------------------------
(***************************************************************************)
(* "Fetch concurrently, write serially": the goroutines of a run, the same *)
(* in the DataJud watcher and in DJEN name mode.  One hands the items of   *)
(* the run over an unbuffered channel, several look them up, and the run   *)
(* itself takes the answers from a channel as large as the fetchers are    *)
(* many.  The context of a run is never cancelled.                         *)
(***************************************************************************)
EXTENDS Integers, Sequences, FiniteSets, Functions

CONSTANTS
  Item,        \* what a run lists: case numbers, or names of politicians
  Fetcher      \* the fetchers

ASSUME PoolAssumption ==
  /\ Item # {} /\ IsFiniteSet(Item)
  /\ Fetcher # {} /\ IsFiniteSet(Fetcher)

VARIABLES
  on,          \* a run is going on
  queue,       \* items that were not handed over yet
  fetcher,     \* [Fetcher -> state of the goroutine]
  answers,     \* the channel of answers: items with their answers
  listed,      \* history: the items of this run
  handled      \* history: those whose answer was dealt with

pool == <<on, queue, fetcher, answers, listed, handled>>

AnyItem == CHOOSE i \in Item : TRUE
Waiting == [pc |-> "idle", item |-> AnyItem, answer |-> {}]

\* An answer in a fetcher's hands is a singleton, so that there may be none.
FetcherState(Answer) == [pc : {"idle", "fetch", "send", "done"}, item : Item,
                         answer : {{}} \cup {{a} : a \in Answer}]

PoolTypeOK(Answer) ==
  /\ on \in BOOLEAN
  /\ queue \in Seq(Item)
  /\ fetcher \in [Fetcher -> FetcherState(Answer)]
  /\ answers \in Seq(Item \X Answer)
  /\ listed \subseteq Item /\ handled \subseteq Item

Reset ==
  /\ queue' = <<>> /\ answers' = <<>>
  /\ fetcher' = [f \in Fetcher |-> Waiting]
  /\ listed' = {} /\ handled' = {}

PoolInit ==
  /\ on = FALSE /\ queue = <<>> /\ answers = <<>>
  /\ fetcher = [f \in Fetcher |-> Waiting]
  /\ listed = {} /\ handled = {}

PoolBegin(items) ==
  /\ ~on /\ on' = TRUE
  /\ queue' = items
  /\ fetcher' = [f \in Fetcher |-> Waiting]
  /\ answers' = <<>>
  /\ listed' = Range(items) /\ handled' = {}

\* The unbuffered channel: an item is handed to a fetcher that waits for one.
Handoff(f) ==
  /\ on /\ queue # <<>>
  /\ fetcher[f].pc = "idle"
  /\ fetcher' = [fetcher EXCEPT ![f] = [Waiting EXCEPT !.pc = "fetch", !.item = Head(queue)]]
  /\ queue' = Tail(queue)
  /\ UNCHANGED <<on, answers, listed, handled>>

Fetched(f, a) ==
  /\ fetcher[f].pc = "fetch"
  /\ fetcher' = [fetcher EXCEPT ![f].pc = "send", ![f].answer = {a}]
  /\ UNCHANGED <<on, queue, answers, listed, handled>>

\* Mutant of Send: a fetcher goes on without its answer when the channel is full.
SendOrDrop(f) ==
  /\ fetcher[f].pc = "send"
  /\ answers' = IF Len(answers) < Cardinality(Fetcher)
                THEN Append(answers, <<fetcher[f].item, CHOOSE a \in fetcher[f].answer : TRUE>>)
                ELSE answers
  /\ fetcher' = [fetcher EXCEPT ![f] = Waiting]
  /\ UNCHANGED <<on, queue, listed, handled>>

\* The channel of answers holds as many as there are fetchers.
Send(f) ==
  /\ fetcher[f].pc = "send"
  /\ Len(answers) < Cardinality(Fetcher)
  /\ \E a \in fetcher[f].answer : answers' = Append(answers, <<fetcher[f].item, a>>)
  /\ fetcher' = [fetcher EXCEPT ![f] = Waiting]
  /\ UNCHANGED <<on, queue, listed, handled>>

\* The channel of items is closed and drained.
FetcherDone(f) ==
  /\ on /\ queue = <<>>
  /\ fetcher[f].pc = "idle"
  /\ fetcher' = [fetcher EXCEPT ![f].pc = "done"]
  /\ UNCHANGED <<on, queue, answers, listed, handled>>

\* The run takes an answer, and deals with it in this step (handled) or later.
TakeAnswer(now) ==
  /\ on /\ answers # <<>>
  /\ answers' = Tail(answers)
  /\ handled' = IF now THEN handled \cup {Head(answers)[1]} ELSE handled
  /\ UNCHANGED <<on, queue, fetcher, listed>>

Dealt(i) == handled' = handled \cup {i} /\ UNCHANGED <<on, queue, fetcher, answers, listed>>

\* Every fetcher is done, the channel of answers is closed and drained.
PoolEnd ==
  /\ on /\ answers = <<>>
  /\ \A f \in Fetcher : fetcher[f].pc = "done"
  /\ on' = FALSE /\ Reset

\* The process ends, and its goroutines go with it.
PoolDies == on /\ on' = FALSE /\ Reset
===============================================================================
