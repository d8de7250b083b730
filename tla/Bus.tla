-------------------------------- MODULE Bus --------------------------------
(***************************************************************************)
(* InMemoryBus (crates/tpt-erp-bus/src/memory.rs): a publish copies the    *)
(* matching senders under a lock, then sends to one bounded channel after  *)
(* the other; a subscriber that has been dropped is remembered and pruned  *)
(* at the end.                                                             *)
(***************************************************************************)
EXTENDS Integers, Sequences, FiniteSets, SequencesExt, FiniteSetsExt

CONSTANTS
  Sender, Subject,
  Patterns,    \* what is subscribed to
  Matching,    \* subject_matches: the <<pattern, subject>> pairs that match
  Capacity,    \* mpsc::channel(64)
  MaxSubs,     \* subscriptions made (bound)
  MaxMsgs      \* messages published (bound)

ASSUME BusAssumption ==
  /\ Capacity \in Nat \ {0} /\ MaxSubs \in Nat /\ MaxMsgs \in Nat
  /\ Matching \subseteq Patterns \X Subject

VARIABLES
  subs,      \* Inner::subs: the ids and patterns of the registered subscriptions
  chan,      \* the bounded channel of each subscription made, by id
  alive,     \* the subscriptions whose stream has not been dropped
  got,       \* history: what each subscription's reader received
  sending,   \* each publisher's publish: the message, targets left, dead ones found
  sent       \* history: messages each publisher has begun, and the subscriptions it owed

bvars == <<subs, chan, alive, got, sending, sent>>

NoSend == [msg |-> 0, subject |-> "none", todo |-> <<>>, dead |-> {}]

BInit ==
  /\ subs = <<>> /\ chan = <<>> /\ alive = {} /\ got = <<>>
  /\ sending = [p \in Sender |-> NoSend] /\ sent = [p \in Sender |-> <<>>]

Made == DOMAIN chan

-----------------------------------------------------------------------------
(* The in-memory bus.                                                      *)

\* subscribe(): a fresh id and an empty channel.
Subscribe(pattern) ==
  /\ Cardinality(Made) < MaxSubs
  /\ LET id == Cardinality(Made) + 1
     IN /\ subs' = Append(subs, [id |-> id, pattern |-> pattern])
        /\ chan' = Append(chan, <<>>) /\ got' = Append(got, <<>>)
        /\ alive' = alive \union {id}
  /\ UNCHANGED <<sending, sent>>

\* The stream is dropped, and what its channel still held with it.
DropStream(s) ==
  /\ s \in alive
  /\ alive' = alive \ {s}
  /\ UNCHANGED <<subs, chan, got, sending, sent>>

Targets(subject) ==
  LET fits == SelectSeq(subs, LAMBDA e : <<e.pattern, subject>> \in Matching)
  IN [i \in DOMAIN fits |-> fits[i].id]

\* publish(): the matching senders are copied under the lock.
StartPublish(p, subject) ==
  /\ sending[p] = NoSend /\ MapThenSumSet(LAMBDA q : Len(sent[q]), Sender) < MaxMsgs
  /\ LET n == Len(sent[p]) + 1
     IN /\ sending' = [sending EXCEPT ![p] = [msg |-> n, subject |-> subject,
                                              todo |-> Targets(subject), dead |-> {}]]
        /\ sent' = [sent EXCEPT ![p] = Append(@, Range(Targets(subject)))]
  /\ UNCHANGED <<subs, chan, alive, got>>

\* variant: a closed channel that is full is waited for as well
SendNext_waiting(p) ==
  LET s == Head(sending[p].todo) IN
  /\ sending[p].todo # <<>> /\ Len(chan[s]) < Capacity
  /\ chan' = IF s \in alive THEN [chan EXCEPT ![s] = Append(@, <<p, sending[p].msg>>)] ELSE chan
  /\ sending' = [sending EXCEPT ![p].todo = Tail(@),
                                ![p].dead = IF s \in alive THEN @ ELSE @ \union {s}]
  /\ UNCHANGED <<subs, alive, got, sent>>

\* tx.send().await: a full channel makes the publisher wait, a closed one is noted.
SendNext(p) ==
  LET s == Head(sending[p].todo) IN
  /\ sending[p].todo # <<>>
  /\ s \in alive => Len(chan[s]) < Capacity
  /\ chan' = IF s \in alive THEN [chan EXCEPT ![s] = Append(@, <<p, sending[p].msg>>)] ELSE chan
  /\ sending' = [sending EXCEPT ![p].todo = Tail(@),
                                ![p].dead = IF s \in alive THEN @ ELSE @ \union {s}]
  /\ UNCHANGED <<subs, alive, got, sent>>

\* The dead subscribers are pruned under the lock, and publish returns.
Prune(p) ==
  /\ sending[p].msg # 0 /\ sending[p].todo = <<>>
  /\ subs' = SelectSeq(subs, LAMBDA e : e.id \notin sending[p].dead)
  /\ sending' = [sending EXCEPT ![p] = NoSend]
  /\ UNCHANGED <<chan, alive, got, sent>>

\* The stream of a subscription yields its oldest message.
Receive(s) ==
  /\ s \in alive /\ chan[s] # <<>>
  /\ chan' = [chan EXCEPT ![s] = Tail(@)]
  /\ got' = [got EXCEPT ![s] = Append(@, Head(chan[s]))]
  /\ UNCHANGED <<subs, alive, sending, sent>>

-----------------------------------------------------------------------------
BNext ==
  \/ \E q \in Patterns : Subscribe(q)
  \/ \E s \in Made : DropStream(s) \/ Receive(s)
  \/ \E p \in Sender : \/ \E t \in Subject : StartPublish(p, t)
                          \/ SendNext(p) \/ Prune(p)

\* A reader that has not dropped its stream reads on; tasks run.
BFairness ==
  /\ \A p \in Sender : WF_bvars(SendNext(p) \/ Prune(p))
  /\ \A s \in 1..MaxSubs : WF_bvars(s \in Made /\ Receive(s))

BSpec == BInit /\ [][BNext]_bvars /\ BFairness

-----------------------------------------------------------------------------
(* Properties.                                                             *)

BTypeOK ==
  /\ DOMAIN got = Made /\ alive \subseteq Made
  /\ \A s \in Made : Len(chan[s]) <= Capacity
  /\ \A p \in Sender : Range(sending[p].todo) \union sending[p].dead \subseteq Made

OfPublisher(s, p) == SelectSeq(got[s] \o chan[s], LAMBDA m : m[1] = p)

\* A live subscription misses nothing: of each publisher it has, in order, every
\* message whose publish found it registered, except the one still being sent.
NothingMissed ==
  \A s \in alive, p \in Sender :
    LET owed == SelectSeq([n \in 1..Len(sent[p]) |-> n], LAMBDA n : s \in sent[p][n])
        late == IF s \in Range(sending[p].todo) THEN 1 ELSE 0
    IN OfPublisher(s, p) = [k \in 1..(Len(owed) - late) |-> <<p, owed[k]>>]

\* Pruning removes the subscriptions found closed and no other, although publishes
\* prune in any order and subscriptions come and go between snapshot and prune.
LiveStaysRegistered == \A s \in alive : \E i \in DOMAIN subs : subs[i].id = s

\* As long as live readers read, a publish returns, whoever else is dropped.
PublishReturns == \A p \in Sender : sending[p].msg # 0 ~> sending[p] = NoSend

\* What the in-memory bus promises while subscribers come, lag and go: the live miss
\* nothing and stay registered, and a publish returns as long as they read.
BusDelivers ==
  /\ []BTypeOK
  /\ []NothingMissed
  /\ []LiveStaysRegistered
  /\ PublishReturns
=============================================================================
