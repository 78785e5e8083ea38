-------------------------------- MODULE Lane --------------------------------
(***************************************************************************)
(* The bounded queue behind the encode pool and the publisher              *)
(* (ourios-ingester/src/lane.rs): threads serve a channel, a panic retires *)
(* the generation of threads that shares the channel, and the next enqueue *)
(* starts another.                                                         *)
(*                                                                         *)
(* Two mutexes matter: the slot's, which every enqueue holds and which a   *)
(* sender gives up only by waiting for space, and the receiver's, which a  *)
(* thread holds while it waits in recv.  Each caller sends one item.  The  *)
(* lane is dropped by its owner, so no enqueue is under way then and the   *)
(* Stopped arms of try_send and send are never taken; the Disconnected     *)
(* arms need a generation without threads in an open slot, which           *)
(* OpenIsServed excludes.                                                  *)
(***************************************************************************)
EXTENDS Integers, Sequences, FiniteSets

CONSTANTS
  Item,      \* what is sent, each by a caller of its own
  NoItem,
  Worker,    \* the threads of a generation
  Capacity,  \* the bound of the queue
  MaxPanics  \* bound: items whose serve panics

ASSUME LaneAssumption ==
  /\ NoItem \notin Item /\ Worker # {}
  /\ Capacity \in Nat \ {0}
  /\ MaxPanics \in Nat

Gen == 0..MaxPanics
Thread == Gen \X Worker

VARIABLES
  slot,         \* the state of the slot
  open,         \* the generation of an open slot
  generations,  \* how many were started
  handles,      \* the threads the slot can join
  queue,        \* the channel of each generation
  thread,       \* what each thread is doing
  held,         \* the item in the hands of each thread
  item,         \* where each item, or the call that sends it, is
  mutex,        \* the sender between its failed try_send and its wait
  panics

slots == <<slot, open, generations, handles>>
threads == <<thread, held>>
laneVars == <<slots, queue, threads, item, mutex, panics>>
-----------------------------------------------------------------------------
LaneInit ==
  /\ slot = "Idle" /\ open = 0 /\ generations = 0 /\ handles = {}
  /\ queue = [g \in Gen |-> <<>>]
  /\ thread = [t \in Thread |-> "none"] /\ held = [t \in Thread |-> NoItem]
  /\ item = [i \in Item |-> "out"]
  /\ mutex = NoItem /\ panics = 0

Unlocked == mutex = NoItem
Room == slot = "Open" /\ Len(queue[open]) < Capacity
Woken(f) == [i \in Item |-> IF f[i] = "waiting" THEN "woken" ELSE f[i]]

(* spawn: a new generation over a channel of its own; every waiter wakes.  *)
Unfinished_NoneKept == {}
Unfinished == {t \in handles : thread[t] # "gone"}
Spawned ==
  /\ generations \in Gen
  /\ slot' = "Open" /\ open' = generations /\ generations' = generations + 1
  /\ handles' = Unfinished \cup {t \in Thread : t[1] = generations}
  /\ thread' = [t \in Thread |-> IF t[1] = generations THEN "idle" ELSE thread[t]]

Start ==
  /\ slot = "Idle" /\ Unlocked
  /\ Spawned /\ item' = Woken(item)
  /\ UNCHANGED <<queue, held, mutex, panics>>

Enqueue(i, g) == queue' = [queue EXCEPT ![g] = Append(@, i)]

(* try_send, the slot locked throughout.                                   *)
TrySend(i) ==
  /\ item[i] = "out" /\ Unlocked /\ slot # "Stopped"
  /\ \/ /\ Room /\ Enqueue(i, open)
        /\ item' = [item EXCEPT ![i] = "accepted"] /\ UNCHANGED <<slots, thread>>
     \/ /\ slot = "Open" /\ ~Room
        /\ item' = [item EXCEPT ![i] = "back"] /\ UNCHANGED <<slots, queue, thread>>
     \/ /\ slot = "Idle" /\ Spawned /\ Enqueue(i, generations)
        /\ item' = [Woken(item) EXCEPT ![i] = "accepted"]
     \/ /\ slot = "Closed" /\ Spawned
        /\ item' = [Woken(item) EXCEPT ![i] = "back"] /\ UNCHANGED queue
  /\ UNCHANGED <<held, mutex, panics>>

(* send: one turn of its loop under the slot's mutex, which a sender that  *)
(* found the queue full keeps until it waits.                              *)
Send(i) ==
  /\ item[i] \in {"out", "woken"} /\ Unlocked /\ slot # "Stopped"
  /\ \/ /\ Room /\ Enqueue(i, open)
        /\ item' = [item EXCEPT ![i] = "accepted"] /\ UNCHANGED <<slots, thread, mutex>>
     \/ /\ slot = "Open" /\ ~Room
        /\ item' = [item EXCEPT ![i] = "full"] /\ mutex' = i
        /\ UNCHANGED <<slots, queue, thread>>
     \/ /\ slot \in {"Idle", "Closed"} /\ Spawned /\ Enqueue(i, generations)
        /\ item' = [Woken(item) EXCEPT ![i] = "accepted"] /\ UNCHANGED mutex
  /\ UNCHANGED <<held, panics>>

Wait(i) ==
  /\ mutex = i
  /\ item' = [item EXCEPT ![i] = "waiting"] /\ mutex' = NoItem
  /\ UNCHANGED <<slots, queue, threads, panics>>
-----------------------------------------------------------------------------
(* work, by thread t.  The receiver's mutex is held in recv and in drain.  *)
Goes(t, st) == thread' = [thread EXCEPT ![t] = st]
HasReceiver(t) == thread[t] \in {"recv", "drain"}
ReceiverFree(t) == \A w \in Worker : ~HasReceiver(<<t[1], w>>)
SenderGone(t) == ~(slot = "Open" /\ open = t[1])

LockReceiver(t) ==
  /\ thread[t] = "idle" /\ ReceiverFree(t) /\ Goes(t, "recv")
  /\ UNCHANGED <<slots, queue, held, item, mutex, panics>>

Recv(t) ==
  /\ thread[t] = "recv" /\ queue[t[1]] # <<>>
  /\ held' = [held EXCEPT ![t] = Head(queue[t[1]])]
  /\ queue' = [queue EXCEPT ![t[1]] = Tail(@)]
  /\ Goes(t, "received")
  /\ UNCHANGED <<slots, item, mutex, panics>>

RecvFails(t) ==
  /\ thread[t] = "recv" /\ queue[t[1]] = <<>> /\ SenderGone(t) /\ Goes(t, "gone")
  /\ UNCHANGED <<slots, queue, held, item, mutex, panics>>

(* made_space: the slot's mutex is taken and released, then all waiters    *)
(* are notified.                                                           *)
Passes_Unsynchronised == TRUE
Passes == Unlocked
MadeSpace(t) ==
  /\ thread[t] = "received" /\ Passes /\ Goes(t, "spaced")
  /\ UNCHANGED <<slots, queue, held, item, mutex, panics>>

NotifySpace(t) ==
  /\ thread[t] = "spaced" /\ Goes(t, "serving") /\ item' = Woken(item)
  /\ UNCHANGED <<slots, queue, held, mutex, panics>>

Settle(t, how) == item' = [item EXCEPT ![held[t]] = how] /\ held' = [held EXCEPT ![t] = NoItem]

Serve(t) ==
  /\ thread[t] = "serving" /\ Settle(t, "served") /\ Goes(t, "idle")
  /\ UNCHANGED <<slots, queue, mutex, panics>>

(* serve panics: the item is dropped as it unwinds.                        *)
Panic(t) ==
  /\ thread[t] = "serving" /\ panics < MaxPanics
  /\ Settle(t, "unwound") /\ Goes(t, "panicked") /\ panics' = panics + 1
  /\ UNCHANGED <<slots, queue, mutex>>

(* retire: close the slot, unless another generation has it; notify; drain *)
(* what is queued.                                                         *)
Closes(t) == slot = "Open" /\ open = t[1]
Retire(t) ==
  /\ thread[t] = "panicked" /\ Unlocked /\ Goes(t, "closed")
  /\ slot' = IF Closes(t) THEN "Closed" ELSE slot
  /\ UNCHANGED <<open, generations, handles, queue, held, item, mutex, panics>>

NotifyClosed_NoDrain(t) ==
  /\ thread[t] = "closed" /\ Goes(t, "gone") /\ item' = Woken(item)
  /\ UNCHANGED <<slots, queue, held, mutex, panics>>
NotifyClosed(t) ==
  /\ thread[t] = "closed" /\ Goes(t, "retired") /\ item' = Woken(item)
  /\ UNCHANGED <<slots, queue, held, mutex, panics>>

BeginDrain(t) ==
  /\ thread[t] = "retired" /\ ReceiverFree(t) /\ Goes(t, "drain")
  /\ UNCHANGED <<slots, queue, held, item, mutex, panics>>

Salvage(t) ==
  /\ thread[t] = "drain" /\ queue[t[1]] # <<>>
  /\ item' = [item EXCEPT ![Head(queue[t[1]])] = "salvaged"]
  /\ queue' = [queue EXCEPT ![t[1]] = Tail(@)]
  /\ UNCHANGED <<slots, threads, mutex, panics>>

Drained(t) ==
  /\ thread[t] = "drain" /\ queue[t[1]] = <<>> /\ Goes(t, "gone")
  /\ UNCHANGED <<slots, queue, held, item, mutex, panics>>
-----------------------------------------------------------------------------
(* Drop for Lane: only the owner drops it, when nobody borrows it.  It     *)
(* joins the handles the slot has.                                         *)
Drop ==
  /\ slot \notin {"Stopped", "Joined"}
  /\ \A i \in Item : item[i] \notin {"full", "waiting", "woken"}
  /\ slot' = "Stopped"
  /\ UNCHANGED <<open, generations, handles, queue, threads, item, mutex, panics>>

Joined ==
  /\ slot = "Stopped" /\ (\A t \in handles : thread[t] = "gone") /\ slot' = "Joined"
  /\ UNCHANGED <<open, generations, handles, queue, threads, item, mutex, panics>>

Enqueues(i) == TrySend(i) \/ Send(i)
Retires(t) == Retire(t) \/ NotifyClosed(t) \/ BeginDrain(t) \/ Salvage(t) \/ Drained(t)
Works(t) ==
  \/ LockReceiver(t) \/ Recv(t) \/ RecvFails(t) \/ MadeSpace(t) \/ NotifySpace(t)
  \/ Serve(t) \/ Panic(t) \/ Retires(t)

LaneNext ==
  \/ Start \/ Drop \/ Joined
  \/ \E i \in Item : Enqueues(i) \/ Wait(i)
  \/ \E t \in Thread : Works(t)

LaneSpec == LaneInit /\ [][LaneNext]_laneVars

(* Threads run, serve returns or unwinds, a sender that was woken competes *)
(* for the mutex and gets it, and a join returns once its thread ended.    *)
(* Nobody has to send or to drop the lane.                                 *)
LaneLive ==
  /\ LaneSpec
  /\ \A t \in Thread : WF_laneVars(Works(t))
  /\ \A i \in Item : WF_laneVars(item[i] = "woken" /\ Send(i)) /\ WF_laneVars(Wait(i))
  /\ WF_laneVars(Joined)
-----------------------------------------------------------------------------
(* The types; a channel never holds more than its bound.                   *)
LaneTypeOK ==
  /\ slot \in {"Idle", "Open", "Closed", "Stopped", "Joined"}
  /\ open \in Gen /\ generations \in 0..(MaxPanics + 1) /\ handles \subseteq Thread
  /\ queue \in [Gen -> Seq(Item)] /\ \A g \in Gen : Len(queue[g]) <= Capacity
  /\ thread \in [Thread -> {"none", "idle", "recv", "received", "spaced", "serving",
                            "panicked", "closed", "retired", "drain", "gone"}]
  /\ held \in [Thread -> Item \cup {NoItem}]
  /\ item \in [Item -> {"out", "back", "full", "waiting", "woken", "accepted",
                        "served", "unwound", "salvaged"}]
  /\ mutex \in Item \cup {NoItem} /\ panics \in 0..MaxPanics

(* An open slot has a thread that can still receive from its channel: no   *)
(* enqueue finds the channel disconnected or lands in one that nobody will *)
(* read, however a panic falls among the threads.                          *)
OpenIsServed ==
  slot = "Open" =>
    \A w \in Worker : thread[<<open, w>>] \notin {"none", "closed", "retired", "drain", "gone"}

Runs(t) == thread[t] \notin {"none", "gone"}
(* Whatever is queued is in a generation some thread of which has not yet  *)
(* passed its drain: nothing is stranded behind a panic.                   *)
NothingStranded ==
  \A g \in Gen : queue[g] # <<>> => \E w \in Worker : Runs(<<g, w>>)

(* The accepted items are exactly those in a channel or in the hands of a  *)
(* thread, each in one place: none is lost, none is settled twice.         *)
InQueue(i) == {p \in Gen \X (1..Capacity) : p[2] <= Len(queue[p[1]]) /\ queue[p[1]][p[2]] = i}
InHands(i) == {t \in Thread : held[t] = i}
AcceptedIsHeldOnce ==
  \A i \in Item :
    Cardinality(InQueue(i)) + Cardinality(InHands(i)) = IF item[i] = "accepted" THEN 1 ELSE 0

(* The drop returns only when every thread of every generation has ended   *)
(* and every accepted item is settled.                                     *)
DropSettlesAll ==
  slot = "Joined" =>
    /\ \A t \in Thread : ~Runs(t)
    /\ \A i \in Item : item[i] # "accepted"

(* The lane at every moment: types, an open slot has threads, no item is   *)
(* stranded in a closed channel, and each is held exactly once (lane.rs,   *)
(* try_send, send and retire).                                             *)
LaneInv == LaneTypeOK /\ OpenIsServed /\ NothingStranded /\ AcceptedIsHeldOnce

(* Every call on the lane completes: a sender that waits for space gets    *)
(* in, an item that is in is served, salvaged or unwound, and the drop     *)
(* returns.  Each item is sent once, so they all complete if again and     *)
(* again none is under way: no wake is lost, no panic leaves an item       *)
(* behind, and no thread waits in recv for a sender that is gone (lane.rs, *)
(* send, made_space, retire and drop).                                     *)
CallsComplete ==
  []<>(/\ \A i \in Item : item[i] \notin {"full", "waiting", "woken", "accepted"}
       /\ slot # "Stopped")
=============================================================================
