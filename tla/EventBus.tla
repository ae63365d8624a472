------------------------------- MODULE EventBus -------------------------------
(***************************************************************************)
(* InMemoryEventBus (events/in_memory.py).  One bus is shared by every     *)
(* engine of an AIEngine, and the worker threads of a parallel workflow    *)
(* publish on it at the same time; it takes no lock.  publish() delivers   *)
(* in the publisher's own thread, and a handler may itself subscribe,      *)
(* unsubscribe or publish, so each thread has a stack of publish() calls.  *)
(*                                                                         *)
(* An event is the number of its publish() call, a registration the number *)
(* of its subscribe() call (its uuid): both are only told apart.           *)
(***************************************************************************)
EXTENDS Naturals, Sequences, FiniteSets

CONSTANTS Threads,      \* the threads that use the bus
          EventTypes,   \* the exact event types
          MaxRegs,      \* bound: subscriptions made
          MaxEvents,    \* bound: events published
          MaxDepth      \* bound: publish() calls nested in one thread

ASSUME BusAssumption ==
    MaxRegs \in Nat /\ MaxEvents \in Nat /\ MaxDepth \in Nat

Regs == 1..MaxRegs
Events == 1..MaxEvents

VARIABLES
    handlers,   \* [EventTypes -> Seq(Regs)]: _handlers, in insertion order
    issued,     \* number of registrations handed out
    published,  \* number of events published
    stack,      \* [Threads -> Seq(Frame)]: publish() calls, innermost last
    leaving,    \* [Threads -> 0..MaxRegs]: unsubscribe() past its check
    audience,   \* history: registrations active when the event was published
    heard,      \* history: registrations that were given the event, in order
    clashed     \* history: registrations two threads were leaving at once

vars == <<handlers, issued, published, stack, leaving, audience, heard, clashed>>

(* A publish() call: its event, what is left of the snapshot it walks, and *)
(* whether it is inside a handler.                                         *)
Frame == [event : Events, left : Seq(Regs), busy : BOOLEAN]

TypeOK ==
    /\ handlers \in [EventTypes -> Seq(Regs)]
    /\ issued \in 0..MaxRegs
    /\ published \in 0..MaxEvents
    /\ stack \in [Threads -> Seq(Frame)]
    /\ leaving \in [Threads -> 0..MaxRegs]
    /\ audience \in [Events -> SUBSET Regs]
    /\ heard \in [Events -> Seq(Regs)]
    /\ clashed \in SUBSET Regs

Elements(seq) == {seq[i] : i \in DOMAIN seq}

Init ==
    /\ handlers = [t \in EventTypes |-> <<>>]
    /\ issued = 0
    /\ published = 0
    /\ stack = [th \in Threads |-> <<>>]
    /\ leaving = [th \in Threads |-> 0]
    /\ audience = [e \in Events |-> {}]
    /\ heard = [e \in Events |-> <<>>]
    /\ clashed = {}

Top(th) == stack[th][Len(stack[th])]
SetTop(th, frame) == stack' = [stack EXCEPT ![th][Len(stack[th])] = frame]
Pop(th) == stack' = [stack EXCEPT ![th] = SubSeq(@, 1, Len(@) - 1)]

(* The thread is in the loop of a publish(), or in a handler it called.    *)
InLoop(th) == stack[th] # <<>> /\ ~Top(th).busy
InHandler(th) == stack[th] # <<>> /\ Top(th).busy

(* Code of the application or of a handler runs in the thread.             *)
Calling(th) == leaving[th] = 0 /\ ~InLoop(th)

-----------------------------------------------------------------------------
Subscribe(th, t) ==
    /\ Calling(th)
    /\ issued < MaxRegs
    /\ issued' = issued + 1
    /\ handlers' = [handlers EXCEPT ![t] = Append(@, issued')]
    /\ UNCHANGED <<published, stack, leaving, audience, heard, clashed>>

(* unsubscribe() raises EventDispatchError for a registration that is not  *)
(* active, and otherwise deletes it in a step of its own.                  *)
UnsubscribeChecks(th, r) ==
    /\ Calling(th)
    /\ \E t \in EventTypes : r \in Elements(handlers[t])
    /\ leaving' = [leaving EXCEPT ![th] = r]
    /\ clashed' = IF \E x \in Threads : leaving[x] = r THEN clashed \cup {r} ELSE clashed
    /\ UNCHANGED <<handlers, issued, published, stack, audience, heard>>

(* A bug: the type's whole table goes with the registration.               *)
MutRemaining(seq, r) == IF r \in Elements(seq) THEN <<>> ELSE seq

Remaining(seq, r) ==
    IF r \in Elements(seq)
    THEN LET i == CHOOSE k \in DOMAIN seq : seq[k] = r
         IN  SubSeq(seq, 1, i - 1) \o SubSeq(seq, i + 1, Len(seq))
    ELSE seq

(* The deletion, or KeyError if the registration has gone since the check. *)
UnsubscribeDeletes(th) ==
    /\ leaving[th] # 0
    /\ handlers' = [t \in EventTypes |-> Remaining(handlers[t], leaving[th])]
    /\ leaving' = [leaving EXCEPT ![th] = 0]
    /\ UNCHANGED <<issued, published, stack, audience, heard, clashed>>

(* publish() takes its copy of the handlers of the event's exact type.     *)
Publish(th, t) ==
    /\ Calling(th)
    /\ published < MaxEvents
    /\ Len(stack[th]) < MaxDepth
    /\ published' = published + 1
    /\ stack' = [stack EXCEPT ![th] = Append(@,
                   [event |-> published', left |-> handlers[t], busy |-> FALSE])]
    /\ audience' = [audience EXCEPT ![published'] = Elements(handlers[t])]
    /\ UNCHANGED <<handlers, issued, leaving, heard, clashed>>

(* A bug: a lock that is not reentrant is held while a handler runs.       *)
MutDeliver(th) ==
    /\ InLoop(th)
    /\ Top(th).left # <<>>
    /\ \A x \in Threads : \A i \in DOMAIN stack[x] : ~stack[x][i].busy
    /\ heard' = [heard EXCEPT ![Top(th).event] = Append(@, Head(Top(th).left))]
    /\ SetTop(th, [Top(th) EXCEPT !.left = Tail(@), !.busy = TRUE])
    /\ UNCHANGED <<handlers, issued, published, leaving, audience, clashed>>

(* The next handler of the copy is called, still subscribed or not.        *)
Deliver(th) ==
    /\ InLoop(th)
    /\ Top(th).left # <<>>
    /\ heard' = [heard EXCEPT ![Top(th).event] = Append(@, Head(Top(th).left))]
    /\ SetTop(th, [Top(th) EXCEPT !.left = Tail(@), !.busy = TRUE])
    /\ UNCHANGED <<handlers, issued, published, leaving, audience, clashed>>

HandlerReturns(th) ==
    /\ InHandler(th) /\ leaving[th] = 0
    /\ SetTop(th, [Top(th) EXCEPT !.busy = FALSE])
    /\ UNCHANGED <<handlers, issued, published, leaving, audience, heard, clashed>>

(* A bug: what a handler raises ends the walk.                             *)
MutHandlerRaises(th) ==
    /\ InHandler(th) /\ leaving[th] = 0
    /\ Pop(th)
    /\ UNCHANGED <<handlers, issued, published, leaving, audience, heard, clashed>>

(* What a handler raises is logged, and the walk goes on.                  *)
HandlerRaises(th) == HandlerReturns(th)

PublishReturns(th) ==
    /\ InLoop(th)
    /\ Top(th).left = <<>>
    /\ Pop(th)
    /\ UNCHANGED <<handlers, issued, published, leaving, audience, heard, clashed>>

Call(th) ==
    \/ \E t \in EventTypes : Subscribe(th, t) \/ Publish(th, t)
    \/ \E r \in Regs : UnsubscribeChecks(th, r)

Progress(th) ==
    \/ UnsubscribeDeletes(th)
    \/ Deliver(th)
    \/ HandlerReturns(th) \/ HandlerRaises(th)
    \/ PublishReturns(th)

Next == \E th \in Threads : Call(th) \/ Progress(th)

Spec == Init /\ [][Next]_vars

(* Every thread that can run does, and every handler returns or raises.    *)
FairSpec == Spec /\ \A th \in Threads : WF_vars(Progress(th))

-----------------------------------------------------------------------------
InProgress(e) ==
    \E th \in Threads : \E i \in DOMAIN stack[th] : stack[th][i].event = e

(* Whatever handlers raise, subscribe, unsubscribe or publish meanwhile,   *)
(* and in whatever threads: an event is given at most once, and in the     *)
(* order of subscription, to registrations active when it was published,   *)
(* and when publish() returns every one of them was given it.              *)
HeardOnceInOrder ==
    \A e \in Events :
        /\ \A i, j \in DOMAIN heard[e] : i < j => heard[e][i] < heard[e][j]
        /\ Elements(heard[e]) \subseteq audience[e]
        /\ ~InProgress(e) => Elements(heard[e]) = audience[e]

(* A registration that passed the check of unsubscribe() is still there    *)
(* when it is deleted, and EventDispatchError is the only error, unless    *)
(* two threads unsubscribed the same registration at once.                 *)
UnsubscribeFindsIt ==
    \A th \in Threads :
        leaving[th] # 0 /\ leaving[th] \notin clashed
            => \E t \in EventTypes : leaving[th] \in Elements(handlers[t])

(* publish() comes back, however many subscriptions to the same event its  *)
(* handlers add and however they nest.                                     *)
PublishEnds == \A th \in Threads : stack[th] # <<>> ~> stack[th] = <<>>
=============================================================================
